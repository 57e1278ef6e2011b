---------------------------- MODULE StorageProofs ----------------------------
(***************************************************************************)
(* Theorems about what the processes share through the database: the       *)
(* schema they migrate, the market snapshots they cache and the sessions   *)
(* of the web interface.  Each part has a specification of its own.        *)
(***************************************************************************)
EXTENDS SchemaMigrations, MarketData, WebAuth, FiniteSetTheorems, TLAPS

(***************************************************************************)
(* Schema migrations.  The tables of every version ever read or recorded   *)
(* exist, and so does all a start has created so far.                      *)
(***************************************************************************)
Versions == 0 .. CURRENT_SCHEMA_VERSION

StarterStates ==
  [at : {"down", "count", "insert", "read", "apply", "ready"}, version : Nat, next : Nat]

\* What a starter in this state knows to be there, of the version rows and the tables.
Supported(s, rows, created) ==
  /\ s.at = "read" => rows # <<>>
  /\ s.at = "apply" =>
       /\ s.version \in Versions \ {CURRENT_SCHEMA_VERSION}
       /\ s.next \in 1 .. Len(Statements(s.version + 1))
       /\ TablesUpTo(s.version) \subseteq created
       /\ \A k \in 1 .. s.next - 1 : MIGRATIONS[s.version + 1][k] \in created
  /\ s.at = "ready" => TablesUpTo(CURRENT_SCHEMA_VERSION) \subseteq created

SchemaInv ==
  /\ schema_version \in Seq(Versions)
  /\ \A i \in DOMAIN schema_version : TablesUpTo(schema_version[i]) \subseteq tables
  /\ starter \in [Starters -> StarterStates]
  /\ \A p \in Starters : Supported(starter[p], schema_version, tables)

\* The scripts are sequences of tables and the version is recorded after them.
LEMMA ScriptShape ==
  ASSUME NEW v \in 1 .. CURRENT_SCHEMA_VERSION
  PROVE  /\ CURRENT_SCHEMA_VERSION = 3
         /\ Len(MIGRATIONS[v]) \in Nat /\ DOMAIN MIGRATIONS[v] = 1 .. Len(MIGRATIONS[v])
         /\ Len(Statements(v)) = Len(MIGRATIONS[v]) + 1
         /\ \A k \in 1 .. Len(MIGRATIONS[v]) :
              Statements(v)[k] = MIGRATIONS[v][k] /\ MIGRATIONS[v][k] # "record"
         /\ Statements(v)[Len(MIGRATIONS[v]) + 1] = "record"
<1>1. CURRENT_SCHEMA_VERSION = 3 /\ v \in {1, 2, 3}
  BY DEF CURRENT_SCHEMA_VERSION, MIGRATIONS
<1>2. MIGRATIONS[1] = v001_initial /\ MIGRATIONS[2] = v002_web_auth
      /\ MIGRATIONS[3] = v003_execution_previews
  BY DEF MIGRATIONS
<1>3. ASSUME NEW S, NEW script \in Seq(S), "record" \notin S
      PROVE  /\ Len(script) \in Nat /\ DOMAIN script = 1 .. Len(script)
             /\ Len(Append(script, "record")) = Len(script) + 1
             /\ \A k \in 1 .. Len(script) :
                  Append(script, "record")[k] = script[k] /\ script[k] # "record"
             /\ Append(script, "record")[Len(script) + 1] = "record"
  BY <1>3
<1>4. CASE v = 1
  <2> DEFINE S == {"trade_proposals", "proposal_reviews", "intent_reviews", "order_intents",
    "simulated_executions", "simulated_fill_events", "watchlist_entries", "operator_alerts",
    "operator_action_requests", "operator_action_request_records", "probability_snapshots",
    "market_data_snapshots", "decision_reviews", "execution_evaluations",
    "outcome_analysis_snapshots", "saved_views", "audit_events", "positions"}
  <2>1. v001_initial \in Seq(S) /\ "record" \notin S
    BY DEF v001_initial
  <2> HIDE DEF S
  <2> QED
    BY <1>1, <1>2, <1>3, <1>4, <2>1 DEF Statements
<1>5. CASE v = 2
  <2>1. v002_web_auth \in Seq({"web_users", "web_sessions", "web_remember_tokens"})
    BY DEF v002_web_auth
  <2> QED
    BY <1>1, <1>2, <1>3, <1>5, <2>1 DEF Statements
<1>6. CASE v = 3
  <2>1. v003_execution_previews \in Seq({"execution_previews"})
    BY DEF v003_execution_previews
  <2> QED
    BY <1>1, <1>2, <1>3, <1>6, <2>1 DEF Statements
<1> QED
  BY <1>1, <1>4, <1>5, <1>6

\* Once a script is through, the tables up to its version exist.
LEMMA ScriptDone ==
  ASSUME NEW v \in 1 .. CURRENT_SCHEMA_VERSION, TablesUpTo(v - 1) \subseteq tables,
         \A k \in 1 .. Len(MIGRATIONS[v]) : MIGRATIONS[v][k] \in tables
  PROVE  TablesUpTo(v) \subseteq tables
<1>1. CURRENT_SCHEMA_VERSION \in Nat
  BY ScriptShape
<1>2. 1 .. v = (1 .. v - 1) \cup {v}
  BY <1>1
<1>3. ToSet(MIGRATIONS[v]) \subseteq tables
  BY ScriptShape DEF ToSet
<1> QED
  BY <1>2, <1>3 DEF TablesUpTo

\* Every statement of a start keeps each version row covered by its tables.
LEMMA SchemaStep == SchemaInv /\ [SchemaNext]_schemaVars => SchemaInv'
<1> SUFFICES ASSUME SchemaInv, [SchemaNext]_schemaVars  PROVE SchemaInv'
  OBVIOUS
<1>0. /\ schema_version \in Seq(Versions)
      /\ \A i \in DOMAIN schema_version : TablesUpTo(schema_version[i]) \subseteq tables
      /\ starter \in [Starters -> StarterStates]
      /\ \A p \in Starters : Supported(starter[p], schema_version, tables)
  BY DEF SchemaInv
\* Only the starter of the step needs a look when nothing is taken back.
<1>1. ASSUME NEW p \in Starters, tables \subseteq tables',
             schema_version # <<>> => schema_version' # <<>>,
             NEW s \in StarterStates, starter' = [starter EXCEPT ![p] = s],
             Supported(s, schema_version', tables')
      PROVE  /\ starter' \in [Starters -> StarterStates]
             /\ \A q \in Starters : Supported(starter'[q], schema_version', tables')
  <2>1. starter'[p] = s /\ \A q \in Starters \ {p} : starter'[q] = starter[q]
    BY <1>0, <1>1
  <2>2. \A q \in Starters \ {p} : Supported(starter'[q], schema_version', tables')
    BY <1>0, <1>1, <2>1 DEF Supported
  <2> QED
    BY <1>0, <1>1, <2>1, <2>2 DEF Supported
<1>2. ASSUME NEW p \in Starters, StartProcess(p) \/ StopProcess(p) \/ CountVersions(p)
      PROVE  SchemaInv'
  <2> DEFINE down  == [at |-> "down", version |-> 0, next |-> 1]
             count == [at |-> "count", version |-> 0, next |-> 1]
             seen  == [starter[p] EXCEPT !.at = IF schema_version = <<>> THEN "insert" ELSE "read"]
  <2>1. down \in StarterStates /\ count \in StarterStates /\ seen \in StarterStates
    BY <1>0 DEF StarterStates
  <2>2. \E s \in {down, count, seen} : starter' = [starter EXCEPT ![p] = s]
    BY <1>0, <1>2 DEF StartProcess, StopProcess, CountVersions
  <2>3. UNCHANGED <<schema_version, tables>>
    BY <1>2 DEF StartProcess, StopProcess, CountVersions
  <2>4. /\ seen.at \in {"insert", "read"}
        /\ seen.at = "read" => schema_version # <<>>
    BY <1>0 DEF StarterStates
  <2>5. Supported(down, schema_version', tables') /\ Supported(count, schema_version', tables')
    BY DEF Supported
  <2>6. Supported(seen, schema_version', tables')
    <3> HIDE DEF seen
    <3> QED
      BY <2>3, <2>4 DEF Supported
  <2> QED
    BY <1>0, <1>1, <2>1, <2>2, <2>3, <2>5, <2>6 DEF SchemaInv
<1>3. ASSUME NEW p \in Starters, InsertVersion(p)
      PROVE  SchemaInv'
  <2> DEFINE s == [starter[p] EXCEPT !.at = "read"]
  <2>1. s \in StarterStates /\ s.at = "read" /\ starter' = [starter EXCEPT ![p] = s]
    BY <1>0, <1>3 DEF InsertVersion, StarterStates
  <2>2. /\ schema_version' = Append(schema_version, 0) /\ tables' = tables
    BY <1>3 DEF InsertVersion
  <2>3. 0 \in Versions /\ TablesUpTo(0) = {}
    <3>1. CURRENT_SCHEMA_VERSION = 3
      BY DEF CURRENT_SCHEMA_VERSION, MIGRATIONS
    <3> QED
      BY <3>1 DEF Versions, TablesUpTo
  <2>4. /\ schema_version' \in Seq(Versions) /\ schema_version' # <<>>
        /\ \A i \in DOMAIN schema_version' : schema_version'[i] = 0 \/
              (i \in DOMAIN schema_version /\ schema_version'[i] = schema_version[i])
    BY <1>0, <2>2, <2>3
  <2>5. \A i \in DOMAIN schema_version' : TablesUpTo(schema_version'[i]) \subseteq tables
    BY <1>0, <2>3, <2>4
  <2>6. Supported(s, schema_version', tables')
    BY <2>1, <2>4 DEF Supported
  <2> QED
    BY <1>0, <1>1, <2>1, <2>2, <2>4, <2>5, <2>6 DEF SchemaInv
<1>4. ASSUME NEW p \in Starters, current_schema_version(p)
      PROVE  SchemaInv'
  <2> DEFINE version == schema_version[1]
             s == [at |-> IF MigrationsLeft(version) THEN "apply" ELSE "ready", version |-> version,
                   next |-> 1]
  <2>1. schema_version # <<>> /\ starter' = [starter EXCEPT ![p] = s]
        /\ UNCHANGED <<schema_version, tables>>
    BY <1>0, <1>4 DEF current_schema_version, Supported
  <2>2. version \in Versions /\ TablesUpTo(version) \subseteq tables
    BY <1>0, <2>1
  <2>3. CURRENT_SCHEMA_VERSION \in Nat
    BY DEF CURRENT_SCHEMA_VERSION, MIGRATIONS
  <2>4. s \in StarterStates
    BY <2>2, <2>3 DEF StarterStates, Versions
  <2>5. Supported(s, schema_version, tables)
    <3>1. CASE MigrationsLeft(version)
      <4>1. version \in Versions \ {CURRENT_SCHEMA_VERSION} /\ version + 1 \in 1 .. CURRENT_SCHEMA_VERSION
        BY <2>2, <2>3, <3>1 DEF Versions, MigrationsLeft
      <4>2. 1 \in 1 .. Len(Statements(version + 1))
        BY <4>1, ScriptShape
      <4> QED
        BY <2>2, <3>1, <4>1, <4>2 DEF Supported
    <3>2. CASE ~MigrationsLeft(version)
      <4>1. version = CURRENT_SCHEMA_VERSION
        BY <2>2, <2>3, <3>2 DEF Versions, MigrationsLeft
      <4> QED
        BY <2>2, <3>2, <4>1 DEF Supported
    <3> QED
      BY <3>1, <3>2
  <2>6. Supported(s, schema_version', tables')
    BY <2>1, <2>5 DEF Supported
  <2> QED
    BY <1>0, <1>1, <2>1, <2>4, <2>6 DEF SchemaInv
<1>5. ASSUME NEW p \in Starters, apply_migrations(p)
      PROVE  SchemaInv'
  <2> DEFINE old == starter[p]
             migration == old.version + 1
             script == MIGRATIONS[migration]
             statement == Statements(migration)[old.next]
  <2>1. /\ old \in StarterStates /\ Supported(old, schema_version, tables) /\ old.at = "apply"
        /\ migration \in 1 .. CURRENT_SCHEMA_VERSION /\ CURRENT_SCHEMA_VERSION = 3
        /\ migration \in Versions /\ old.version = migration - 1
    <3>1. old \in StarterStates /\ Supported(old, schema_version, tables) /\ old.at = "apply"
      BY <1>0, <1>5 DEF apply_migrations
    <3>2. CURRENT_SCHEMA_VERSION = 3
      BY DEF CURRENT_SCHEMA_VERSION, MIGRATIONS
    <3> QED
      BY <3>1, <3>2 DEF Supported, Versions
  <2>2. /\ old.next \in 1 .. Len(script) + 1 /\ Len(script) \in Nat
        /\ Len(Statements(migration)) = Len(script) + 1
        /\ \A k \in 1 .. old.next - 1 : script[k] \in tables
        /\ TablesUpTo(migration - 1) \subseteq tables
    BY <2>1, ScriptShape DEF Supported
  <2> HIDE DEF old
  <2>3. CASE old.next = Len(script) + 1
    <3> DEFINE s == [at |-> IF MigrationsLeft(migration) THEN "apply" ELSE "ready",
                     version |-> migration, next |-> 1]
    <3>1. /\ tables' = tables /\ starter' = [starter EXCEPT ![p] = s]
          /\ schema_version' = [i \in DOMAIN schema_version |-> migration]
      BY <1>5, <2>1, <2>2, <2>3, ScriptShape DEF apply_migrations, old
    <3>2. TablesUpTo(migration) \subseteq tables
      BY SMTT(60), <2>1, <2>2, <2>3, ScriptDone
    <3>3. /\ schema_version' \in Seq(Versions)
          /\ schema_version # <<>> => schema_version' # <<>>
          /\ \A i \in DOMAIN schema_version' : schema_version'[i] = migration
      BY <1>0, <2>1, <3>1
    <3>4. s \in StarterStates
      BY <2>1 DEF StarterStates
    <3>5. Supported(s, schema_version', tables')
      <4>1. CASE MigrationsLeft(migration)
        <5>1. /\ migration \in Versions \ {CURRENT_SCHEMA_VERSION}
              /\ migration + 1 \in 1 .. CURRENT_SCHEMA_VERSION
          BY <2>1, <4>1 DEF Versions, MigrationsLeft
        <5>2. 1 \in 1 .. Len(Statements(migration + 1))
          BY <5>1, ScriptShape
        <5> QED
          BY <3>1, <3>2, <4>1, <5>1, <5>2 DEF Supported
      <4>2. CASE ~MigrationsLeft(migration)
        <5>1. migration = CURRENT_SCHEMA_VERSION
          BY <2>1, <4>2 DEF MigrationsLeft
        <5> QED
          BY <3>1, <3>2, <4>2, <5>1 DEF Supported
      <4> QED
        BY <4>1, <4>2
    <3>6. \A i \in DOMAIN schema_version' : TablesUpTo(schema_version'[i]) \subseteq tables'
      BY <3>1, <3>2, <3>3
    <3> QED
      BY <1>1, <3>1, <3>3, <3>4, <3>5, <3>6 DEF SchemaInv
  <2>4. CASE old.next # Len(script) + 1
    <3> DEFINE s == [old EXCEPT !.next = @ + 1]
    <3>1. old.next \in 1 .. Len(script)
      BY <2>2, <2>4
    <3>2. /\ tables' = tables \cup {script[old.next]} /\ starter' = [starter EXCEPT ![p] = s]
          /\ schema_version' = schema_version
      BY ZenonT(60), <1>5, <2>1, <2>2, <2>4, <3>1, ScriptShape DEF apply_migrations, old
    <3>3. /\ s \in StarterStates /\ s.at = "apply" /\ s.version = old.version
          /\ s.next = old.next + 1
      BY <2>1 DEF StarterStates
    <3> HIDE DEF s
    <3>4. Supported(s, schema_version', tables')
      <4>1. s.version \in Versions \ {CURRENT_SCHEMA_VERSION} /\ s.version + 1 = migration
        BY <2>1, <3>3 DEF Supported
      <4>2. s.next \in 1 .. Len(Statements(s.version + 1))
        BY <2>2, <3>1, <3>3, <4>1
      <4>3. TablesUpTo(s.version) \subseteq tables'
        BY <2>1, <2>2, <3>2, <3>3
      <4>4. \A k \in 1 .. s.next - 1 : MIGRATIONS[s.version + 1][k] \in tables'
        BY <2>2, <3>1, <3>2, <3>3, <4>1
      <4> QED
        BY <3>3, <4>1, <4>2, <4>3, <4>4 DEF Supported
    <3>5. \A i \in DOMAIN schema_version' : TablesUpTo(schema_version'[i]) \subseteq tables'
      BY <1>0, <3>2
    <3> QED
      BY <1>0, <1>1, <3>2, <3>3, <3>4, <3>5 DEF SchemaInv
  <2> QED
    BY <2>3, <2>4
<1>6. CASE UNCHANGED schemaVars
  BY <1>0, <1>6 DEF schemaVars, SchemaInv, Supported
<1> QED
  BY <1>2, <1>3, <1>4, <1>5, <1>6 DEF SchemaNext

\* A process that has started has every table, however many start at once, move
\* the recorded version back or die in the middle of a script.
THEOREM MigrationsLeaveNoGap == SchemaSpec => []ReadyFindsItsTables
<1>1. SchemaInit => SchemaInv
  BY DEF SchemaInit, SchemaInv, StarterStates, Supported
<1>2. SchemaInv => ReadyFindsItsTables
  BY DEF SchemaInv, Supported, ReadyFindsItsTables
<1> QED
  BY <1>1, <1>2, SchemaStep, PTL DEF SchemaSpec

(***************************************************************************)
(* Market snapshots.  A row, and a price about to become one, was observed *)
(* at most StaleAfter before it was fetched and at most Skew after.        *)
(***************************************************************************)
Steps == {"idle", "orderbook", "save", "connect", "recv"}

RefreshStates ==
  [at : Steps, streams : BOOLEAN, observed : Nat, fetched : Nat, attempts : Nat, empty : Nat]

FetchedInTime(observed, fetched) ==
  observed <= fetched + Skew /\ fetched - observed <= StaleAfter

MarketInv ==
  /\ clock \in Nat
  /\ market_data_snapshots \subseteq [observed : Nat, fetched : Nat]
  /\ \A row \in market_data_snapshots : FetchedInTime(row.observed, row.fetched)
  /\ refresh \in [Clients -> RefreshStates]
  /\ \A c \in Clients :
       refresh[c].at = "save" => FetchedInTime(refresh[c].observed, refresh[c].fetched)

\* A price whose age is allowed was observed within the limit.
LEMMA AgeOfAnswer ==
  ASSUME NEW observed \in Nat, clock \in Nat, AgeAllowed(observed)
  PROVE  clock - observed <= StaleAfter
<1> DEFINE ages == {0, clock - observed}
<1>1. \E a \in ages : \A b \in ages : a >= b
  <2>1. CASE clock - observed >= 0
    BY <2>1
  <2>2. CASE ~(clock - observed >= 0)
    BY <2>2
  <2> QED
    BY <2>1, <2>2
<1>2. Max(ages) \in ages /\ \A b \in ages : Max(ages) >= b
  BY <1>1 DEF Max
<1> QED
  BY <1>2, MarketDataAssumption DEF AgeAllowed

\* The refresh of one client changes, to one that keeps what the invariant says.
LEMMA RefreshChanges ==
  ASSUME MarketInv, NEW c \in Clients, NEW r \in RefreshStates,
         refresh' = [refresh EXCEPT ![c] = r], UNCHANGED <<clock, market_data_snapshots>>,
         r.at = "save" => FetchedInTime(r.observed, r.fetched)
  PROVE  MarketInv'
<1>1. \A d \in Clients : refresh'[d] = IF d = c THEN r ELSE refresh[d]
  BY DEF MarketInv
<1> QED
  BY <1>1 DEF MarketInv

\* An answer that is taken was fresh when it was.
LEMMA AnswerTaken ==
  ASSUME MarketInv, NEW c \in Clients, TakeAnswer(c),
         UNCHANGED <<clock, market_data_snapshots>>
  PROVE  MarketInv'
<1>1. NotRefreshing \in RefreshStates /\ NotRefreshing.at = "idle"
  BY DEF NotRefreshing, RefreshStates, Steps
<1>2. PICK seen \in 0 .. (clock + Skew) :
        IF AgeAllowed(seen)
        THEN refresh' = [refresh EXCEPT ![c].at = "save", ![c].observed = seen,
                                        ![c].fetched = clock]
        ELSE Leave(c)
  BY DEF TakeAnswer
<1>3. CASE AgeAllowed(seen)
  <2> DEFINE r == [refresh[c] EXCEPT !.at = "save", !.observed = seen, !.fetched = clock]
  <2>1. clock \in Nat /\ Skew \in Nat /\ refresh[c] \in RefreshStates
    BY MarketDataAssumption DEF MarketInv
  <2>2. seen \in Nat /\ seen <= clock + Skew /\ clock - seen <= StaleAfter
    BY <1>2, <1>3, <2>1, AgeOfAnswer
  <2>3. r \in RefreshStates /\ r.observed = seen /\ r.fetched = clock
    BY <2>1, <2>2 DEF RefreshStates, Steps
  <2>4. refresh' = [refresh EXCEPT ![c] = r]
    BY <1>2, <1>3
  <2> HIDE DEF r
  <2> QED
    BY <2>2, <2>3, <2>4, RefreshChanges DEF FetchedInTime
<1>4. CASE ~AgeAllowed(seen)
  BY <1>1, <1>2, <1>4, RefreshChanges DEF Leave
<1> QED
  BY <1>3, <1>4

\* Every step keeps rows and answers within the age limit.
LEMMA MarketStep == MarketInv /\ [MarketNext]_marketVars => MarketInv'
<1> SUFFICES ASSUME MarketInv, [MarketNext]_marketVars  PROVE MarketInv'
  OBVIOUS
<1>1. NotRefreshing \in RefreshStates /\ NotRefreshing.at = "idle"
  BY DEF NotRefreshing, RefreshStates, Steps
<1>2. CASE UNCHANGED marketVars
  BY <1>2 DEF marketVars, MarketInv
<1>3. CASE TimePasses
  BY <1>3 DEF TimePasses, MarketInv
<1>4. ASSUME NEW c \in Clients, fetch_live_snapshot(c)
      PROVE  MarketInv'
  <2>1. PICK streaming \in BOOLEAN :
          refresh' = [refresh EXCEPT ![c] = [NotRefreshing EXCEPT !.at = "orderbook",
                                                                  !.streams = streaming]]
    BY <1>4 DEF fetch_live_snapshot
  <2> DEFINE r == [NotRefreshing EXCEPT !.at = "orderbook", !.streams = streaming]
  <2>2. r \in RefreshStates /\ r.at # "save"
    BY DEF NotRefreshing, RefreshStates, Steps
  <2> HIDE DEF r
  <2> QED
    BY <1>4, <2>1, <2>2, RefreshChanges DEF fetch_live_snapshot, r
<1>5. ASSUME NEW c \in Clients, Leave(c), UNCHANGED <<clock, market_data_snapshots>>
      PROVE  MarketInv'
  BY <1>1, <1>5, RefreshChanges DEF Leave
<1>6. ASSUME NEW c \in Clients, NEW step \in Steps \ {"save"}, NEW n \in Nat, NEW m \in Nat,
             refresh' = [refresh EXCEPT ![c].at = step, ![c].attempts = n, ![c].empty = m],
             UNCHANGED <<clock, market_data_snapshots>>
      PROVE  MarketInv'
  <2> DEFINE r == [refresh[c] EXCEPT !.at = step, !.attempts = n, !.empty = m]
  <2>1. r \in RefreshStates /\ r.at # "save"
    BY DEF MarketInv, RefreshStates
  <2>2. refresh' = [refresh EXCEPT ![c] = r]
    BY <1>6
  <2> HIDE DEF r
  <2> QED
    BY <1>6, <2>1, <2>2, RefreshChanges
<1>7. ASSUME NEW c \in Clients, Reconnect(c), UNCHANGED <<clock, market_data_snapshots>>
      PROVE  MarketInv'
  <2>1. refresh \in [Clients -> RefreshStates] /\ refresh[c].attempts + 1 \in Nat
        /\ refresh[c].empty \in Nat
    BY DEF MarketInv, RefreshStates
  <2>2. CASE refresh[c].attempts + 1 >= MaxAttempts
    BY <1>5, <1>7, <2>2 DEF Reconnect
  <2>3. CASE ~(refresh[c].attempts + 1 >= MaxAttempts)
    <3>1. refresh' = [refresh EXCEPT ![c].at = "connect",
                        ![c].attempts = refresh[c].attempts + 1, ![c].empty = refresh[c].empty]
      BY <1>7, <2>1, <2>3 DEF Reconnect, RefreshStates
    <3> QED
      BY <1>6, <1>7, <2>1, <3>1 DEF Steps
  <2> QED
    BY <2>2, <2>3
<1>8. ASSUME NEW c \in Clients, get_orderbook(c)
      PROVE  MarketInv'
  BY <1>5, <1>8, AnswerTaken DEF get_orderbook
<1>9. ASSUME NEW c \in Clients, persist_snapshot(c)
      PROVE  MarketInv'
  <2> DEFINE new == [observed |-> refresh[c].observed, fetched |-> refresh[c].fetched]
             next == [NotRefreshing EXCEPT !.at = "connect"]
  <2>1. /\ new \in [observed : Nat, fetched : Nat] /\ FetchedInTime(new.observed, new.fetched)
        /\ market_data_snapshots' = market_data_snapshots \cup {new} /\ clock' = clock
    BY <1>9 DEF persist_snapshot, MarketInv, RefreshStates
  <2>2. next \in RefreshStates /\ next.at # "save"
    BY DEF NotRefreshing, RefreshStates, Steps
  <2>3. \E r \in RefreshStates : r.at # "save" /\ refresh' = [refresh EXCEPT ![c] = r]
    BY <1>1, <1>9, <2>2 DEF persist_snapshot, Leave
  <2>4. PICK r \in RefreshStates : r.at # "save" /\ refresh' = [refresh EXCEPT ![c] = r]
    BY <2>3
  <2>5. \A d \in Clients : refresh'[d] = IF d = c THEN r ELSE refresh[d]
    BY <2>4 DEF MarketInv
  <2> HIDE DEF new, next
  <2> QED
    BY <2>1, <2>4, <2>5 DEF MarketInv
<1>10. ASSUME NEW c \in Clients, ConnectStream(c)
       PROVE  MarketInv'
  <2>1. CASE Goto(c, "recv")
    <3>1. refresh' = [refresh EXCEPT ![c].at = "recv", ![c].attempts = refresh[c].attempts,
                                     ![c].empty = refresh[c].empty]
      BY <2>1 DEF Goto, MarketInv, RefreshStates
    <3>2. refresh[c].attempts \in Nat /\ refresh[c].empty \in Nat
      BY DEF MarketInv, RefreshStates
    <3> QED
      BY <1>6, <1>10, <3>1, <3>2 DEF Steps, ConnectStream
  <2> QED
    BY <1>7, <1>10, <2>1 DEF ConnectStream
<1>11. ASSUME NEW c \in Clients, ReceiveFrame(c)
       PROVE  MarketInv'
  <2>1. CASE refresh' = [refresh EXCEPT ![c].empty = @ + 1]
    <3>1. refresh[c] \in RefreshStates /\ refresh[c].at = "recv"
      BY <1>11 DEF ReceiveFrame, MarketInv
    <3>2. refresh' = [refresh EXCEPT ![c].at = "recv", ![c].attempts = refresh[c].attempts,
                                     ![c].empty = refresh[c].empty + 1]
      BY <2>1, <3>1 DEF MarketInv, RefreshStates
    <3>3. refresh[c].attempts \in Nat /\ refresh[c].empty + 1 \in Nat
      BY <3>1 DEF RefreshStates
    <3> QED
      BY <1>6, <1>11, <3>2, <3>3 DEF Steps, ReceiveFrame
  <2> QED
    BY <1>5, <1>11, <2>1, AnswerTaken DEF ReceiveFrame
<1>12. ASSUME NEW c \in Clients, ReceiveTimesOut(c)
       PROVE  MarketInv'
  BY <1>7, <1>12 DEF ReceiveTimesOut
<1> QED
  BY <1>2, <1>3, <1>4, <1>8, <1>9, <1>10, <1>11, <1>12 DEF MarketNext, RefreshStep

\* Whatever order the answers of the exchange arrive in, a reader of the cache
\* is never given a price older than another row by more than the age limit and
\* the error of the exchange's clock.
THEOREM CacheRegressBounded == MarketSpec => []CacheRegressIsBounded
<1>1. MarketInit => MarketInv
  BY MarketDataAssumption
     DEF MarketInit, MarketInv, RefreshStates, NotRefreshing, Steps
<1>2. MarketInv => CacheRegressIsBounded
  <2> SUFFICES ASSUME MarketInv, NEW row \in latest_for_market,
                      NEW other \in market_data_snapshots
               PROVE  other.observed - row.observed <= StaleAfter + Skew
    BY DEF CacheRegressIsBounded
  <2>1. row \in market_data_snapshots /\ other.fetched <= row.fetched
    BY DEF latest_for_market
  <2>2. /\ row.observed \in Nat /\ row.fetched \in Nat
        /\ other.observed \in Nat /\ other.fetched \in Nat
        /\ FetchedInTime(row.observed, row.fetched)
        /\ FetchedInTime(other.observed, other.fetched)
    BY SMTT(60), <2>1 DEF MarketInv
  <2> QED
    BY <2>1, <2>2, MarketDataAssumption DEF FetchedInTime
<1> QED
  BY <1>1, <1>2, MarketStep, PTL DEF MarketSpec

(***************************************************************************)
(* The lockout.  What a restart forgot is at most the limit, once each.    *)
(***************************************************************************)
\* The wrong passwords that restarts may have forgotten.
Forgettable == MaxFailedAttempts * restarts

LockoutInv ==
  /\ restarts \in Nat
  /\ failed_attempts \in [Servers -> [LoginKeys -> 0 .. MaxFailedAttempts]]
  /\ forgotten \in [Servers -> [LoginKeys -> Nat]]
  /\ \A s \in Servers, key \in LoginKeys : forgotten[s][key] <= Forgettable

\* Every step keeps the failures below the limit, and the forgotten ones per restart.
LEMMA LockoutStep == LockoutInv /\ [WebNext]_webVars => LockoutInv'
<1> SUFFICES ASSUME LockoutInv, [WebNext]_webVars  PROVE LockoutInv'
  OBVIOUS
<1> USE WebAuthAssumption
<1>0. /\ Forgettable \in Nat
      /\ restarts' = restarts => Forgettable' = Forgettable
      /\ restarts' = restarts + 1 => Forgettable' = Forgettable + MaxFailedAttempts
  <2>1. \A a, b \in Nat : a * (b + 1) = a * b + a /\ a * b \in Nat
    OBVIOUS
  <2> QED
    BY <2>1 DEF Forgettable, LockoutInv
<1>1. CASE UNCHANGED <<restarts, failed_attempts, forgotten>>
  BY <1>0, <1>1 DEF LockoutInv
<1>2. ASSUME NEW s \in Servers, login(s)
      PROVE  LockoutInv'
  <2>1. PICK key \in LoginKeys :
          \/ is_locked_out(s, key) /\ UNCHANGED <<failed_attempts, forgotten>>
          \/ ~is_locked_out(s, key) /\ record_failure(s, key) /\ UNCHANGED forgotten
          \/ clear_failures(s, key)
    BY <1>2 DEF login
  <2>2. restarts' = restarts
    BY <1>2 DEF login
  <2>3. CASE is_locked_out(s, key) /\ UNCHANGED <<failed_attempts, forgotten>>
    BY <1>1, <2>2, <2>3
  <2>4. CASE ~is_locked_out(s, key) /\ record_failure(s, key) /\ UNCHANGED forgotten
    <3>1. failed_attempts[s][key] + 1 \in 0 .. MaxFailedAttempts
      BY <2>4 DEF LockoutInv, is_locked_out
    <3> QED
      BY <1>0, <2>2, <2>4, <3>1 DEF LockoutInv, record_failure
  <2>5. CASE clear_failures(s, key)
    BY <1>0, <2>2, <2>5 DEF LockoutInv, clear_failures
  <2> QED
    BY <2>1, <2>3, <2>4, <2>5
<1>3. ASSUME NEW s \in Servers, NEW key \in LoginKeys, WindowMoves(s, key)
      PROVE  LockoutInv'
  BY <1>0, <1>3 DEF WindowMoves, LockoutInv
<1>4. ASSUME NEW s \in Servers, LoseRequest(s)
      PROVE  LockoutInv'
  <2>1. restarts' = restarts + 1 /\ restarts' \in Nat
    <3>1. restarts' = restarts + 1
      BY <1>4 DEF LoseRequest
    <3> QED
      BY <3>1 DEF LockoutInv
  <2> DEFINE lost == [key \in LoginKeys |-> forgotten[s][key] + failed_attempts[s][key]]
  <2>2. /\ failed_attempts' = [failed_attempts EXCEPT ![s] = NoFailures]
        /\ forgotten' = [forgotten EXCEPT ![s] = lost]
    BY <1>4 DEF LoseRequest, LockoutInv
  <2>3. /\ NoFailures \in [LoginKeys -> 0 .. MaxFailedAttempts] /\ lost \in [LoginKeys -> Nat]
        /\ \A key \in LoginKeys : lost[key] <= Forgettable + MaxFailedAttempts
    BY <1>0 DEF NoFailures, LockoutInv
  <2> HIDE DEF lost
  <2>4. forgotten' \in [Servers -> [LoginKeys -> Nat]]
    BY <2>2, <2>3 DEF LockoutInv
  <2>5. \A d \in Servers, key \in LoginKeys : forgotten'[d][key] <= Forgettable + MaxFailedAttempts
    BY <1>0, <2>2, <2>3 DEF LockoutInv
  <2>6. failed_attempts' \in [Servers -> [LoginKeys -> 0 .. MaxFailedAttempts]]
    BY <2>2, <2>3 DEF LockoutInv
  <2> QED
    BY <1>0, <2>1, <2>4, <2>5, <2>6 DEF LockoutInv
<1> QED
  BY ZenonT(60), <1>1, <1>2, <1>3, <1>4
     DEF WebNext, webVars, set_password, historyUnchanged, ExpireSession, SendRequest,
         authenticate_request, HandleRoute, Commit, Respond

\* Wrong passwords for one username from one address that a server lets through
\* within the window are bounded by the limit, and by the limit again for each
\* restart that forgot the failures.
THEOREM GuessesAreBounded == WebSpec => []GuessesBounded
<1> USE WebAuthAssumption
<1>1. WebInit => LockoutInv
  <2>1. MaxFailedAttempts * 0 = 0
    OBVIOUS
  <2> QED
    BY <2>1 DEF WebInit, LockoutInv, Forgettable, NoFailures
<1>2. LockoutInv => GuessesBounded
  <2>1. \A a, b \in Nat : a * (1 + b) = a * b + a /\ a * b \in Nat
    OBVIOUS
  <2> SUFFICES ASSUME LockoutInv, NEW s \in Servers, NEW key \in LoginKeys
               PROVE  failed_attempts[s][key] + forgotten[s][key]
                        <= MaxFailedAttempts * (1 + restarts)
    BY DEF GuessesBounded
  <2>2. /\ Forgettable \in Nat
        /\ MaxFailedAttempts * (1 + restarts) = Forgettable + MaxFailedAttempts
    BY <2>1 DEF LockoutInv, Forgettable
  <2>3. /\ failed_attempts[s][key] \in 0 .. MaxFailedAttempts
        /\ forgotten[s][key] \in Nat /\ forgotten[s][key] <= Forgettable
    BY DEF LockoutInv
  <2> QED
    BY <2>2, <2>3
<1>3. LockoutInv /\ [WebNext]_webVars => LockoutInv'
  BY LockoutStep
<1> QED
  BY <1>1, <1>2, <1>3, PTL DEF WebSpec

(***************************************************************************)
(* Revoke-all.  While one is under way the numbers of those that began and *)
(* ended differ, so a row made meanwhile says that it overlapped.          *)
(***************************************************************************)
LastHalf == <<<<"all_tokens", 0>>>>

PlainCommits == {"revoke_session", "revoke_token", "new_session", "new_token"} \X Nat

Requests ==
  [at : {"idle", "authenticate", "handle", "password", "respond"}, from : Browsers \cup {"none"},
   kind : Kinds, session : Nat, remember : Nat, csrf : Nat, as : Nat,
   todo : {RevokeAllCommits, LastHalf} \cup Seq(PlainCommits),
   cookies : [session : Nat \cup {-1}, remember : Nat \cup {-1}], rotated : BOOLEAN, began : Nat]

BrowserStates == [session : Nat, remember : Nat, form : Nat, excuse : BOOLEAN]

Row == [state : {"live", "dead"}, era : Nat \cup {-1}]

WebTypes ==
  /\ web_sessions \in Seq(Row) /\ web_remember_tokens \in Seq(Row)
  /\ browser \in [Browsers -> BrowserStates]
  /\ request \in [Servers -> Requests]
  /\ revocations \in [began : Nat, ended : Nat]

Revoking == {s \in Servers : request[s].todo \in {RevokeAllCommits, LastHalf}}

\* The rows that are live were made while a revoke-all was under way.
Overlapped(rows) == \A i \in DOMAIN rows : rows[i] = Dead \/ rows[i].era = -1

RevokeInv ==
  /\ revocations.ended + Cardinality(Revoking) <= revocations.began
  /\ \A s \in Servers : request[s].todo = LastHalf => Overlapped(web_sessions)
  /\ SurvivorsOverlapped

\* Sequences of at most three items.
LEMMA ShortSequences ==
  ASSUME NEW S, NEW x, NEW y, NEW z
  PROVE  /\ <<>> \in Seq(S)
         /\ x \in S => <<x>> \in Seq(S)
         /\ x \in S /\ y \in S => <<x, y>> \in Seq(S)
         /\ x \in S /\ y \in S /\ z \in S => <<x, y, z>> \in Seq(S)
         /\ <<x>> \in Seq(S) => x \in S
         /\ <<x, y>> \in Seq(S) => x \in S
         /\ <<x>> # <<>> /\ <<x, y>> # <<>> /\ \A u : <<x, y>> # <<u>>
         /\ Head(<<x>>) = x /\ Tail(<<x>>) = <<>>
         /\ Head(<<x, y>>) = x /\ Tail(<<x, y>>) = <<y>>
<1>1. /\ Len(<<x>>) = 1 /\ Len(<<x, y>>) = 2 /\ \A u : Len(<<u>>) = 1
      /\ Len(<<>>) = 0
  OBVIOUS
<1>2. <<>> \in Seq(S) /\ (x \in S => <<x>> \in Seq(S))
  OBVIOUS
<1>3. x \in S /\ y \in S => <<x, y>> \in Seq(S)
  OBVIOUS
<1>4. x \in S /\ y \in S /\ z \in S => <<x, y, z>> \in Seq(S)
  OBVIOUS
<1>5. <<x>> \in Seq(S) => x \in S
  <2>1. <<x>>[1] = x
    OBVIOUS
  <2> QED
    BY <1>1, <2>1
<1>6. <<x, y>> \in Seq(S) => x \in S
  <2>1. <<x, y>>[1] = x
    OBVIOUS
  <2> QED
    BY <1>1, <2>1
<1>7. Head(<<x>>) = x /\ Tail(<<x>>) = <<>> /\ Head(<<x, y>>) = x /\ Tail(<<x, y>>) = <<y>>
  OBVIOUS
<1>8. <<x>> # <<>> /\ <<x, y>> # <<>> /\ \A u : <<x, y>> # <<u>>
  BY <1>1
<1> QED
  BY <1>2, <1>3, <1>4, <1>5, <1>6, <1>7, <1>8

\* A request that sets out to revoke all is told from every other one.
LEMMA NeverPlain ==
  /\ RevokeAllCommits \notin Seq(PlainCommits) /\ LastHalf \notin Seq(PlainCommits)
  /\ RevokeAllCommits # LastHalf /\ <<>> \in Seq(PlainCommits)
  /\ Head(RevokeAllCommits)[1] = "all_sessions" /\ Head(LastHalf)[1] = "all_tokens"
  /\ RevokeAllCommits # <<>> /\ LastHalf # <<>>
  /\ Tail(RevokeAllCommits) = LastHalf /\ Tail(LastHalf) = <<>>
  /\ \A u : RevokeAllCommits # <<u>>
<1> DEFINE one == <<"all_sessions", 0>>
           two == <<"all_tokens", 0>>
<1>1. RevokeAllCommits = <<one, two>> /\ LastHalf = <<two>>
  BY DEF RevokeAllCommits, LastHalf
<1>2. one[1] = "all_sessions" /\ two[1] = "all_tokens"
  OBVIOUS
<1>3. one \notin PlainCommits /\ two \notin PlainCommits
  BY DEF PlainCommits
<1> HIDE DEF one, two
<1> QED
  BY <1>1, <1>2, <1>3, ShortSequences

\* The other commits there are.
LEMMA PlainSequences ==
  ASSUME NEW i \in Nat, NEW j \in Nat
  PROVE  /\ <<<<"revoke_session", i>>, <<"revoke_token", j>>>> \in Seq(PlainCommits)
         /\ <<<<"revoke_token", j>>>> \in Seq(PlainCommits)
         /\ <<<<"new_session", 0>>>> \in Seq(PlainCommits)
         /\ <<<<"new_session", 0>>, <<"new_token", 0>>>> \in Seq(PlainCommits)
         /\ <<<<"revoke_token", j>>, <<"new_session", 0>>, <<"new_token", 0>>>> \in Seq(PlainCommits)
<1> DEFINE a == <<"revoke_session", i>>
           b == <<"revoke_token", j>>
           c == <<"new_session", 0>>
           d == <<"new_token", 0>>
<1>1. a \in PlainCommits /\ b \in PlainCommits /\ c \in PlainCommits /\ d \in PlainCommits
  BY DEF PlainCommits
<1> HIDE DEF a, b, c, d
<1>2. /\ <<a, b>> \in Seq(PlainCommits) /\ <<b>> \in Seq(PlainCommits)
      /\ <<c>> \in Seq(PlainCommits) /\ <<c, d>> \in Seq(PlainCommits)
      /\ <<b, c, d>> \in Seq(PlainCommits)
  BY <1>1, ShortSequences
<1> QED
  BY <1>2 DEF a, b, c, d

\* The types hold at the start.
LEMMA WebTypesInit == WebInit => WebTypes
<1> SUFFICES ASSUME WebInit  PROVE WebTypes
  OBVIOUS
<1>1. NoRequest \in Requests
  BY NeverPlain DEF NoRequest, Requests, Kinds
<1> QED
  BY <1>1 DEF WebInit, WebTypes, BrowserStates

\* The answer of a route, and whether it began to revoke all.
LEMMA HandleShape ==
  ASSUME WebTypes, NEW s \in Servers, HandleRoute(s)
  PROVE  /\ WebTypes' /\ UNCHANGED <<web_sessions, web_remember_tokens>>
         /\ \E r \in Requests :
              /\ request' = [request EXCEPT ![s] = r]
              /\ r.todo \in {RevokeAllCommits} \cup Seq(PlainCommits)
              /\ revocations' = IF r.todo = RevokeAllCommits
                                THEN [revocations EXCEPT !.began = @ + 1] ELSE revocations
<1>0. /\ NoRequest \in Requests
      /\ \A d \in Servers : request[d] \in Requests
      /\ \A b \in Browsers : browser[b] \in BrowserStates
  BY SMTT(60), NeverPlain DEF NoRequest, Requests, Kinds, WebTypes
<1> DEFINE old == request[s]
<1>1. PICK post \in BOOLEAN :
         LET accepted == old.kind \notin {"page", "login"} /\ post /\ old.csrf = old.as
             commits == IF ~accepted THEN <<>>
                        ELSE CASE old.kind = "logout" -> logout(old)
                               [] old.kind = "revoke_remember" -> revoke_current_remember_token(old)
                               [] old.kind = "revoke_all" -> RevokeAllCommits
         IN  /\ request' = [request EXCEPT ![s] =
                  [NoRequest EXCEPT
                     !.at = "respond", !.from = old.from, !.rotated = old.rotated,
                     !.todo = commits, !.as = IF old.kind = "page" THEN old.as ELSE 0,
                     !.cookies =
                       IF ~CookiesKept(old.kind, accepted) THEN @
                       ELSE [session |-> IF accepted /\ old.kind # "revoke_remember" THEN 0
                                         ELSE old.cookies.session,
                             remember |-> IF accepted THEN 0 ELSE old.cookies.remember]]]
             /\ browser' = [b \in Browsers |-> [browser[b] EXCEPT
                  !.excuse = \/ @
                             \/ accepted /\ old.kind = "revoke_all"
                             \/ /\ b = old.from /\ old.kind \notin {"page", "login"}
                                /\ accepted \/ old.rotated]]
             /\ revocations' = IF commits = RevokeAllCommits
                               THEN [revocations EXCEPT !.began = @ + 1] ELSE revocations
  BY DEF HandleRoute
<1> DEFINE accepted == old.kind \notin {"page", "login"} /\ post /\ old.csrf = old.as
           commits == IF ~accepted THEN <<>>
                        ELSE CASE old.kind = "logout" -> logout(old)
                               [] old.kind = "revoke_remember" -> revoke_current_remember_token(old)
                               [] old.kind = "revoke_all" -> RevokeAllCommits
           kept == IF ~CookiesKept(old.kind, accepted) THEN NoRequest.cookies
                   ELSE [session |-> IF accepted /\ old.kind # "revoke_remember" THEN 0
                                     ELSE old.cookies.session,
                         remember |-> IF accepted THEN 0 ELSE old.cookies.remember]
           answer == [NoRequest EXCEPT
                     !.at = "respond", !.from = old.from, !.rotated = old.rotated,
                     !.todo = commits, !.as = IF old.kind = "page" THEN old.as ELSE 0,
                     !.cookies = kept]
           blamed(b) == \/ browser[b].excuse
                        \/ accepted /\ old.kind = "revoke_all"
                        \/ /\ b = old.from /\ old.kind \notin {"page", "login"}
                           /\ accepted \/ old.rotated
<1>2. old \in Requests
  BY <1>0
<1>3. commits \in {RevokeAllCommits} \cup Seq(PlainCommits)
  <2>1. logout(old) \in Seq(PlainCommits) /\ revoke_current_remember_token(old) \in Seq(PlainCommits)
    <3>1. old.session \in Nat /\ old.remember \in Nat
      BY <1>2 DEF Requests
    <3> QED
      BY <3>1, PlainSequences DEF logout, revoke_current_remember_token
  <2>2. accepted => old.kind \in {"logout", "revoke_remember", "revoke_all"}
    BY <1>2 DEF Requests, Kinds
  <2> HIDE DEF accepted
  <2> QED
    BY <2>1, <2>2, NeverPlain
<1>4. kept \in [session : Nat \cup {-1}, remember : Nat \cup {-1}]
  BY <1>2 DEF Requests, NoRequest
<1>5. request' = [request EXCEPT ![s] = answer]
  BY <1>1 DEF NoRequest
<1>6. /\ browser' = [b \in Browsers |-> [browser[b] EXCEPT !.excuse = blamed(b)]]
      /\ revocations' \in {revocations, [revocations EXCEPT !.began = @ + 1]}
  BY <1>1
<1> HIDE DEF commits, accepted, kept, blamed
<1>7. answer \in Requests
  <2>1. /\ old.from \in Browsers \cup {"none"} /\ old.rotated \in BOOLEAN
        /\ (IF old.kind = "page" THEN old.as ELSE 0) \in Nat
    BY <1>2 DEF Requests, Kinds
  <2>2. ASSUME NEW r \in Requests, NEW f \in Browsers \cup {"none"}, NEW b \in BOOLEAN,
               NEW c \in {RevokeAllCommits} \cup Seq(PlainCommits), NEW n \in Nat,
               NEW cookies \in [session : Nat \cup {-1}, remember : Nat \cup {-1}]
        PROVE  [r EXCEPT !.at = "respond", !.from = f, !.rotated = b, !.todo = c, !.as = n,
                         !.cookies = cookies] \in Requests
    BY ZenonT(60) DEF Requests
  <2> DEFINE who == IF old.kind = "page" THEN old.as ELSE 0
             sender == old.from
             turned == old.rotated
  <2>3. /\ sender \in Browsers \cup {"none"} /\ turned \in BOOLEAN /\ who \in Nat
    BY <2>1
  <2> HIDE DEF who, sender, turned
  <2>4. [NoRequest EXCEPT !.at = "respond", !.from = sender, !.rotated = turned, !.todo = commits,
                          !.as = who, !.cookies = kept] \in Requests
    BY <1>0, <1>3, <1>4, <2>2, <2>3
  <2> QED
    BY <2>4 DEF who, sender, turned
<1>8. browser' \in [Browsers -> BrowserStates]
  <2>1. \A b \in Browsers : [browser[b] EXCEPT !.excuse = blamed(b)] \in BrowserStates
    BY ZenonT(60), <1>0, <1>2 DEF BrowserStates, Requests, blamed, accepted
  <2> QED
    BY <1>6, <2>1
<1>9. revocations' \in [began : Nat, ended : Nat]
  BY <1>6 DEF WebTypes
<1>10. revocations' = IF answer.todo = RevokeAllCommits
                      THEN [revocations EXCEPT !.began = @ + 1] ELSE revocations
  BY <1>1, NeverPlain DEF NoRequest, answer, commits, accepted
<1>11. answer.todo \in {RevokeAllCommits} \cup Seq(PlainCommits)
  BY <1>3 DEF NoRequest, answer
<1> HIDE DEF answer
<1>12. UNCHANGED <<web_sessions, web_remember_tokens>>
  BY DEF HandleRoute, rowsUnchanged
<1>13. WebTypes'
  BY <1>5, <1>7, <1>8, <1>9, <1>12 DEF WebTypes
<1> QED
  BY <1>5, <1>7, <1>10, <1>11, <1>12, <1>13

\* Rows that are only revoked.
Fewer(new, old) ==
  DOMAIN new = DOMAIN old /\ \A i \in DOMAIN old : new[i] \in {old[i], Dead}

\* Revoking keeps the rows, some of them dead.
LEMMA RevokedRows ==
  ASSUME NEW rows \in Seq(Row), NEW i
  PROVE  /\ Revoked(rows, i) \in Seq(Row) /\ Fewer(Revoked(rows, i), rows)
         /\ AllRevoked(rows) \in Seq(Row) /\ Fewer(AllRevoked(rows), rows)
         /\ Fewer(rows, rows) /\ \A j \in DOMAIN AllRevoked(rows) : AllRevoked(rows)[j] = Dead
<1>1. Dead \in Row
  BY DEF Dead, Row
<1>2. DOMAIN rows = 1 .. Len(rows) /\ Len(rows) \in Nat /\ \A j \in DOMAIN rows : rows[j] \in Row
  OBVIOUS
<1>3. ASSUME NEW new, new \in [1 .. Len(rows) -> Row]
      PROVE  new \in Seq(Row)
  BY <1>2, <1>3
<1>4. [j \in DOMAIN rows |-> Dead] \in [1 .. Len(rows) -> Row]
  BY <1>1, <1>2
<1>5. [rows EXCEPT ![i] = Dead] \in [1 .. Len(rows) -> Row]
  BY <1>1, <1>2
<1>6. Fewer([rows EXCEPT ![i] = Dead], rows) /\ Fewer(rows, rows)
  BY DEF Fewer
<1>7. Fewer([j \in DOMAIN rows |-> Dead], rows)
  BY DEF Fewer
<1> QED
  BY <1>3, <1>4, <1>5, <1>6, <1>7 DEF Revoked, AllRevoked

\* What the next commit of a request does, by what it still has to do.
LEMMA CommitShape ==
  ASSUME WebTypes, NEW s \in Servers, Commit(s)
  PROVE  /\ WebTypes'
         /\ \E r \in Requests : request' = [request EXCEPT ![s] = r] /\ r.todo = Tail(request[s].todo)
         /\ \/ /\ request[s].todo \in Seq(PlainCommits) /\ request[s].todo # <<>>
               /\ Tail(request[s].todo) \in Seq(PlainCommits) /\ revocations' = revocations
               /\ \/ Fewer(web_sessions', web_sessions)
                  \/ web_sessions' = Append(web_sessions, NewRow(s))
               /\ \/ Fewer(web_remember_tokens', web_remember_tokens)
                  \/ web_remember_tokens' = Append(web_remember_tokens, NewRow(s))
            \/ /\ request[s].todo = RevokeAllCommits /\ revocations' = revocations
               /\ web_sessions' = AllRevoked(web_sessions)
               /\ web_remember_tokens' = web_remember_tokens
            \/ /\ request[s].todo = LastHalf
               /\ revocations' = [revocations EXCEPT !.ended = @ + 1]
               /\ web_remember_tokens' = AllRevoked(web_remember_tokens)
               /\ web_sessions' = web_sessions
<1> DEFINE old == request[s]
           step == Head(old.todo)[1]
           row == Head(old.todo)[2]
           done == [old EXCEPT !.todo = Tail(@)]
<1>1. /\ old \in Requests /\ old.todo # <<>>
      /\ old.todo \in {RevokeAllCommits, LastHalf} \cup Seq(PlainCommits)
      /\ web_sessions \in Seq(Row) /\ web_remember_tokens \in Seq(Row)
      /\ revocations \in [began : Nat, ended : Nat]
  BY DEF Commit, WebTypes, Requests
<1>2. /\ web_sessions' = CASE step = "new_session" -> save_session(s)
                            [] step = "revoke_session" -> Revoked(web_sessions, row)
                            [] step = "all_sessions" -> AllRevoked(web_sessions)
                            [] OTHER -> web_sessions
      /\ web_remember_tokens' = CASE step = "new_token" -> save_remember_token(s)
                                   [] step = "revoke_token" -> Revoked(web_remember_tokens, row)
                                   [] step = "all_tokens" -> AllRevoked(web_remember_tokens)
                                   [] OTHER -> web_remember_tokens
      /\ request' = [request EXCEPT ![s] =
           CASE step = "new_session" -> [done EXCEPT !.cookies.session = Len(web_sessions) + 1,
                                                     !.as = Len(web_sessions) + 1]
             [] step = "new_token" -> [done EXCEPT !.cookies.remember = Len(web_remember_tokens) + 1]
             [] OTHER -> done]
      /\ revocations' = IF old.todo = LastHalf \/ RevokeAllCommits = <<Head(old.todo)>>
                        THEN [revocations EXCEPT !.ended = @ + 1] ELSE revocations
      /\ browser' = browser
  BY DEF Commit, LastHalf
<1>3. /\ Tail(old.todo) \in {RevokeAllCommits, LastHalf} \cup Seq(PlainCommits)
      /\ old.todo \in Seq(PlainCommits) =>
           /\ Tail(old.todo) \in Seq(PlainCommits)
           /\ step \in {"revoke_session", "revoke_token", "new_session", "new_token"}
      /\ old.todo = RevokeAllCommits => step = "all_sessions"
      /\ old.todo = LastHalf => step = "all_tokens"
  <2>1. CASE old.todo \in Seq(PlainCommits)
    <3>1. Head(old.todo) \in PlainCommits /\ Tail(old.todo) \in Seq(PlainCommits)
      BY <1>1, <2>1
    <3> QED
      BY <2>1, <3>1, NeverPlain DEF PlainCommits
  <2>2. CASE old.todo = RevokeAllCommits
    BY <2>2, NeverPlain
  <2>3. CASE old.todo = LastHalf
    BY <2>3, NeverPlain
  <2> QED
    BY <1>1, <2>1, <2>2, <2>3
<1>4. done \in Requests /\ done.todo = Tail(old.todo)
  BY <1>1, <1>3 DEF Requests
<1>5. NewRow(s) \in Row
  BY <1>1 DEF NewRow, Row
<1> HIDE DEF done, old, step, row
<1>6. PICK r : /\ request' = [request EXCEPT ![s] = r]
               /\ r \in {done, [done EXCEPT !.cookies.session = Len(web_sessions) + 1,
                                            !.as = Len(web_sessions) + 1],
                         [done EXCEPT !.cookies.remember = Len(web_remember_tokens) + 1]}
  BY <1>2
<1>7. r \in Requests /\ r.todo = Tail(old.todo)
  <2>1. Len(web_sessions) + 1 \in Nat /\ Len(web_remember_tokens) + 1 \in Nat
    BY <1>1
  <2> QED
    <3>1. CASE r = done
      BY <1>4, <3>1
    <3>2. CASE r = [done EXCEPT !.cookies.session = Len(web_sessions) + 1,
                                !.as = Len(web_sessions) + 1]
      BY <1>4, <2>1, <3>2 DEF Requests
    <3>3. CASE r = [done EXCEPT !.cookies.remember = Len(web_remember_tokens) + 1]
      BY <1>4, <2>1, <3>3 DEF Requests
    <3> QED
      BY <1>6, <3>1, <3>2, <3>3
<1>8. /\ web_sessions' \in Seq(Row) /\ web_remember_tokens' \in Seq(Row)
      /\ revocations' \in [began : Nat, ended : Nat]
  <2>1. save_session(s) \in Seq(Row) /\ save_remember_token(s) \in Seq(Row)
    BY <1>1, <1>5 DEF save_session, save_remember_token
  <2> QED
    <3>1. web_sessions' \in Seq(Row)
      BY <1>1, <1>2, <2>1, RevokedRows
    <3>2. web_remember_tokens' \in Seq(Row)
      BY <1>1, <1>2, <2>1, RevokedRows
    <3>3. [revocations EXCEPT !.ended = @ + 1] \in [began : Nat, ended : Nat]
      BY <1>1
    <3> QED
      BY <1>1, <1>2, <3>1, <3>2, <3>3
<1>9. WebTypes'
  BY ZenonT(60), <1>2, <1>6, <1>7, <1>8 DEF WebTypes
<1>10. CASE old.todo \in Seq(PlainCommits)
  <2>1. old.todo # LastHalf /\ revocations' = revocations
    BY <1>2, <1>10, NeverPlain
  <2>2. Fewer(web_sessions', web_sessions) \/ web_sessions' = Append(web_sessions, NewRow(s))
    BY <1>1, <1>2, <1>3, <1>10, RevokedRows DEF save_session
  <2>3. \/ Fewer(web_remember_tokens', web_remember_tokens)
        \/ web_remember_tokens' = Append(web_remember_tokens, NewRow(s))
    BY <1>1, <1>2, <1>3, <1>10, RevokedRows DEF save_remember_token
  <2> QED
    BY <1>1, <1>3, <1>6, <1>7, <1>9, <1>10, <2>1, <2>2, <2>3 DEF old
<1>11. CASE old.todo = RevokeAllCommits
  <2>1. revocations' = revocations
    BY <1>2, <1>11, NeverPlain
  <2> QED
    BY <1>2, <1>3, <1>6, <1>7, <1>9, <1>11, <2>1 DEF old
<1>12. CASE old.todo = LastHalf
  BY <1>2, <1>3, <1>6, <1>7, <1>9, <1>12 DEF old
<1> QED
  BY <1>1, <1>10, <1>11, <1>12

\* Every step keeps the types.
LEMMA WebTypesStep == WebTypes /\ [WebNext]_webVars => WebTypes'
<1> SUFFICES ASSUME WebTypes, [WebNext]_webVars  PROVE WebTypes'
  OBVIOUS
<1>0. /\ NoRequest \in Requests /\ Dead \in Row
      /\ \A s \in Servers : request[s] \in Requests
      /\ \A b \in Browsers : browser[b] \in BrowserStates
  BY NeverPlain DEF NoRequest, Requests, Kinds, WebTypes, Dead, Row
<1>1. CASE UNCHANGED <<web_sessions, web_remember_tokens, browser, request, revocations>>
  BY <1>1 DEF WebTypes
<1>2. ASSUME NEW i \in DOMAIN web_sessions, ExpireSession(i)
      PROVE  WebTypes'
  <2>1. web_sessions' \in Seq(Row)
    BY <1>0, <1>2 DEF ExpireSession, WebTypes
  <2> QED
    BY <1>2, <2>1 DEF ExpireSession, historyUnchanged, WebTypes
\* A step that only moves a request on.
<1>3. ASSUME NEW s \in Servers, NEW r \in Requests, request' = [request EXCEPT ![s] = r],
             UNCHANGED <<web_sessions, web_remember_tokens, browser, revocations>>
      PROVE  WebTypes'
  BY <1>3 DEF WebTypes
<1>4. ASSUME NEW s \in Servers, NEW b \in Browsers, SendRequest(b, s)
      PROVE  WebTypes'
  <2>1. PICK sort \in Kinds :
       request' = [request EXCEPT ![s] = [NoRequest EXCEPT
         !.at = "authenticate", !.from = b, !.kind = sort, !.session = browser[b].session,
         !.remember = browser[b].remember, !.csrf = browser[b].form,
         !.began = revocations.ended]]
    BY <1>4 DEF SendRequest
  <2> DEFINE r == [NoRequest EXCEPT
         !.at = "authenticate", !.from = b, !.kind = sort, !.session = browser[b].session,
         !.remember = browser[b].remember, !.csrf = browser[b].form,
         !.began = revocations.ended]
  <2>2. r \in Requests
    BY ZenonT(60), <1>0, NeverPlain DEF NoRequest, Requests, BrowserStates, WebTypes
  <2> HIDE DEF r
  <2> QED
    BY <1>3, <1>4, <2>1, <2>2 DEF SendRequest, rowsUnchanged, r
<1>5. ASSUME NEW s \in Servers, authenticate_request(s)
      PROVE  WebTypes'
  <2> DEFINE old == request[s]
             redirect == [NoRequest EXCEPT !.at = "respond", !.from = old.from]
             known == [old EXCEPT !.at = "handle", !.as = old.session]
             rotation == <<<<"revoke_token", old.remember>>, <<"new_session", 0>>, <<"new_token", 0>>>>
             rotating == [old EXCEPT !.at = "handle", !.rotated = TRUE, !.todo = rotation]
             asked == [redirect EXCEPT !.at = "password", !.began = old.began]
  <2>1. redirect \in Requests /\ asked \in Requests
    BY ZenonT(60), <1>0, NeverPlain DEF NoRequest, Requests, Kinds
  <2>2. known \in Requests
    BY ZenonT(60), <1>0 DEF Requests
  <2>3. rotation \in Seq(PlainCommits)
    <3>1. old.remember \in Nat
      BY <1>0 DEF Requests
    <3> HIDE DEF old
    <3> QED
      BY <3>1, PlainSequences
  <2>4. rotating \in Requests
    BY ZenonT(60), <1>0, <2>3 DEF Requests
  <2>5. \E r \in {redirect, known, rotating, asked} : request' = [request EXCEPT ![s] = r]
    BY <1>5 DEF authenticate_request
  <2> HIDE DEF redirect, known, rotating, asked
  <2> QED
    BY <1>3, <1>5, <2>1, <2>2, <2>4, <2>5
       DEF authenticate_request, rowsUnchanged, historyUnchanged
<1>6. ASSUME NEW s \in Servers, login(s)
      PROVE  WebTypes'
  <2> DEFINE answer == [request[s] EXCEPT !.at = "respond"]
             one == <<<<"new_session", 0>>>>
             two == <<<<"new_session", 0>>, <<"new_token", 0>>>>
             let_in(commits) == [request[s] EXCEPT !.at = "respond", !.todo = commits]
  <2>1. one \in Seq(PlainCommits) /\ two \in Seq(PlainCommits)
    BY PlainSequences
  <2>2. answer \in Requests /\ let_in(one) \in Requests /\ let_in(two) \in Requests
    BY ZenonT(60), <1>0, <2>1 DEF Requests
  <2>3. \E r \in {answer, let_in(one), let_in(two)} : request' = [request EXCEPT ![s] = r]
    BY <1>6 DEF login
  <2> HIDE DEF answer, let_in, one, two
  <2> QED
    <3>1. PICK r \in Requests : request' = [request EXCEPT ![s] = r]
      BY <2>2, <2>3
    <3>2. UNCHANGED <<web_sessions, web_remember_tokens, browser, revocations>>
      BY <1>6 DEF login, rowsUnchanged
    <3> QED
      BY <1>3, <3>1, <3>2
<1>7. ASSUME NEW s \in Servers, NEW key \in LoginKeys, WindowMoves(s, key)
      PROVE  WebTypes'
  BY <1>1, <1>7 DEF WindowMoves, rowsUnchanged
\* A step that ends a request.
<1>8. ASSUME NEW s \in Servers, request' = [request EXCEPT ![s] = NoRequest],
             browser' \in [Browsers -> BrowserStates],
             UNCHANGED <<web_sessions, web_remember_tokens, revocations>>
      PROVE  WebTypes'
  BY <1>0, <1>8 DEF WebTypes
<1>9. ASSUME NEW s \in Servers, Respond(s)
      PROVE  WebTypes'
  <2>1. request[s] \in Requests
    BY <1>0
  <2>2. \A b \in Browsers :
          /\ Cookie(browser[b].session, request[s].cookies.session) \in Nat
          /\ Cookie(browser[b].remember, request[s].cookies.remember) \in Nat
    BY <1>0, <2>1 DEF Cookie, Requests, BrowserStates
  <2>3. \A b \in Browsers :
          [browser[b] EXCEPT
             !.session = IF b = request[s].from THEN Cookie(@, request[s].cookies.session) ELSE @,
             !.remember = IF b = request[s].from THEN Cookie(@, request[s].cookies.remember) ELSE @,
             !.form = IF b = request[s].from /\ request[s].as # 0 THEN request[s].as ELSE @] \in BrowserStates
    <3> SUFFICES ASSUME NEW b \in Browsers
                 PROVE  [browser[b] EXCEPT
             !.session = IF b = request[s].from THEN Cookie(@, request[s].cookies.session) ELSE @,
             !.remember = IF b = request[s].from THEN Cookie(@, request[s].cookies.remember) ELSE @,
             !.form = IF b = request[s].from /\ request[s].as # 0 THEN request[s].as ELSE @] \in BrowserStates
      OBVIOUS
    <3> DEFINE kept == IF b = request[s].from
                       THEN Cookie(browser[b].session, request[s].cookies.session)
                       ELSE browser[b].session
               remembered == IF b = request[s].from
                             THEN Cookie(browser[b].remember, request[s].cookies.remember)
                             ELSE browser[b].remember
               shown == IF b = request[s].from /\ request[s].as # 0 THEN request[s].as
                        ELSE browser[b].form
    <3>1. kept \in Nat /\ remembered \in Nat /\ shown \in Nat
      BY <1>0, <2>1, <2>2 DEF Requests, BrowserStates
    <3>2. browser[b] \in BrowserStates
      BY <1>0
    <3>3. [browser[b] EXCEPT !.session = kept, !.remember = remembered, !.form = shown] \in BrowserStates
      <4> HIDE DEF kept, remembered, shown
      <4> QED
        BY <3>1, <3>2 DEF BrowserStates
    <3> QED
      BY <3>3
  <2>4. browser' \in [Browsers -> BrowserStates]
    BY <1>9, <2>3 DEF Respond
  <2> QED
    BY <1>8, <1>9, <2>4 DEF Respond, rowsUnchanged, historyUnchanged
<1>10. ASSUME NEW s \in Servers, LoseRequest(s)
       PROVE  WebTypes'
  <2>1. \A b \in Browsers :
          [browser[b] EXCEPT !.excuse = @ \/ (b = request[s].from /\ request[s].rotated)] \in BrowserStates
    BY ZenonT(60), <1>0 DEF Requests, BrowserStates
  <2>2. browser' \in [Browsers -> BrowserStates]
    BY <1>10, <2>1 DEF LoseRequest
  <2> QED
    BY <1>8, <1>10, <2>2 DEF LoseRequest, rowsUnchanged
<1>11. CASE UNCHANGED webVars
  BY <1>1, <1>11 DEF webVars
<1>12. CASE set_password
  BY <1>1, <1>12 DEF set_password, historyUnchanged
<1> QED
  BY <1>2, <1>4, <1>5, <1>6, <1>7, <1>9, <1>10, <1>11, <1>12, HandleShape, CommitShape DEF WebNext

\* Nothing that matters to a revoke-all changes: rows are only revoked, and no
\* request sets out to revoke all or goes on with it.
LEMMA NothingRevived ==
  ASSUME WebTypes, WebTypes', RevokeInv, revocations' = revocations,
         Fewer(web_sessions', web_sessions), Fewer(web_remember_tokens', web_remember_tokens),
         \A s \in Servers : request'[s].todo \in {RevokeAllCommits, LastHalf} =>
                              request'[s].todo = request[s].todo
  PROVE  RevokeInv'
<1>1. Revoking' \subseteq Revoking
  BY DEF Revoking
<1>2. Cardinality(Revoking') <= Cardinality(Revoking)
      /\ Cardinality(Revoking) \in Nat /\ Cardinality(Revoking') \in Nat
  <2>1. IsFiniteSet(Revoking)
    BY WebAuthAssumption, FS_Subset DEF Revoking
  <2> QED
    BY <1>1, <2>1, FS_Subset, FS_CardinalityType
<1>3. ASSUME NEW s \in Servers, request'[s].todo = LastHalf
      PROVE  Overlapped(web_sessions)'
  BY <1>3 DEF RevokeInv, Overlapped, Fewer
<1>4. ASSUME NEW new, NEW old, Fewer(new, old),
             \A i \in DOMAIN old : old[i] # Dead => old[i].era \in {-1, revocations.ended}
      PROVE  \A i \in DOMAIN new : new[i] # Dead => new[i].era \in {-1, revocations.ended}
  BY <1>4 DEF Fewer
<1>5. SurvivorsOverlapped'
  BY <1>4 DEF RevokeInv, SurvivorsOverlapped
<1>6. revocations.ended \in Nat /\ revocations.began \in Nat
  BY DEF WebTypes
<1> QED
  BY <1>2, <1>3, <1>5, <1>6 DEF RevokeInv

\* Every step keeps what is live after a revoke-all to what overlapped with it.
LEMMA RevokeStep ==
  ASSUME WebTypes, WebTypes', RevokeInv, [WebNext]_webVars
  PROVE  RevokeInv'
<1>0. /\ \A s \in Servers : request[s] \in Requests
      /\ request \in [Servers -> Requests]
      /\ web_sessions \in Seq(Row) /\ web_remember_tokens \in Seq(Row)
      /\ revocations \in [began : Nat, ended : Nat]
      /\ Fewer(web_sessions, web_sessions) /\ Fewer(web_remember_tokens, web_remember_tokens)
  BY DEF WebTypes, Fewer
<1>1. /\ IsFiniteSet(Revoking) /\ Cardinality(Revoking) \in Nat
      /\ \A s \in Revoking : Cardinality(Revoking \ {s}) = Cardinality(Revoking) - 1
      /\ \A s \in Servers : /\ IsFiniteSet(Revoking \cup {s})
                            /\ Cardinality(Revoking \cup {s}) <= Cardinality(Revoking) + 1
                            /\ Cardinality(Revoking \cup {s}) \in Nat
  <2>1. IsFiniteSet(Revoking)
    BY WebAuthAssumption, FS_Subset DEF Revoking
  <2>2. Cardinality(Revoking) \in Nat
    BY <2>1, FS_CardinalityType
  <2>3. \A s \in Revoking : Cardinality(Revoking \ {s}) = Cardinality(Revoking) - 1
    BY <2>1, FS_RemoveElement
  <2>4. \A s \in Servers :
          /\ IsFiniteSet(Revoking \cup {s})
          /\ Cardinality(Revoking \cup {s}) \in {Cardinality(Revoking), Cardinality(Revoking) + 1}
    BY <2>1, FS_AddElement
  <2> HIDE DEF Revoking
  <2> QED
    BY <2>1, <2>2, <2>3, <2>4
\* The request of one server changes, to one that has nothing to do with a revoke-all.
<1>2. ASSUME NEW s \in Servers, NEW r, request' = [request EXCEPT ![s] = r],
             r.todo \notin {RevokeAllCommits, LastHalf}, revocations' = revocations,
             Fewer(web_sessions', web_sessions), Fewer(web_remember_tokens', web_remember_tokens)
      PROVE  RevokeInv'
  <2>1. \A d \in Servers : request'[d] = IF d = s THEN r ELSE request[d]
    BY <1>0, <1>2
  <2> QED
    BY <1>2, <2>1, NothingRevived
<1>3. CASE UNCHANGED <<web_sessions, web_remember_tokens, request, revocations>>
  BY <1>0, <1>3, NothingRevived
<1>4. ASSUME NEW i \in DOMAIN web_sessions, ExpireSession(i)
      PROVE  RevokeInv'
  <2>1. Fewer(web_sessions', web_sessions)
    BY <1>4 DEF ExpireSession, Fewer
  <2> QED
    BY <1>0, <1>4, <2>1, NothingRevived DEF ExpireSession, historyUnchanged
<1>5. ASSUME NEW s \in Servers, NEW b \in Browsers, SendRequest(b, s)
      PROVE  RevokeInv'
  <2>1. PICK r : request' = [request EXCEPT ![s] = r] /\ r.todo = <<>>
    <3>1. \A k : [NoRequest EXCEPT
             !.at = "authenticate", !.from = b, !.kind = k, !.session = browser[b].session,
             !.remember = browser[b].remember, !.csrf = browser[b].form,
             !.began = revocations.ended].todo = <<>>
      BY DEF NoRequest
    <3> QED
      BY <1>5, <3>1 DEF SendRequest
  <2> QED
    BY <1>0, <1>2, <1>5, <2>1, NeverPlain DEF SendRequest, rowsUnchanged
<1>6. ASSUME NEW s \in Servers, authenticate_request(s)
      PROVE  RevokeInv'
  <2> DEFINE old == request[s]
             redirect == [NoRequest EXCEPT !.at = "respond", !.from = old.from]
             known == [old EXCEPT !.at = "handle", !.as = old.session]
             rotation == <<<<"revoke_token", old.remember>>, <<"new_session", 0>>, <<"new_token", 0>>>>
             rotating == [old EXCEPT !.at = "handle", !.rotated = TRUE, !.todo = rotation]
             asked == [redirect EXCEPT !.at = "password", !.began = old.began]
  <2>1. redirect.todo = <<>> /\ asked.todo = <<>>
    BY DEF NoRequest
  <2>2. known.todo = old.todo /\ rotating.todo = rotation /\ old \in Requests
    BY <1>0 DEF Requests
  <2>3. rotation \in Seq(PlainCommits)
    <3>1. old.remember \in Nat
      BY <2>2 DEF Requests
    <3> HIDE DEF old
    <3> QED
      BY <3>1, PlainSequences
  <2>4. \E r \in {redirect, known, rotating, asked} : request' = [request EXCEPT ![s] = r]
    BY <1>6 DEF authenticate_request
  <2>5. /\ UNCHANGED <<web_sessions, web_remember_tokens, revocations>>
    BY <1>6 DEF authenticate_request, rowsUnchanged, historyUnchanged
  <2> HIDE DEF redirect, known, rotating, asked, rotation
  <2>6. PICK r \in {redirect, known, rotating, asked} : request' = [request EXCEPT ![s] = r]
    BY <2>4
  <2>7. \A d \in Servers : request'[d] = IF d = s THEN r ELSE request[d]
    BY <1>0, <2>6
  <2>8. r.todo = old.todo \/ r.todo \in Seq(PlainCommits)
    BY <2>1, <2>2, <2>3, <2>6, NeverPlain
  <2>9. \A d \in Servers : request'[d].todo \in {RevokeAllCommits, LastHalf} =>
                             request'[d].todo = request[d].todo
    BY <2>7, <2>8, NeverPlain
  <2> QED
    BY <1>0, <2>5, <2>9, NothingRevived
<1>7. ASSUME NEW s \in Servers, HandleRoute(s)
      PROVE  RevokeInv'
  <2>1. UNCHANGED <<web_sessions, web_remember_tokens>>
    BY <1>7, HandleShape
  <2>2. PICK r \in Requests :
              /\ request' = [request EXCEPT ![s] = r]
              /\ r.todo \in {RevokeAllCommits} \cup Seq(PlainCommits)
              /\ revocations' = IF r.todo = RevokeAllCommits
                                THEN [revocations EXCEPT !.began = @ + 1] ELSE revocations
    BY <1>7, HandleShape
  <2>3. CASE r.todo # RevokeAllCommits
    BY <1>0, <1>2, <2>1, <2>2, <2>3, NeverPlain
  <2>4. CASE r.todo = RevokeAllCommits
    <3>1. /\ revocations'.began = revocations.began + 1 /\ revocations'.ended = revocations.ended
          /\ revocations.began \in Nat /\ revocations.ended \in Nat
      BY <1>0, <2>2, <2>4
    <3>2. \A d \in Servers : request'[d] = IF d = s THEN r ELSE request[d]
      BY <1>0, <2>2
    <3>3. Revoking' \subseteq Revoking \cup {s}
      BY <3>2 DEF Revoking
    <3>4. Cardinality(Revoking') <= Cardinality(Revoking) + 1 /\ Cardinality(Revoking') \in Nat
      <4>1. Cardinality(Revoking') <= Cardinality(Revoking \cup {s}) /\ IsFiniteSet(Revoking')
        BY <1>1, <3>3, FS_Subset
      <4>2. Cardinality(Revoking') \in Nat
        BY <4>1, FS_CardinalityType
      <4> HIDE DEF Revoking
      <4> QED
        BY <1>1, <4>1, <4>2
    <3>5. revocations'.ended + Cardinality(Revoking') <= revocations'.began
      BY <1>1, <3>1, <3>4 DEF RevokeInv
    <3>6. ASSUME NEW d \in Servers, request'[d].todo = LastHalf
          PROVE  Overlapped(web_sessions)'
      BY <2>1, <2>4, <3>2, <3>6, NeverPlain DEF RevokeInv, Overlapped
    <3>7. SurvivorsOverlapped'
      BY <2>1, <3>1 DEF RevokeInv, SurvivorsOverlapped
    <3> QED
      BY <3>5, <3>6, <3>7 DEF RevokeInv
  <2> QED
    BY <2>3, <2>4
<1>8. ASSUME NEW s \in Servers, Commit(s)
      PROVE  RevokeInv'
  <2>1. PICK r \in Requests :
          request' = [request EXCEPT ![s] = r] /\ r.todo = Tail(request[s].todo)
    BY <1>8, CommitShape
  <2>2. \A d \in Servers : request'[d] = IF d = s THEN r ELSE request[d]
    BY <1>0, <2>1
  \* A plain commit: a row it makes says whether a revoke-all is under way.
  <2>3. CASE /\ request[s].todo \in Seq(PlainCommits) /\ request[s].todo # <<>>
             /\ Tail(request[s].todo) \in Seq(PlainCommits) /\ revocations' = revocations
             /\ \/ Fewer(web_sessions', web_sessions)
                \/ web_sessions' = Append(web_sessions, NewRow(s))
             /\ \/ Fewer(web_remember_tokens', web_remember_tokens)
                \/ web_remember_tokens' = Append(web_remember_tokens, NewRow(s))
    <3> DEFINE new == NewRow(s)
    <3>1. /\ new.era \in {-1, revocations.ended}
          /\ revocations.began # revocations.ended => new.era = -1
      BY <1>0 DEF NewRow
    <3>2. Revoking' = Revoking
      <4>1. s \notin Revoking /\ s \notin Revoking'
        <5>1. request[s].todo \notin {RevokeAllCommits, LastHalf}
          BY <2>3, NeverPlain
        <5>2. request'[s].todo \notin {RevokeAllCommits, LastHalf}
          <6>1. request'[s].todo = Tail(request[s].todo)
            BY <2>1, <2>2
          <6>2. ASSUME NEW todo \in Seq(PlainCommits)
                PROVE  todo \notin {RevokeAllCommits, LastHalf}
            BY NeverPlain
          <6>3. Tail(request[s].todo) \in Seq(PlainCommits)
            BY <2>3, Zenon
          <6> QED
            BY <6>1, <6>2, <6>3, Zenon
        <5> QED
          BY <5>1, <5>2 DEF Revoking
      <4> QED
        BY <2>2, <4>1 DEF Revoking
    <3> HIDE DEF new
    <3>3. ASSUME NEW rows \in Seq(Row), NEW rows2, Fewer(rows2, rows) \/ rows2 = Append(rows, new)
          PROVE  \A i \in DOMAIN rows2 :
                   rows2[i] = Dead \/ rows2[i] = new
                   \/ (i \in DOMAIN rows /\ rows2[i] = rows[i])
      <4>1. CASE Fewer(rows2, rows)
        BY <4>1 DEF Fewer
      <4>2. CASE rows2 = Append(rows, new)
        BY <4>2
      <4> QED
        BY <3>3, <4>1, <4>2
    <3>4. \A i \in DOMAIN web_sessions' :
            web_sessions'[i] = Dead \/ web_sessions'[i] = new
            \/ (i \in DOMAIN web_sessions /\ web_sessions'[i] = web_sessions[i])
      BY <1>0, <2>3, <3>3 DEF new
    <3>5. \A i \in DOMAIN web_remember_tokens' :
            web_remember_tokens'[i] = Dead \/ web_remember_tokens'[i] = new
            \/ (i \in DOMAIN web_remember_tokens /\ web_remember_tokens'[i] = web_remember_tokens[i])
      BY <1>0, <2>3, <3>3 DEF new
    <3>6. SurvivorsOverlapped'
      <4>1. \A i \in DOMAIN web_sessions' :
              web_sessions'[i] # Dead => web_sessions'[i].era \in {-1, revocations.ended}
        BY <3>1, <3>4 DEF RevokeInv, SurvivorsOverlapped
      <4>2. \A i \in DOMAIN web_remember_tokens' :
              web_remember_tokens'[i] # Dead => web_remember_tokens'[i].era \in {-1, revocations.ended}
        BY <3>1, <3>5 DEF RevokeInv, SurvivorsOverlapped
      <4> QED
        BY <2>3, <4>1, <4>2 DEF SurvivorsOverlapped
    <3>7. ASSUME NEW d \in Servers, request'[d].todo = LastHalf
          PROVE  Overlapped(web_sessions)'
      <4>1. d # s /\ request[d].todo = LastHalf /\ d \in Revoking
        BY <2>1, <2>2, <2>3, <3>7, NeverPlain DEF Revoking
      <4>2. Cardinality(Revoking) # 0
        BY <1>1, <4>1, FS_EmptySet
      <4>3. revocations.began # revocations.ended
        BY <1>0, <1>1, <4>2 DEF RevokeInv
      <4>4. new.era = -1 /\ Overlapped(web_sessions)
        BY <3>1, <4>1, <4>3 DEF RevokeInv
      <4> QED
        BY <3>4, <4>4 DEF Overlapped
    <3> QED
      BY <2>3, <3>2, <3>6, <3>7 DEF RevokeInv
  \* The first half: no session is left.
  <2>4. CASE /\ request[s].todo = RevokeAllCommits /\ revocations' = revocations
             /\ web_sessions' = AllRevoked(web_sessions)
             /\ web_remember_tokens' = web_remember_tokens
    <3>1. r.todo = LastHalf /\ Revoking' = Revoking
      <4>1. r.todo = LastHalf
        BY <2>1, <2>4, NeverPlain
      <4> QED
        BY <2>2, <2>4, <4>1 DEF Revoking
    <3>2. \A i \in DOMAIN web_sessions' : web_sessions'[i] = Dead
      BY <2>4 DEF AllRevoked
    <3>3. Overlapped(web_sessions)' /\ SurvivorsOverlapped'
      BY <2>4, <3>2 DEF Overlapped, SurvivorsOverlapped, RevokeInv
    <3> QED
      BY <2>4, <3>1, <3>3 DEF RevokeInv
  \* The second half: no token is left, and what sessions there are overlapped.
  <2>5. CASE /\ request[s].todo = LastHalf
             /\ revocations' = [revocations EXCEPT !.ended = @ + 1]
             /\ web_remember_tokens' = AllRevoked(web_remember_tokens)
             /\ web_sessions' = web_sessions
    <3>1. r.todo = <<>>
      BY <2>1, <2>5, NeverPlain
    <3>2. s \in Revoking /\ Revoking' = Revoking \ {s}
      BY <2>2, <2>5, <3>1, NeverPlain DEF Revoking
    <3>3. /\ revocations'.began = revocations.began /\ revocations'.ended = revocations.ended + 1
          /\ revocations.began \in Nat /\ revocations.ended \in Nat
      BY <1>0, <2>5
    <3>4. revocations'.ended + Cardinality(Revoking') <= revocations'.began
      BY <1>1, <3>2, <3>3 DEF RevokeInv
    <3>5. \A i \in DOMAIN web_remember_tokens' : web_remember_tokens'[i] = Dead
      BY <2>5 DEF AllRevoked
    <3>6. Overlapped(web_sessions)' /\ Overlapped(web_remember_tokens)'
      BY <2>5, <3>5 DEF Overlapped, RevokeInv
    <3>7. SurvivorsOverlapped'
      BY <3>6 DEF Overlapped, SurvivorsOverlapped
    <3> QED
      BY <3>4, <3>6, <3>7 DEF RevokeInv
  <2> QED
    BY <1>8, <2>3, <2>4, <2>5, CommitShape
<1>9. ASSUME NEW s \in Servers, login(s)
      PROVE  RevokeInv'
  <2> DEFINE answer == [request[s] EXCEPT !.at = "respond"]
             one == <<<<"new_session", 0>>>>
             two == <<<<"new_session", 0>>, <<"new_token", 0>>>>
             let_in(commits) == [request[s] EXCEPT !.at = "respond", !.todo = commits]
  <2>1. answer.todo = request[s].todo /\ let_in(one).todo = one /\ let_in(two).todo = two
    BY <1>0 DEF Requests
  <2>2. one \in Seq(PlainCommits) /\ two \in Seq(PlainCommits)
    BY PlainSequences
  <2>3. \E r \in {answer, let_in(one), let_in(two)} : request' = [request EXCEPT ![s] = r]
    BY <1>9 DEF login
  <2> HIDE DEF answer, let_in, one, two
  <2>4. PICK r : /\ request' = [request EXCEPT ![s] = r]
                 /\ r.todo = request[s].todo \/ r.todo \in Seq(PlainCommits)
    BY <2>1, <2>2, <2>3
  <2>5. \A d \in Servers : request'[d] = IF d = s THEN r ELSE request[d]
    BY <1>0, <2>4
  <2>6. \A d \in Servers : request'[d].todo \in {RevokeAllCommits, LastHalf} =>
                             request'[d].todo = request[d].todo
    BY ZenonT(60), <2>4, <2>5, NeverPlain
  <2>7. UNCHANGED <<web_sessions, web_remember_tokens, revocations>>
    BY <1>9 DEF login, rowsUnchanged
  <2> QED
    BY <1>0, <2>6, <2>7, NothingRevived
<1>10. ASSUME NEW s \in Servers, Respond(s) \/ LoseRequest(s)
       PROVE  RevokeInv'
  <2>1. NoRequest.todo = <<>> /\ request' = [request EXCEPT ![s] = NoRequest]
    BY <1>10 DEF NoRequest, Respond, LoseRequest
  <2>2. UNCHANGED <<web_sessions, web_remember_tokens, revocations>>
    BY <1>10 DEF Respond, LoseRequest, rowsUnchanged, historyUnchanged
  <2> QED
    BY <1>0, <1>2, <2>1, <2>2, NeverPlain
<1> QED
  BY <1>3, <1>4, <1>5, <1>6, <1>7, <1>8, <1>9, <1>10
     DEF WebNext, webVars, set_password, historyUnchanged, WindowMoves, rowsUnchanged

\* However requests, crashes and several revoke-alls interleave, what is live
\* after a revoke-all began later or ran at the same time.
THEOREM RevokeAllReachesAll == WebSpec => []SurvivorsOverlapped
<1>1. WebInit => WebTypes /\ RevokeInv
  <2> SUFFICES ASSUME WebInit  PROVE RevokeInv
    BY WebTypesInit
  <2>1. \A s \in Servers : request[s].todo = <<>>
    BY DEF WebInit, NoRequest
  <2>2. Revoking = {} /\ Cardinality(Revoking) = 0
    BY <2>1, NeverPlain, FS_EmptySet DEF Revoking
  <2>3. web_sessions = <<>> /\ web_remember_tokens = <<>> /\ revocations = [began |-> 0, ended |-> 0]
    BY DEF WebInit
  <2>4. SurvivorsOverlapped
    <3>1. DOMAIN <<>> = {}
      OBVIOUS
    <3> QED
      BY <2>3, <3>1 DEF SurvivorsOverlapped
  <2>5. revocations.ended + Cardinality(Revoking) <= revocations.began
    BY <2>2, <2>3
  <2>6. \A s \in Servers : request[s].todo # LastHalf
    BY <2>1, NeverPlain
  <2> QED
    BY <2>4, <2>5, <2>6 DEF RevokeInv
<1>2. WebTypes /\ RevokeInv /\ [WebNext]_webVars => (WebTypes /\ RevokeInv)'
  BY WebTypesStep, RevokeStep
<1>3. RevokeInv => SurvivorsOverlapped
  BY DEF RevokeInv
<1> QED
  BY <1>1, <1>2, <1>3, PTL DEF WebSpec
(***************************************************************************)
(* Remember-browser tokens.  A token that no browser holds yet is named by *)
(* the response that brings it and by nothing else, so only a revoke-all   *)
(* can reach it; a browser whose token is revoked or about to be is given  *)
(* another one by a response on its way, or has an excuse.                 *)
(***************************************************************************)
Items(todo) == {todo[n] : n \in DOMAIN todo}

\* The commits the request has ahead of it.
Ahead(s) == Items(request[s].todo)

\* The token the request came with, and those it is going to revoke.
KnownTo(s) == {request[s].remember} \cup {i \in Nat : <<"revoke_token", i>> \in Ahead(s)}

\* The token the response brings, if positive.
Brings(s) == request[s].cookies.remember

Rotated == {s \in Servers : request[s].rotated}

Excused == {b \in Browsers : browser[b].excuse}

TokensExist ==
  \A i \in Nat \ {0} :
    \/ \E b \in Browsers : browser[b].remember = i
    \/ \E s \in Servers : i \in KnownTo(s) \/ Brings(s) = i
    => i \in DOMAIN web_remember_tokens

OneHolder ==
  \A b \in Browsers : browser[b].remember # 0 =>
    /\ \A c \in Browsers : browser[c].remember = browser[b].remember => c = b
    /\ \A s \in Servers : browser[b].remember \in KnownTo(s) => request[s].from = b

CookiesAreSecret ==
  \A s \in Servers : Brings(s) > 0 =>
    /\ \A b \in Browsers : browser[b].remember # Brings(s)
    /\ \A t \in Servers : Brings(s) \notin KnownTo(t) /\ (Brings(t) = Brings(s) => t = s)
    /\ web_remember_tokens[Brings(s)] = Dead => request[s].from \in Excused

RevokedAllIsExcused ==
  \A s \in Servers : <<"all_tokens", 0>> \in Ahead(s) => Excused = Browsers

\* The servers whose request is as its stage allows.
Staged ==
  {s \in Servers :
    /\ request[s].at \in {"idle", "authenticate", "password"} =>
         request[s].todo = <<>> /\ Brings(s) = -1 /\ s \notin Rotated
    /\ request[s].at = "handle" /\ s \in Rotated =>
         (\E n \in Nat : <<"new_token", n>> \in Ahead(s)) \/ Brings(s) > 0
    /\ request[s].at # "idle" => request[s].from \in Browsers}

\* The requests that have another token for the browser on its way.
Replacing(b) ==
  {s \in Rotated : request[s].from = b /\ (request[s].at = "handle" \/ Brings(s) > 0)}

Lost == {i \in Nat : \/ i \in DOMAIN web_remember_tokens /\ web_remember_tokens[i] = Dead
                     \/ \E s \in Servers : <<"revoke_token", i>> \in Ahead(s)}

LossIsReplaced ==
  \A b \in Browsers :
    browser[b].remember # 0 /\ browser[b].remember \in Lost =>
      b \in Excused \/ Replacing(b) # {}

RememberInv ==
  /\ TokensExist /\ OneHolder /\ CookiesAreSecret /\ RevokedAllIsExcused
  /\ Servers \subseteq Staged /\ LossIsReplaced

\* The items of the sequences of commits there are.
LEMMA NoItems == Items(<<>>) = {}
BY DEF Items

LEMMA OneItem == ASSUME NEW x  PROVE Items(<<x>>) = {x}
<1>1. DOMAIN <<x>> = {1} /\ <<x>>[1] = x
  OBVIOUS
<1> QED
  BY <1>1 DEF Items

LEMMA TwoItems == ASSUME NEW x, NEW y  PROVE Items(<<x, y>>) = {x, y}
<1>1. DOMAIN <<x, y>> = {1, 2} /\ <<x, y>>[1] = x /\ <<x, y>>[2] = y
  OBVIOUS
<1> QED
  BY <1>1 DEF Items

LEMMA ThreeItems == ASSUME NEW x, NEW y, NEW z  PROVE Items(<<x, y, z>>) = {x, y, z}
<1>1. /\ DOMAIN <<x, y, z>> = {1, 2, 3}
      /\ <<x, y, z>>[1] = x /\ <<x, y, z>>[2] = y /\ <<x, y, z>>[3] = z
  OBVIOUS
<1> QED
  BY <1>1 DEF Items

\* The next commit and the others after it.
LEMMA NextItem ==
  ASSUME NEW S, NEW todo \in Seq(S), todo # <<>>
  PROVE  Head(todo) \in S /\ Items(todo) = {Head(todo)} \cup Items(Tail(todo))
<1>1. /\ Len(todo) \in Nat \ {0} /\ DOMAIN todo = 1 .. Len(todo) /\ Head(todo) = todo[1]
      /\ DOMAIN Tail(todo) = 1 .. Len(todo) - 1
      /\ \A n \in 1 .. Len(todo) - 1 : Tail(todo)[n] = todo[n + 1]
  OBVIOUS
<1>2. Head(todo) \in S
  OBVIOUS
<1>3. ASSUME NEW n \in DOMAIN todo
      PROVE  todo[n] \in {Head(todo)} \cup Items(Tail(todo))
  <2>1. CASE n = 1
    BY <1>1, <2>1
  <2>2. CASE n # 1
    <3>1. n - 1 \in DOMAIN Tail(todo) /\ Tail(todo)[n - 1] = todo[n]
      BY <1>1, <2>2
    <3> QED
      BY <3>1 DEF Items
  <2> QED
    BY <2>1, <2>2
<1>4. ASSUME NEW n \in DOMAIN Tail(todo)
      PROVE  Tail(todo)[n] \in Items(todo)
  <2>1. n + 1 \in DOMAIN todo /\ Tail(todo)[n] = todo[n + 1]
    BY <1>1
  <2> QED
    BY <2>1 DEF Items
<1>5. Head(todo) \in Items(todo)
  BY <1>1 DEF Items
<1> QED
  BY <1>2, <1>3, <1>4, <1>5 DEF Items

\* A step of one request that brings no new token keeps the invariant when what
\* dies was due, what is due now was held by its browser, and a response that
\* does not bring its token any more leaves an excuse.
LEMMA QuietRequest ==
  ASSUME WebTypes, WebTypes', RememberInv, NEW s \in Servers,
         \A t \in Servers : t # s => request'[t] = request[t],
         DOMAIN web_remember_tokens' = DOMAIN web_remember_tokens,
         \A i \in DOMAIN web_remember_tokens : web_remember_tokens'[i] = Dead =>
           \/ web_remember_tokens[i] = Dead \/ <<"revoke_token", i>> \in Ahead(s)
           \/ Excused' = Browsers,
         \A b \in Browsers : browser'[b].remember = browser[b].remember,
         Excused \subseteq Excused',
         \A i \in Nat \ {0} : i \in KnownTo(s)' =>
           \/ i \in KnownTo(s) /\ request'[s].from = request[s].from
           \/ \E b \in Browsers : b = request'[s].from /\ browser[b].remember = i,
         Brings(s)' > 0 => Brings(s)' = Brings(s) /\ request'[s].from = request[s].from,
         <<"all_tokens", 0>> \in Ahead(s)' => Excused' = Browsers,
         s \in Staged',
         \A b \in Browsers : s \in Replacing(b) => s \in Replacing(b)' \/ b \in Excused',
         \A b \in Browsers, i \in Nat \ {0} :
           browser[b].remember = i /\ <<"revoke_token", i>> \in Ahead(s)' =>
             <<"revoke_token", i>> \in Ahead(s) \/ s \in Replacing(b)' \/ b \in Excused'
  PROVE  RememberInv'
<1>0. /\ \A t \in Servers : Brings(t) \in Nat \cup {-1} /\ Brings(t)' \in Nat \cup {-1}
      /\ \A b \in Browsers : browser[b].remember \in Nat
  BY ZenonT(60) DEF WebTypes, Requests, BrowserStates, Brings
<1>9. Excused' \subseteq Browsers
  BY DEF Excused
<1>1. \A t \in Servers : t # s =>
        /\ Ahead(t)' = Ahead(t) /\ KnownTo(t)' = KnownTo(t) /\ Brings(t)' = Brings(t)
        /\ request'[t].from = request[t].from
        /\ t \in Staged => t \in Staged'
  BY DEF Ahead, KnownTo, Brings, Rotated, Staged
<1>10. \A t \in Servers, b \in Browsers : t # s /\ t \in Replacing(b) => t \in Replacing(b)'
  BY <1>1 DEF Replacing, Rotated
<1>2. TokensExist'
  <2> SUFFICES ASSUME NEW i \in Nat \ {0},
                      \/ \E b \in Browsers : browser'[b].remember = i
                      \/ \E t \in Servers : i \in KnownTo(t)' \/ Brings(t)' = i
               PROVE  i \in DOMAIN web_remember_tokens
    BY DEF TokensExist
  <2>1. \/ \E b \in Browsers : browser[b].remember = i
        \/ \E t \in Servers : i \in KnownTo(t) \/ Brings(t) = i
    <3>1. ASSUME NEW t \in Servers, i \in KnownTo(t)' \/ Brings(t)' = i
          PROVE  \/ \E b \in Browsers : browser[b].remember = i
                 \/ \E u \in Servers : i \in KnownTo(u) \/ Brings(u) = i
      BY <1>1, <3>1
    <3> QED
      BY <3>1
  <2> QED
    BY <2>1 DEF RememberInv, TokensExist
<1>3. OneHolder'
  <2>1. ASSUME NEW b \in Browsers, NEW i \in Nat \ {0}, browser[b].remember = i,
               NEW t \in Servers, i \in KnownTo(t)'
        PROVE  request'[t].from = b
    <3>1. i \in KnownTo(t) => request[t].from = b
      BY <2>1 DEF RememberInv, OneHolder
    <3>2. \A c \in Browsers : browser[c].remember = i => c = b
      BY <2>1 DEF RememberInv, OneHolder
    <3> QED
      BY <1>1, <2>1, <3>1, <3>2
  <2>2. ASSUME NEW b \in Browsers, browser'[b].remember # 0,
               NEW c \in Browsers, browser'[c].remember = browser'[b].remember
        PROVE  c = b
    BY <2>2 DEF RememberInv, OneHolder
  <2>3. ASSUME NEW b \in Browsers, browser'[b].remember # 0,
               NEW t \in Servers, browser'[b].remember \in KnownTo(t)'
        PROVE  request'[t].from = b
    <3>1. PICK i : i = browser'[b].remember
      OBVIOUS
    <3>2. i \in KnownTo(t)'
      BY <2>3, <3>1
    <3>3. i \in Nat \ {0} /\ browser[b].remember = i
      BY <1>0, <2>3, <3>1
    <3> QED
      BY <2>1, <3>2, <3>3
  <2> QED
    BY <2>2, <2>3 DEF OneHolder
<1>4. CookiesAreSecret'
  <2>1. ASSUME NEW u \in Servers, Brings(u)' > 0, NEW j, j = Brings(u)'
        PROVE  /\ \A b \in Browsers : browser'[b].remember # j
               /\ \A t \in Servers : j \notin KnownTo(t)' /\ (Brings(t)' = j => t = u)
               /\ web_remember_tokens'[j] = Dead => request'[u].from \in Excused'
    <3>1. Brings(u) = j /\ request'[u].from = request[u].from
      BY <1>1, <2>1
    <3>2. /\ j \in Nat \ {0}
          /\ \A b \in Browsers : browser[b].remember # j
          /\ \A t \in Servers : j \notin KnownTo(t) /\ (Brings(t) = j => t = u)
          /\ web_remember_tokens[j] = Dead => request[u].from \in Excused
      BY <1>0, <2>1, <3>1 DEF RememberInv, CookiesAreSecret
    <3>3. ASSUME NEW t \in Servers  PROVE j \notin KnownTo(t)' /\ (Brings(t)' = j => t = u)
      BY <1>1, <3>2
    <3>4. web_remember_tokens'[j] = Dead => request'[u].from \in Excused'
      <4>1. j \in DOMAIN web_remember_tokens
        BY <3>1, <3>2 DEF RememberInv, TokensExist
      <4>2. <<"revoke_token", j>> \notin Ahead(s)
        BY <3>2 DEF KnownTo
      <4>3. request[u].from \in Browsers
        BY <3>1, <3>2 DEF RememberInv, Staged
      <4> QED
        BY <3>1, <3>2, <4>1, <4>2, <4>3
    <3> QED
      BY <3>2, <3>3, <3>4
  <2> SUFFICES ASSUME NEW u \in Servers, Brings(u)' > 0
               PROVE  /\ \A b \in Browsers : browser'[b].remember # Brings(u)'
                      /\ \A t \in Servers : /\ Brings(u)' \notin KnownTo(t)'
                                            /\ Brings(t)' = Brings(u)' => t = u
                      /\ web_remember_tokens'[Brings(u)'] = Dead => request'[u].from \in Excused'
    BY DEF CookiesAreSecret
  <2>2. PICK j : j = Brings(u)'
    OBVIOUS
  <2> QED
    BY <2>1, <2>2
<1>5. RevokedAllIsExcused'
  <2> SUFFICES ASSUME NEW t \in Servers, <<"all_tokens", 0>> \in Ahead(t)'
               PROVE  Excused' = Browsers
    BY DEF RevokedAllIsExcused
  <2> QED
    BY <1>1, <1>9 DEF RememberInv, RevokedAllIsExcused
<1>6. Servers \subseteq Staged'
  BY <1>1 DEF RememberInv
<1>7. LossIsReplaced'
  <2>1. ASSUME NEW b \in Browsers, NEW i \in Nat \ {0}, browser[b].remember = i, b \notin Excused',
               \/ web_remember_tokens'[i] = Dead
               \/ \E t \in Servers : <<"revoke_token", i>> \in Ahead(t)'
        PROVE  Replacing(b)' # {}
    <3>1. i \in DOMAIN web_remember_tokens
      BY <2>1 DEF RememberInv, TokensExist
    <3>2. i \in Lost \/ s \in Replacing(b)'
      <4>1. CASE web_remember_tokens'[i] = Dead
        BY <2>1, <3>1, <4>1 DEF Lost
      <4>2. ASSUME NEW t \in Servers, <<"revoke_token", i>> \in Ahead(t)'
            PROVE  i \in Lost \/ s \in Replacing(b)'
        BY <1>1, <2>1, <4>2 DEF Lost
      <4> QED
        BY <2>1, <4>1, <4>2
    <3>3. i \in Lost => Replacing(b) # {}
      BY <2>1 DEF RememberInv, LossIsReplaced, Excused
    <3>4. \A t \in Replacing(b) : t \in Servers
      BY DEF Replacing, Rotated
    <3>5. \A t \in Replacing(b) : t \in Replacing(b)'
      BY <1>10, <2>1, <3>4
    <3> QED
      BY <3>2, <3>3, <3>5
  <2> SUFFICES ASSUME NEW b \in Browsers, browser'[b].remember # 0,
                      browser'[b].remember \in Lost', b \notin Excused'
               PROVE  Replacing(b)' # {}
    BY DEF LossIsReplaced
  <2>2. PICK i : i = browser'[b].remember
    OBVIOUS
  <2>3. /\ i \in Nat \ {0} /\ browser[b].remember = i
        /\ \/ web_remember_tokens'[i] = Dead
           \/ \E t \in Servers : <<"revoke_token", i>> \in Ahead(t)'
    BY <1>0, <2>2 DEF Lost, Ahead
  <2> QED
    BY <2>1, <2>3
<1> QED
  BY <1>2, <1>3, <1>4, <1>5, <1>6, <1>7 DEF RememberInv

\* What the next record of a request says of it.
LEMMA RequestBecomes ==
  ASSUME WebTypes, NEW s \in Servers, NEW r \in Requests, request' = [request EXCEPT ![s] = r]
  PROVE  /\ request'[s] = r /\ \A t \in Servers : t # s => request'[t] = request[t]
         /\ Ahead(s)' = Items(r.todo) /\ Brings(s)' = r.cookies.remember
         /\ KnownTo(s)' = {r.remember} \cup {i \in Nat : <<"revoke_token", i>> \in Items(r.todo)}
         /\ r.todo = <<>> => Ahead(s)' = {} /\ KnownTo(s)' = {r.remember}
         /\ r.rotated = FALSE => s \notin Rotated'
         /\ r.rotated = TRUE => s \in Rotated'
<1>1. request'[s] = r /\ \A t \in Servers : t # s => request'[t] = request[t]
  BY DEF WebTypes
<1>2. Ahead(s)' = Items(r.todo)
  BY <1>1 DEF Ahead
<1>3. KnownTo(s)' = {r.remember} \cup {i \in Nat : <<"revoke_token", i>> \in Items(r.todo)}
  BY <1>1 DEF Ahead, KnownTo
<1>4. r.todo = <<>> => Items(r.todo) = {}
  BY NoItems
<1>5. /\ r.rotated = FALSE => s \notin Rotated'
      /\ r.rotated = TRUE => s \in Rotated'
  BY <1>1 DEF Rotated
<1>6. Brings(s)' = r.cookies.remember
  BY <1>1 DEF Brings
<1> QED
  BY <1>1, <1>2, <1>3, <1>4, <1>5, <1>6

\* A request that has not been answered has nothing to commit, brings nothing
\* and has rotated nothing.
LEMMA EarlyStage ==
  ASSUME WebTypes, RememberInv, NEW s \in Servers,
         request[s].at \in {"idle", "authenticate", "password"}
  PROVE  /\ request[s].todo = <<>> /\ Ahead(s) = {} /\ KnownTo(s) = {request[s].remember}
         /\ request[s].cookies.remember = -1 /\ request[s].rotated = FALSE
         /\ \A b \in Browsers : s \notin Replacing(b)
<1>1. s \in Staged
  BY DEF RememberInv
<1>2. request[s].todo = <<>> /\ Brings(s) = -1 /\ s \notin Rotated
  BY <1>1 DEF Staged
<1>3. Ahead(s) = {}
  BY <1>2, NoItems DEF Ahead
<1>4. request[s].rotated \in BOOLEAN
  BY DEF WebTypes, Requests
<1> QED
  BY <1>2, <1>3, <1>4 DEF KnownTo, Brings, Rotated, Replacing

\* A browser sends a request.
LEMMA SendRemembers ==
  ASSUME WebTypes, WebTypes', RememberInv, NEW s \in Servers, NEW b \in Browsers, SendRequest(b, s)
  PROVE  RememberInv'
<1>1. PICK sort \in Kinds :
        request' = [request EXCEPT ![s] = [NoRequest EXCEPT
         !.at = "authenticate", !.from = b, !.kind = sort, !.session = browser[b].session,
         !.remember = browser[b].remember, !.csrf = browser[b].form,
         !.began = revocations.ended]]
  BY DEF SendRequest
<1> DEFINE new == [NoRequest EXCEPT
         !.at = "authenticate", !.from = b, !.kind = sort, !.session = browser[b].session,
         !.remember = browser[b].remember, !.csrf = browser[b].form,
         !.began = revocations.ended]
<1>2. /\ request' = [request EXCEPT ![s] = new]
      /\ new.at = "authenticate" /\ new.from = b /\ new.remember = browser[b].remember
      /\ new.todo = <<>> /\ new.cookies.remember = -1 /\ new.rotated = FALSE
  BY <1>1 DEF NoRequest
<1> HIDE DEF new
<1>3. PICK r \in Requests :
        /\ request' = [request EXCEPT ![s] = r]
        /\ r.at = "authenticate" /\ r.from = b /\ r.remember = browser[b].remember
        /\ r.todo = <<>> /\ r.cookies.remember = -1 /\ r.rotated = FALSE
  <2>1. new \in Requests
    BY <1>2 DEF WebTypes
  <2> QED
    BY <1>2, <2>1
<1>4. /\ request'[s] = r /\ \A t \in Servers : t # s => request'[t] = request[t]
      /\ r.todo = <<>> => Ahead(s)' = {} /\ KnownTo(s)' = {r.remember}
      /\ Brings(s)' = r.cookies.remember
      /\ r.rotated = FALSE => s \notin Rotated'
  BY <1>3, RequestBecomes, Zenon
<1>5. /\ Ahead(s)' = {} /\ KnownTo(s)' = {browser[b].remember} /\ Brings(s)' = -1
      /\ s \notin Rotated'
  BY <1>3, <1>4
<1>6. browser' = browser /\ web_remember_tokens' = web_remember_tokens
  BY DEF SendRequest, rowsUnchanged
<1>7. s \in Staged'
  BY <1>3, <1>4, <1>5 DEF Staged
<1>8. \A c \in Browsers : s \notin Replacing(c)
  BY EarlyStage DEF SendRequest
<1>9. Excused' = Excused
  BY <1>6 DEF Excused
<1>10. \A i \in Nat \ {0} : i \in KnownTo(s)' =>
         \E c \in Browsers : c = request'[s].from /\ browser[c].remember = i
  BY <1>3, <1>4, <1>5
<1>11. \A i : <<"revoke_token", i>> \notin Ahead(s)' /\ <<"all_tokens", i>> \notin Ahead(s)'
  BY <1>5
<1>12. ~ (Brings(s)' > 0)
  BY <1>5
<1> QED
  BY <1>4, <1>6, <1>7, <1>8, <1>9, <1>10, <1>11, <1>12, QuietRequest

\* The session is found, or the token is about to be replaced, or neither is live.
LEMMA AuthenticateRemembers ==
  ASSUME WebTypes, WebTypes', RememberInv, NEW s \in Servers, authenticate_request(s)
  PROVE  RememberInv'
<1> DEFINE old == request[s]
           redirect == [NoRequest EXCEPT !.at = "respond", !.from = old.from]
           known == [old EXCEPT !.at = "handle", !.as = old.session]
           rotation == <<<<"revoke_token", old.remember>>, <<"new_session", 0>>, <<"new_token", 0>>>>
           rotating == [old EXCEPT !.at = "handle", !.rotated = TRUE, !.todo = rotation]
           asked == [redirect EXCEPT !.at = "password", !.began = old.began]
<1>1. /\ old \in Requests /\ old.at = "authenticate" /\ old.todo = <<>>
      /\ old.cookies.remember = -1 /\ old.rotated = FALSE
      /\ Ahead(s) = {} /\ KnownTo(s) = {old.remember} /\ \A b \in Browsers : s \notin Replacing(b)
  <2>1. old \in Requests /\ old.at = "authenticate"
    BY DEF WebTypes, authenticate_request
  <2> QED
    BY <2>1, EarlyStage
<1>2. old.from \in Browsers /\ old.remember \in Nat
  <2>1. s \in Staged
    BY DEF RememberInv
  <2> QED
    BY <1>1, <2>1 DEF Staged, Requests
<1>3. \E r \in {redirect, known, rotating, asked} : request' = [request EXCEPT ![s] = r]
  BY DEF authenticate_request
<1>4. /\ redirect.at = "respond" /\ redirect.from = old.from /\ redirect.remember = 0
      /\ redirect.todo = <<>> /\ redirect.cookies.remember = -1 /\ redirect.rotated = FALSE
  BY DEF NoRequest
<1>5. /\ asked.at = "password" /\ asked.from = old.from /\ asked.remember = 0
      /\ asked.todo = <<>> /\ asked.cookies.remember = -1 /\ asked.rotated = FALSE
  BY DEF NoRequest
<1>6. /\ known.at = "handle" /\ known.from = old.from /\ known.remember = old.remember
      /\ known.todo = <<>> /\ known.cookies.remember = -1 /\ known.rotated = FALSE
  BY <1>1 DEF Requests
<1>7. /\ rotating.at = "handle" /\ rotating.from = old.from /\ rotating.remember = old.remember
      /\ rotating.todo = rotation /\ rotating.cookies.remember = -1 /\ rotating.rotated = TRUE
  BY <1>1 DEF Requests
<1> DEFINE due == <<"revoke_token", old.remember>>
           entered == <<"new_session", 0>>
           replaced == <<"new_token", 0>>
<1>8. /\ Items(rotation) = {due, entered, replaced}
      /\ \A i : /\ <<"revoke_token", i>> \in Items(rotation) => i = old.remember
                /\ <<"all_tokens", i>> \notin Items(rotation)
      /\ <<"new_token", 0>> \in Items(rotation)
  <2>1. Items(<<due, entered, replaced>>) = {due, entered, replaced}
    <3> HIDE DEF due, entered, replaced
    <3> QED
      BY ThreeItems
  <2> QED
    BY <2>1
<1> HIDE DEF redirect, known, rotating, asked, rotation
<1>9. PICK r \in Requests :
        /\ request' = [request EXCEPT ![s] = r]
        /\ r.at \in {"respond", "password", "handle"} /\ r.from = old.from
        /\ r.remember \in {0, old.remember} /\ r.cookies.remember = -1
        /\ \/ r.todo = <<>> /\ r.rotated = FALSE
           \/ r.todo = rotation /\ r.rotated = TRUE /\ r.at = "handle"
  <2>1. PICK r \in {redirect, known, rotating, asked} : request' = [request EXCEPT ![s] = r]
    BY <1>3
  <2>2. r \in Requests
    BY <2>1 DEF WebTypes
  <2> QED
    BY <1>4, <1>5, <1>6, <1>7, <2>1, <2>2
<1>10. /\ request'[s] = r /\ \A t \in Servers : t # s => request'[t] = request[t]
       /\ Ahead(s)' = Items(r.todo) /\ Brings(s)' = r.cookies.remember
       /\ KnownTo(s)' = {r.remember} \cup {i \in Nat : <<"revoke_token", i>> \in Items(r.todo)}
       /\ r.todo = <<>> => Ahead(s)' = {} /\ KnownTo(s)' = {r.remember}
       /\ r.rotated = FALSE => s \notin Rotated'
       /\ r.rotated = TRUE => s \in Rotated'
  BY <1>9, RequestBecomes, Zenon
<1>11. browser' = browser /\ web_remember_tokens' = web_remember_tokens
  BY DEF authenticate_request, rowsUnchanged
<1>12. Excused' = Excused
  BY <1>11 DEF Excused
<1>13. \A i \in Nat \ {0} : i \in KnownTo(s)' => i \in KnownTo(s)
  BY <1>1, <1>8, <1>9, <1>10
<1>14. s \in Staged'
  BY <1>2, <1>8, <1>9, <1>10 DEF Staged
<1>15. <<"all_tokens", 0>> \notin Ahead(s)'
  BY <1>8, <1>9, <1>10
<1>16. ASSUME NEW b \in Browsers, NEW i \in Nat \ {0}, browser[b].remember = i,
              <<"revoke_token", i>> \in Ahead(s)'
       PROVE  s \in Replacing(b)'
  <2>1. i = old.remember /\ r.at = "handle" /\ s \in Rotated'
    BY <1>8, <1>9, <1>10, <1>16
  <2>2. old.from = b
    BY <1>1, <1>16, <2>1 DEF RememberInv, OneHolder
  <2> QED
    BY <1>9, <1>10, <2>1, <2>2 DEF Replacing
<1>17. ~ (Brings(s)' > 0)
  BY <1>9, <1>10
<1> QED
  BY <1>1, <1>9, <1>10, <1>11, <1>12, <1>13, <1>14, <1>15, <1>16, <1>17, QuietRequest

\* A login answers, and has a session and perhaps a token to make.
LEMMA LoginRemembers ==
  ASSUME WebTypes, WebTypes', RememberInv, NEW s \in Servers, login(s)
  PROVE  RememberInv'
<1> DEFINE old == request[s]
           one == <<<<"new_session", 0>>>>
           two == <<<<"new_session", 0>>, <<"new_token", 0>>>>
           answer == [old EXCEPT !.at = "respond"]
           let_in(commits) == [old EXCEPT !.at = "respond", !.todo = commits]
<1>1. /\ old \in Requests /\ old.at = "password" /\ old.todo = <<>>
      /\ old.cookies.remember = -1 /\ old.rotated = FALSE
      /\ KnownTo(s) = {old.remember} /\ \A b \in Browsers : s \notin Replacing(b)
  <2>1. old \in Requests /\ old.at = "password"
    BY DEF WebTypes, login
  <2> QED
    BY <2>1, EarlyStage
<1>2. old.from \in Browsers
  <2>1. s \in Staged
    BY DEF RememberInv
  <2> QED
    BY <1>1, <2>1 DEF Staged, Requests
<1>3. \E r \in {answer, let_in(one), let_in(two)} : request' = [request EXCEPT ![s] = r]
  BY DEF login
<1>4. /\ answer.todo = <<>> /\ let_in(one).todo = one /\ let_in(two).todo = two
      /\ \A r \in {answer, let_in(one), let_in(two)} :
           /\ r.at = "respond" /\ r.from = old.from /\ r.remember = old.remember
           /\ r.cookies.remember = -1 /\ r.rotated = FALSE
  BY <1>1 DEF Requests
<1>5. \A i : \A todo \in {<<>>, one, two} :
        <<"revoke_token", i>> \notin Items(todo) /\ <<"all_tokens", i>> \notin Items(todo)
  <2> DEFINE entered == <<"new_session", 0>>
             replaced == <<"new_token", 0>>
  <2>1. Items(<<entered>>) = {entered} /\ Items(<<entered, replaced>>) = {entered, replaced}
    <3> HIDE DEF entered, replaced
    <3> QED
      BY OneItem, TwoItems
  <2>2. Items(<<>>) = {}
    BY NoItems
  <2> QED
    BY <2>1, <2>2
<1> HIDE DEF answer, let_in, one, two
<1>6. PICK r \in Requests :
        /\ request' = [request EXCEPT ![s] = r]
        /\ r.at = "respond" /\ r.from = old.from /\ r.remember = old.remember
        /\ r.todo \in {<<>>, one, two} /\ r.cookies.remember = -1 /\ r.rotated = FALSE
  <2>1. PICK r \in {answer, let_in(one), let_in(two)} : request' = [request EXCEPT ![s] = r]
    BY <1>3
  <2>2. r \in Requests
    BY <2>1 DEF WebTypes
  <2> QED
    BY <1>4, <2>1, <2>2
<1>7. /\ request'[s] = r /\ \A t \in Servers : t # s => request'[t] = request[t]
      /\ Ahead(s)' = Items(r.todo) /\ Brings(s)' = r.cookies.remember
      /\ KnownTo(s)' = {r.remember} \cup {i \in Nat : <<"revoke_token", i>> \in Items(r.todo)}
      /\ r.rotated = FALSE => s \notin Rotated'
  BY <1>6, RequestBecomes, Zenon
<1>8. browser' = browser /\ web_remember_tokens' = web_remember_tokens
  BY DEF login, rowsUnchanged
<1>9. Excused' = Excused
  BY <1>8 DEF Excused
<1>10. \A i \in Nat \ {0} : i \in KnownTo(s)' => i \in KnownTo(s)
  BY <1>1, <1>5, <1>6, <1>7
<1>11. s \in Staged'
  BY <1>2, <1>6, <1>7 DEF Staged
<1>12. \A i : <<"revoke_token", i>> \notin Ahead(s)' /\ <<"all_tokens", i>> \notin Ahead(s)'
  BY <1>5, <1>6, <1>7
<1>13. ~ (Brings(s)' > 0)
  BY <1>6, <1>7
<1> QED
  BY <1>1, <1>6, <1>7, <1>8, <1>9, <1>10, <1>11, <1>12, <1>13, QuietRequest

\* A lost request that had rotated the token of its browser leaves an excuse.
LEMMA LossRemembers ==
  ASSUME WebTypes, WebTypes', RememberInv, NEW s \in Servers, LoseRequest(s)
  PROVE  RememberInv'
<1>1. /\ NoRequest.at = "idle" /\ NoRequest.remember = 0 /\ NoRequest.todo = <<>>
      /\ NoRequest.cookies.remember = -1 /\ NoRequest.rotated = FALSE
  BY DEF NoRequest
<1>2. request' = [request EXCEPT ![s] = NoRequest] /\ NoRequest \in Requests
  <2>1. request' = [request EXCEPT ![s] = NoRequest]
    BY DEF LoseRequest
  <2> QED
    BY <2>1 DEF WebTypes
<1>3. /\ request'[s] = NoRequest /\ \A t \in Servers : t # s => request'[t] = request[t]
      /\ NoRequest.todo = <<>> => Ahead(s)' = {} /\ KnownTo(s)' = {NoRequest.remember}
      /\ Brings(s)' = NoRequest.cookies.remember
      /\ NoRequest.rotated = FALSE => s \notin Rotated'
  BY <1>2, RequestBecomes, Zenon
<1>4. Ahead(s)' = {} /\ KnownTo(s)' = {0} /\ Brings(s)' = -1 /\ s \notin Rotated'
  BY <1>1, <1>3
<1>5. s \in Staged'
  BY <1>1, <1>3, <1>4 DEF Staged
<1>6. web_remember_tokens' = web_remember_tokens
  BY DEF LoseRequest, rowsUnchanged
<1>7. ASSUME NEW b \in Browsers
      PROVE  /\ browser'[b].remember = browser[b].remember
             /\ b \in Excused => b \in Excused'
             /\ s \in Replacing(b) => b \in Excused'
  <2>1. /\ browser[b] \in BrowserStates
        /\ browser'[b] = [browser[b] EXCEPT !.excuse = @ \/ (b = request[s].from /\ request[s].rotated)]
    BY DEF LoseRequest, WebTypes
  <2>2. /\ browser'[b].remember = browser[b].remember
        /\ browser'[b].excuse = (browser[b].excuse \/ (b = request[s].from /\ request[s].rotated))
    BY <2>1 DEF BrowserStates
  <2> QED
    BY <2>2, Zenon DEF Excused, Replacing, Rotated
<1>8. Excused \subseteq Excused'
  BY <1>7 DEF Excused
<1>9. \A i : <<"revoke_token", i>> \notin Ahead(s)' /\ <<"all_tokens", i>> \notin Ahead(s)'
  BY <1>4
<1>10. ~ (Brings(s)' > 0) /\ \A i \in Nat \ {0} : i \notin KnownTo(s)'
  BY <1>4
<1> QED
  BY <1>3, <1>5, <1>6, <1>7, <1>8, <1>9, <1>10, QuietRequest

\* A route answers with the cookies of a rotation or leaves an excuse, and what
\* it is going to revoke is its own browser's.
LEMMA RouteRemembers ==
  ASSUME WebTypes, WebTypes', RememberInv, NEW s \in Servers, HandleRoute(s)
  PROVE  RememberInv'
<1> DEFINE old == request[s]
           accepts(post) == old.kind \notin {"page", "login"} /\ post /\ old.csrf = old.as
           commits(post) == IF ~accepts(post) THEN <<>>
                            ELSE CASE old.kind = "logout" -> logout(old)
                                   [] old.kind = "revoke_remember" -> revoke_current_remember_token(old)
                                   [] old.kind = "revoke_all" -> RevokeAllCommits
           kept(post) == IF ~CookiesKept(old.kind, accepts(post)) THEN NoRequest.cookies
                         ELSE [session |-> IF accepts(post) /\ old.kind # "revoke_remember" THEN 0
                                           ELSE old.cookies.session,
                               remember |-> IF accepts(post) THEN 0 ELSE old.cookies.remember]
           answer(post) == [NoRequest EXCEPT
                     !.at = "respond", !.from = old.from, !.rotated = old.rotated,
                     !.todo = commits(post), !.as = IF old.kind = "page" THEN old.as ELSE 0,
                     !.cookies = kept(post)]
           blamed(b, post) == \/ browser[b].excuse
                              \/ accepts(post) /\ old.kind = "revoke_all"
                              \/ /\ b = old.from /\ old.kind \notin {"page", "login"}
                                 /\ accepts(post) \/ old.rotated
<1>1. PICK post \in BOOLEAN :
        /\ request' = [request EXCEPT ![s] = answer(post)]
        /\ browser' = [b \in Browsers |-> [browser[b] EXCEPT !.excuse = blamed(b, post)]]
  BY DEF HandleRoute, NoRequest
<1> DEFINE accepted == accepts(post)
           ahead == commits(post)
           cookies == kept(post)
<1>2. old \in Requests /\ old.at = "handle" /\ old.todo = <<>> /\ old.remember \in Nat
  BY Zenon DEF WebTypes, HandleRoute, Requests
<1>3. /\ old.from \in Browsers /\ Ahead(s) = {} /\ KnownTo(s) = {old.remember}
      /\ s \in Rotated => Brings(s) > 0
  <2>1. s \in Staged /\ Ahead(s) = {}
    BY <1>2, NoItems DEF RememberInv, Ahead
  <2> QED
    BY <1>2, <2>1 DEF Staged, KnownTo
<1> DEFINE gone == <<"revoke_session", old.session>>
           due == <<"revoke_token", old.remember>>
<1>4. \/ ~accepted /\ Items(ahead) = {}
      \/ accepted /\ Items(ahead) \subseteq {gone, due}
      \/ /\ accepted /\ old.kind = "revoke_all"
         /\ Items(ahead) = {<<"all_sessions", 0>>, <<"all_tokens", 0>>}
  <2>1. CASE ~accepted
    BY <2>1, NoItems
  <2>2. CASE accepted /\ old.kind = "logout"
    <3>1. ahead = <<gone, due>>
      BY <2>2 DEF logout
    <3>2. Items(<<gone, due>>) = {gone, due}
      <4> HIDE DEF gone, due
      <4> QED
        BY TwoItems
    <3> QED
      BY <2>2, <3>1, <3>2
  <2>3. CASE accepted /\ old.kind = "revoke_remember"
    <3>1. ahead = <<due>>
      BY <2>3 DEF revoke_current_remember_token
    <3>2. Items(<<due>>) = {due}
      <4> HIDE DEF due
      <4> QED
        BY OneItem
    <3> QED
      BY <2>3, <3>1, <3>2
  <2>4. CASE accepted /\ old.kind = "revoke_all"
    <3> DEFINE first == <<"all_sessions", 0>>
               second == <<"all_tokens", 0>>
    <3>1. ahead = <<first, second>>
      BY <2>4 DEF RevokeAllCommits
    <3>2. Items(<<first, second>>) = {first, second}
      <4> HIDE DEF first, second
      <4> QED
        BY TwoItems
    <3> QED
      BY <2>4, <3>1, <3>2
  <2> QED
    BY <1>2, <2>1, <2>2, <2>3, <2>4 DEF Requests, Kinds
<1>5. /\ \A i : <<"revoke_token", i>> \in Items(ahead) => i = old.remember /\ accepted
      /\ \A i : <<"all_tokens", i>> \in Items(ahead) => accepted /\ old.kind = "revoke_all"
  <2> HIDE DEF accepts, commits, kept
  <2> QED
    BY <1>4
<1>6. /\ accepted => old.kind \notin {"page", "login"}
      /\ cookies.remember \in {-1, 0, old.cookies.remember}
      /\ old.kind \in {"page", "login"} => cookies.remember = old.cookies.remember
  BY DEF CookiesKept, NoRequest
<1> HIDE DEF accepts, commits, kept
<1>7. PICK r \in Requests :
        /\ request' = [request EXCEPT ![s] = r]
        /\ r.at = "respond" /\ r.from = old.from /\ r.remember = 0 /\ r.rotated = old.rotated
        /\ r.todo = ahead /\ r.cookies = cookies
  <2>1. /\ answer(post).at = "respond" /\ answer(post).from = old.from /\ answer(post).remember = 0
        /\ answer(post).rotated = old.rotated /\ answer(post).todo = ahead
        /\ answer(post).cookies = cookies
    BY DEF NoRequest
  <2> HIDE DEF answer
  <2>2. answer(post) \in Requests
    BY <1>1 DEF WebTypes
  <2> QED
    BY <1>1, <2>1, <2>2
<1>8. /\ request'[s] = r /\ \A t \in Servers : t # s => request'[t] = request[t]
      /\ Ahead(s)' = Items(r.todo) /\ Brings(s)' = r.cookies.remember
      /\ KnownTo(s)' = {r.remember} \cup {i \in Nat : <<"revoke_token", i>> \in Items(r.todo)}
      /\ r.rotated = FALSE => s \notin Rotated'
      /\ r.rotated = TRUE => s \in Rotated'
  BY <1>7, RequestBecomes, Zenon
<1>9. ASSUME NEW b \in Browsers
      PROVE  /\ browser'[b].remember = browser[b].remember
             /\ browser'[b].excuse = blamed(b, post)
  <2>1. /\ browser[b] \in BrowserStates
        /\ browser'[b] = [browser[b] EXCEPT !.excuse = blamed(b, post)]
    BY <1>1 DEF WebTypes
  <2> HIDE DEF blamed
  <2> QED
    BY <2>1 DEF BrowserStates
<1>10. web_remember_tokens' = web_remember_tokens
  BY DEF HandleRoute, rowsUnchanged
<1>11. Excused \subseteq Excused'
  BY <1>9, Zenon DEF Excused
<1>12. \A i \in Nat \ {0} : i \in KnownTo(s)' => i \in KnownTo(s)
  BY <1>3, <1>5, <1>7, <1>8
<1>13. Brings(s)' > 0 => Brings(s)' = Brings(s)
  BY <1>6, <1>7, <1>8 DEF Brings
<1>14. <<"all_tokens", 0>> \in Ahead(s)' => Excused' = Browsers
  <2>1. <<"all_tokens", 0>> \in Ahead(s)' => accepted /\ old.kind = "revoke_all"
    BY <1>5, <1>7, <1>8, Zenon
  <2> QED
    BY <1>9, <2>1, Zenon DEF Excused
<1>15. s \in Staged'
  BY <1>3, <1>7, <1>8 DEF Staged
<1>16. ASSUME NEW b \in Browsers, b = old.from, old.kind \notin {"page", "login"},
              accepted \/ old.rotated
       PROVE  b \in Excused'
  BY <1>9, <1>16, Zenon DEF Excused
<1>17. ASSUME NEW b \in Browsers, s \in Replacing(b)
       PROVE  s \in Replacing(b)' \/ b \in Excused'
  <2>1. b = old.from /\ old.rotated /\ Brings(s) > 0
    BY <1>3, <1>17 DEF Replacing, Rotated
  <2>2. CASE old.kind \in {"page", "login"}
    <3>1. Brings(s)' = Brings(s)
      BY <1>6, <1>7, <1>8, <2>2 DEF Brings
    <3>2. s \in Rotated'
      BY <1>2, <1>7, <1>8, <2>1 DEF Requests
    <3> QED
      BY <1>7, <1>8, <2>1, <3>1, <3>2 DEF Replacing
  <2> QED
    BY <1>16, <2>1, <2>2
<1>18. ASSUME NEW b \in Browsers, NEW i \in Nat \ {0}, browser[b].remember = i,
              <<"revoke_token", i>> \in Ahead(s)'
       PROVE  b \in Excused'
  <2>1. i = old.remember /\ accepted /\ old.kind \notin {"page", "login"}
    BY <1>5, <1>6, <1>7, <1>8, <1>18
  <2>2. old.from = b
    BY <1>3, <1>18, <2>1 DEF RememberInv, OneHolder
  <2> QED
    BY <1>16, <2>1, <2>2
<1> QED
  BY <1>7, <1>8, <1>9, <1>10, <1>11, <1>12, <1>13, <1>14, <1>15, <1>17, <1>18, QuietRequest

\* A commit revokes what was due, or makes the token that the response brings.
LEMMA CommitRemembers ==
  ASSUME WebTypes, WebTypes', RememberInv, NEW s \in Servers, Commit(s)
  PROVE  RememberInv'
<1> DEFINE old == request[s]
           step == Head(old.todo)[1]
           row == Head(old.todo)[2]
           done == [old EXCEPT !.todo = Tail(@)]
           entered == [done EXCEPT !.cookies.session = Len(web_sessions) + 1,
                                   !.as = Len(web_sessions) + 1]
           made == Len(web_remember_tokens) + 1
           renewed == [done EXCEPT !.cookies.remember = made]
<1>1. /\ old \in Requests /\ old.todo # <<>> /\ web_remember_tokens \in Seq(Row)
      /\ browser' = browser
      /\ web_remember_tokens' = CASE step = "new_token" -> save_remember_token(s)
                                   [] step = "revoke_token" -> Revoked(web_remember_tokens, row)
                                   [] step = "all_tokens" -> AllRevoked(web_remember_tokens)
                                   [] OTHER -> web_remember_tokens
      /\ request' = [request EXCEPT ![s] = CASE step = "new_session" -> entered
                                             [] step = "new_token" -> renewed
                                             [] OTHER -> done]
  BY DEF Commit, WebTypes
\* The next commit is one of the commits there are.
<1>2. /\ Ahead(s) = {Head(old.todo)} \cup Items(Tail(old.todo))
      /\ \/ Head(old.todo) \in PlainCommits
         \/ Head(old.todo) \in {<<"all_sessions", 0>>, <<"all_tokens", 0>>}
  <2> DEFINE a == <<"all_sessions", 0>>
             b == <<"all_tokens", 0>>
             S == {a, b}
             ahead == old.todo
  <2>1. ahead # <<>> /\ Ahead(s) = Items(ahead)
    BY <1>1 DEF Ahead
  <2>2. CASE ahead \in Seq(PlainCommits)
    <3> HIDE DEF ahead
    <3>1. /\ Head(ahead) \in PlainCommits
          /\ Items(ahead) = {Head(ahead)} \cup Items(Tail(ahead))
      BY <2>1, <2>2, NextItem
    <3> QED
      BY <2>1, <3>1 DEF ahead
  <2>3. CASE ahead \in {RevokeAllCommits, LastHalf}
    <3>1. RevokeAllCommits = <<a, b>> /\ LastHalf = <<b>>
      BY DEF RevokeAllCommits, LastHalf
    <3>2. <<a, b>> \in Seq(S) /\ <<b>> \in Seq(S)
      <4> HIDE DEF a, b
      <4> QED
        OBVIOUS
    <3>3. ahead \in Seq(S)
      BY <2>3, <3>1, <3>2
    <3> HIDE DEF ahead, S
    <3>4. Head(ahead) \in S /\ Items(ahead) = {Head(ahead)} \cup Items(Tail(ahead))
      BY <2>1, <3>3, NextItem
    <3> QED
      BY <2>1, <3>4 DEF S, ahead
  <2>4. ahead \in {RevokeAllCommits, LastHalf} \cup Seq(PlainCommits)
    BY <1>1 DEF Requests
  <2> QED
    BY <2>2, <2>3, <2>4
<1>3. /\ done.at = old.at /\ done.from = old.from /\ done.remember = old.remember
      /\ done.rotated = old.rotated /\ done.todo = Tail(old.todo) /\ done.cookies = old.cookies
  BY <1>1 DEF Requests
<1>4. /\ entered.at = old.at /\ entered.from = old.from /\ entered.remember = old.remember
      /\ entered.rotated = old.rotated /\ entered.todo = Tail(old.todo)
      /\ entered.cookies.remember = old.cookies.remember
  BY <1>1 DEF Requests
<1>5. /\ renewed.at = old.at /\ renewed.from = old.from /\ renewed.remember = old.remember
      /\ renewed.rotated = old.rotated /\ renewed.todo = Tail(old.todo)
      /\ renewed.cookies.remember = made
  BY <1>1 DEF Requests
<1>6. old.at \notin {"idle", "authenticate", "password"} /\ old.from \in Browsers
  <2>1. s \in Staged
    BY DEF RememberInv
  <2> QED
    BY <1>1, <2>1 DEF Staged, Requests
<1> HIDE DEF done, entered, renewed
<1>7. PICK r \in Requests :
        /\ request' = [request EXCEPT ![s] = r]
        /\ r.at = old.at /\ r.from = old.from /\ r.remember = old.remember
        /\ r.rotated = old.rotated /\ r.todo = Tail(old.todo)
        /\ r.cookies.remember = IF step = "new_token" THEN made ELSE old.cookies.remember
  <2> DEFINE new == CASE step = "new_session" -> entered
                      [] step = "new_token" -> renewed
                      [] OTHER -> done
  <2>1. /\ new.at = old.at /\ new.from = old.from /\ new.remember = old.remember
        /\ new.rotated = old.rotated /\ new.todo = Tail(old.todo)
        /\ new.cookies.remember = IF step = "new_token" THEN made ELSE old.cookies.remember
    BY <1>3, <1>4, <1>5
  <2>2. request' = [request EXCEPT ![s] = new]
    BY <1>1
  <2> HIDE DEF new
  <2>3. new \in Requests
    BY <2>2 DEF WebTypes
  <2> QED
    BY <2>1, <2>2, <2>3
<1>8. /\ request'[s] = r /\ \A t \in Servers : t # s => request'[t] = request[t]
      /\ Ahead(s)' = Items(r.todo) /\ Brings(s)' = r.cookies.remember
      /\ KnownTo(s)' = {r.remember} \cup {i \in Nat : <<"revoke_token", i>> \in Items(r.todo)}
      /\ r.rotated = FALSE => s \notin Rotated'
      /\ r.rotated = TRUE => s \in Rotated'
  BY <1>7, RequestBecomes, ZenonT(60)
<1>9. /\ Excused' = Excused /\ Ahead(s)' \subseteq Ahead(s) /\ KnownTo(s)' \subseteq KnownTo(s)
      /\ \A b \in Browsers : browser'[b].remember = browser[b].remember
  <2>1. Excused' = Excused
    BY <1>1 DEF Excused
  <2>2. Ahead(s)' \subseteq Ahead(s)
    BY <1>2, <1>7, <1>8
  <2> QED
    BY <1>1, <1>7, <1>8, <2>1, <2>2 DEF KnownTo
<1>10. s \in Rotated' <=> s \in Rotated
  BY <1>7, <1>8 DEF Rotated
<1>11. CASE step # "new_token"
  <2>1. Brings(s)' = Brings(s)
    BY <1>7, <1>8, <1>11 DEF Brings
  <2>2. s \in Staged'
    <3>1. s \in Staged
      BY DEF RememberInv
    <3>2. \A n \in Nat : <<"new_token", n>> \in Ahead(s) => <<"new_token", n>> \in Ahead(s)'
      BY <1>2, <1>7, <1>8, <1>11
    <3> QED
      BY <1>6, <1>7, <1>8, <1>10, <2>1, <3>1, <3>2 DEF Staged
  <2>3. \A b \in Browsers : s \in Replacing(b) => s \in Replacing(b)'
    BY <1>7, <1>8, <1>10, <2>1 DEF Replacing
  <2>4. DOMAIN web_remember_tokens' = DOMAIN web_remember_tokens
    BY <1>1, <1>11, RevokedRows DEF Fewer
  <2>5. ASSUME NEW i \in DOMAIN web_remember_tokens, web_remember_tokens'[i] = Dead
        PROVE  \/ web_remember_tokens[i] = Dead \/ <<"revoke_token", i>> \in Ahead(s)
               \/ Excused' = Browsers
    <3>1. CASE step = "revoke_token"
      <4>1. web_remember_tokens[i] = Dead \/ i = row
        BY <1>1, <2>5, <3>1 DEF Revoked
      <4>2. <<"revoke_token", row>> \in Ahead(s)
        BY <1>2, <3>1 DEF PlainCommits
      <4> QED
        BY <4>1, <4>2
    <3>2. CASE step = "all_tokens"
      <4>1. <<"all_tokens", 0>> \in Ahead(s)
        BY <1>2, <3>2 DEF PlainCommits
      <4> QED
        BY <1>9, <4>1 DEF RememberInv, RevokedAllIsExcused
    <3>3. CASE step \notin {"revoke_token", "all_tokens"}
      BY <1>1, <1>11, <2>5, <3>3
    <3> QED
      BY <3>1, <3>2, <3>3
  <2>6. <<"all_tokens", 0>> \in Ahead(s)' => Excused' = Browsers
    BY <1>9 DEF RememberInv, RevokedAllIsExcused
  <2>7. request'[s].from = request[s].from
    BY <1>7, <1>8
  <2> QED
    BY <1>8, <1>9, <2>1, <2>2, <2>3, <2>4, <2>5, <2>6, <2>7, QuietRequest
\* The new token is nobody's yet.
<1>12. CASE step = "new_token"
  <2>1. /\ made \in Nat \ {0} /\ made \notin DOMAIN web_remember_tokens
        /\ DOMAIN web_remember_tokens' = DOMAIN web_remember_tokens \cup {made}
        /\ web_remember_tokens'[made] # Dead
        /\ \A i \in DOMAIN web_remember_tokens : web_remember_tokens'[i] = web_remember_tokens[i]
    <3>1. NewRow(s) # Dead
      BY DEF NewRow, Dead
    <3>2. web_remember_tokens' = Append(web_remember_tokens, NewRow(s))
      BY <1>1, <1>12 DEF save_remember_token
    <3> QED
      BY SMTT(60), <1>1, <3>1, <3>2
  <2>2. PICK j : j = made
    OBVIOUS
  <2> HIDE DEF made
  <2>3. Brings(s)' = j
    BY <1>7, <1>8, <1>12, <2>2
  <2>4. /\ \A b \in Browsers : browser[b].remember # j
        /\ \A t \in Servers : j \notin KnownTo(t) /\ Brings(t) # j
    BY <2>1, <2>2 DEF RememberInv, TokensExist
  <2>5. \A t \in Servers : t # s =>
          /\ Ahead(t)' = Ahead(t) /\ KnownTo(t)' = KnownTo(t) /\ Brings(t)' = Brings(t)
          /\ request'[t].from = request[t].from
          /\ t \in Staged => t \in Staged'
    BY <1>8 DEF Ahead, KnownTo, Brings, Rotated, Staged
  <2>6. \A t \in Servers : KnownTo(t)' \subseteq KnownTo(t) /\ request'[t].from = request[t].from
    BY <1>7, <1>8, <1>9, <2>5
  <2>7. TokensExist'
    <3>1. ASSUME NEW t \in Servers, NEW i \in Nat \ {0}, i \in KnownTo(t)' \/ Brings(t)' = i
          PROVE  i \in KnownTo(t) \/ Brings(t) = i \/ i = j
      BY <2>3, <2>5, <2>6, <3>1
    <3> QED
      BY <1>9, <2>1, <2>2, <3>1 DEF RememberInv, TokensExist
  <2>8. OneHolder'
    BY <1>9, <2>6 DEF RememberInv, OneHolder
  <2>9. ASSUME NEW u \in Servers, NEW i, i = Brings(u)', i > 0
        PROVE  /\ \A b \in Browsers : browser'[b].remember # i
               /\ \A t \in Servers : i \notin KnownTo(t)' /\ (Brings(t)' = i => t = u)
               /\ web_remember_tokens'[i] = Dead => request'[u].from \in Excused'
    <3>1. CASE u = s
      <4>1. i = j
        BY <2>3, <2>9, <3>1
      <4>2. \A t \in Servers : t # s => Brings(t)' # j
        BY <2>4, <2>5
      <4> QED
        BY <1>9, <2>1, <2>2, <2>4, <2>6, <3>1, <4>1, <4>2
    <3>2. CASE u # s
      <4>1. Brings(u) = i /\ i # j
        BY <2>4, <2>5, <2>9, <3>2
      <4>2. /\ \A b \in Browsers : browser[b].remember # i
            /\ \A t \in Servers : i \notin KnownTo(t) /\ (Brings(t) = i => t = u)
            /\ web_remember_tokens[i] = Dead => request[u].from \in Excused
        BY <2>9, <4>1 DEF RememberInv, CookiesAreSecret
      <4>3. i \in DOMAIN web_remember_tokens
        <5>1. Brings(u) \in Nat \cup {-1}
          BY DEF WebTypes, Requests, Brings
        <5> QED
          BY <2>9, <4>1, <5>1 DEF RememberInv, TokensExist
      <4>4. \A t \in Servers : Brings(t)' = i => t = u
        BY <2>3, <2>5, <4>1, <4>2
      <4> QED
        BY <1>9, <2>1, <2>6, <4>2, <4>3, <4>4
    <3> QED
      BY <3>1, <3>2
  <2>10. CookiesAreSecret'
    BY <2>9 DEF CookiesAreSecret
  <2>11. RevokedAllIsExcused'
    BY <1>9, <2>5 DEF RememberInv, RevokedAllIsExcused
  <2>12. Servers \subseteq Staged'
    <3>1. s \in Staged'
      BY <1>6, <1>7, <1>8, <2>1, <2>2, <2>3 DEF Staged
    <3> QED
      BY <2>5, <3>1 DEF RememberInv
  <2>13. LossIsReplaced'
    <3>1. ASSUME NEW b \in Browsers  PROVE Replacing(b) \subseteq Replacing(b)'
      <4>1. \A t \in Replacing(b) : t # s => t \in Replacing(b)'
        BY <1>8 DEF Replacing, Rotated, Brings
      <4>2. s \in Replacing(b) => s \in Replacing(b)'
        BY <1>7, <1>8, <1>10, <2>1, <2>2, <2>3 DEF Replacing
      <4> QED
        BY <4>1, <4>2
    <3>2. ASSUME NEW i \in DOMAIN web_remember_tokens, i \in Lost'  PROVE i \in Lost
      <4>1. \A t \in Servers : Ahead(t)' \subseteq Ahead(t)
        BY <1>9, <2>5
      <4> QED
        BY <2>1, <3>2, <4>1 DEF Lost
    <3>3. ASSUME NEW b \in Browsers, browser[b].remember # 0
          PROVE  browser[b].remember \in DOMAIN web_remember_tokens
      <4>1. browser[b].remember \in Nat
        BY DEF WebTypes, BrowserStates
      <4> QED
        BY <3>3, <4>1 DEF RememberInv, TokensExist
    <3> QED
      BY <1>9, <3>1, <3>2, <3>3 DEF RememberInv, LossIsReplaced
  <2> QED
    BY SMTT(60), <2>7, <2>8, <2>10, <2>11, <2>12, <2>13 DEF RememberInv
<1> QED
  BY <1>11, <1>12

\* The browser takes the cookies: a token they bring is nobody else's.
LEMMA ResponseRemembers ==
  ASSUME WebTypes, WebTypes', RememberInv, NEW s \in Servers, Respond(s)
  PROVE  RememberInv'
<1>1. PICK h : h = request[s].from
  OBVIOUS
<1>2. PICK n : n = Brings(s)
  OBVIOUS
<1>3. /\ NoRequest.at = "idle" /\ NoRequest.remember = 0 /\ NoRequest.todo = <<>>
      /\ NoRequest.cookies.remember = -1 /\ NoRequest.rotated = FALSE
  BY DEF NoRequest
<1>4. request' = [request EXCEPT ![s] = NoRequest] /\ NoRequest \in Requests
  <2>1. request' = [request EXCEPT ![s] = NoRequest]
    BY DEF Respond
  <2> QED
    BY <2>1 DEF WebTypes
<1>5. /\ request'[s] = NoRequest /\ \A t \in Servers : t # s => request'[t] = request[t]
      /\ NoRequest.todo = <<>> => Ahead(s)' = {} /\ KnownTo(s)' = {NoRequest.remember}
      /\ Brings(s)' = NoRequest.cookies.remember
      /\ NoRequest.rotated = FALSE => s \notin Rotated'
  BY <1>4, RequestBecomes, Zenon
<1>6. Ahead(s)' = {} /\ KnownTo(s)' = {0} /\ Brings(s)' = -1 /\ s \notin Rotated'
  BY <1>3, <1>5
<1>7. s \in Staged'
  BY <1>3, <1>5, <1>6 DEF Staged
<1>8. /\ web_remember_tokens' = web_remember_tokens /\ request[s].at = "respond"
  BY DEF Respond, rowsUnchanged
<1>9. h \in Browsers /\ n \in Nat \cup {-1}
  <2>1. s \in Staged
    BY DEF RememberInv
  <2> QED
    BY <1>1, <1>2, <1>8, <2>1 DEF Staged, Brings, WebTypes, Requests
<1>10. /\ browser'[h].remember = IF n = -1 THEN browser[h].remember ELSE n
       /\ \A b \in Browsers : b # h => browser'[b].remember = browser[b].remember
  <2> DEFINE old == request[s]
  <2>1. browser' = [b \in Browsers |->
          [browser[b] EXCEPT
             !.session = IF b = old.from THEN Cookie(@, old.cookies.session) ELSE @,
             !.remember = IF b = old.from THEN Cookie(@, old.cookies.remember) ELSE @,
             !.form = IF b = old.from /\ old.as # 0 THEN old.as ELSE @]]
    BY DEF Respond
  <2>2. ASSUME NEW b \in Browsers
        PROVE  browser'[b].remember =
                 IF b = old.from THEN Cookie(browser[b].remember, old.cookies.remember)
                 ELSE browser[b].remember
    <3>1. browser[b] \in BrowserStates
      BY DEF WebTypes
    <3> QED
      BY <2>1, <3>1 DEF BrowserStates
  <2> QED
    BY <1>1, <1>2, <1>9, <2>2 DEF Cookie, Brings
<1>11. Excused' = Excused
  <2> SUFFICES ASSUME NEW b \in Browsers  PROVE browser'[b].excuse = browser[b].excuse
    BY DEF Excused
  <2> DEFINE old == request[s]
             session == IF b = old.from THEN Cookie(browser[b].session, old.cookies.session)
                        ELSE browser[b].session
             remember == IF b = old.from THEN Cookie(browser[b].remember, old.cookies.remember)
                         ELSE browser[b].remember
             form == IF b = old.from /\ old.as # 0 THEN old.as ELSE browser[b].form
  <2>1. browser'[b] = [browser[b] EXCEPT !.session = session, !.remember = remember, !.form = form]
    BY DEF Respond
  <2>2. browser[b] \in BrowserStates
    BY DEF WebTypes
  <2> HIDE DEF session, remember, form
  <2> QED
    BY <2>1, <2>2 DEF BrowserStates
<1>12. \A t \in Servers : t # s =>
         /\ Ahead(t)' = Ahead(t) /\ KnownTo(t)' = KnownTo(t) /\ Brings(t)' = Brings(t)
         /\ request'[t].from = request[t].from
         /\ t \in Staged => t \in Staged'
  BY <1>5 DEF Ahead, KnownTo, Brings, Rotated, Staged
<1>13. CASE n = -1
  <2>1. \A b \in Browsers : s \notin Replacing(b)
    <3>1. ~ (Brings(s) > 0)
      BY <1>2, <1>13
    <3> QED
      BY <1>8, <3>1, Zenon DEF Replacing
  <2>2. \A i : <<"revoke_token", i>> \notin Ahead(s)' /\ <<"all_tokens", i>> \notin Ahead(s)'
    BY <1>6
  <2>3. ~ (Brings(s)' > 0) /\ \A i \in Nat \ {0} : i \notin KnownTo(s)'
    BY <1>6
  <2>4. \A b \in Browsers : browser'[b].remember = browser[b].remember
    BY <1>10, <1>13
  <2> QED
    BY <1>5, <1>7, <1>8, <1>11, <2>1, <2>2, <2>3, <2>4, QuietRequest
<1>14. CASE n # -1
  <2>1. n > 0 =>
          /\ n \in DOMAIN web_remember_tokens
          /\ \A b \in Browsers : browser[b].remember # n
          /\ \A t \in Servers : n \notin KnownTo(t) /\ (Brings(t) = n => t = s)
          /\ web_remember_tokens[n] = Dead => h \in Excused
    BY <1>1, <1>2, <1>9 DEF RememberInv, TokensExist, CookiesAreSecret
  <2>2. browser'[h].remember = n /\ n \in Nat
        /\ \A b \in Browsers : b # h => browser'[b].remember = browser[b].remember
    BY <1>9, <1>10, <1>14
  <2>3. ASSUME NEW t \in Servers, NEW i \in Nat \ {0}, i \in KnownTo(t)'
        PROVE  t # s /\ i \in KnownTo(t) /\ request'[t].from = request[t].from
    BY <1>6, <1>12, <2>3
  <2>4. ASSUME NEW t \in Servers, NEW i, i = Brings(t)', i > 0
        PROVE  t # s /\ i = Brings(t) /\ i # n /\ request'[t].from = request[t].from
    <3>1. t # s
      BY <1>6, <2>4
    <3> QED
      BY <1>12, <2>1, <2>4, <3>1
  <2>5. ASSUME NEW b \in Browsers, b # h
        PROVE  browser[b].remember # n \/ n = 0
    BY <1>9, <1>14, <2>1
  <2>6. TokensExist'
    <3> SUFFICES ASSUME NEW i \in Nat \ {0},
                        \/ \E b \in Browsers : browser'[b].remember = i
                        \/ \E t \in Servers : i \in KnownTo(t)' \/ Brings(t)' = i
                 PROVE  i \in DOMAIN web_remember_tokens
      BY <1>8 DEF TokensExist
    <3>1. ASSUME NEW b \in Browsers, browser'[b].remember = i
          PROVE  i \in DOMAIN web_remember_tokens
      <4>1. CASE b = h
        BY <2>1, <2>2, <3>1, <4>1
      <4>2. CASE b # h
        BY <2>2, <3>1, <4>2 DEF RememberInv, TokensExist
      <4> QED
        BY <4>1, <4>2
    <3>2. ASSUME NEW t \in Servers, i \in KnownTo(t)' \/ Brings(t)' = i
          PROVE  i \in DOMAIN web_remember_tokens
      <4>1. i \in KnownTo(t) \/ Brings(t) = i
        BY <2>3, <2>4, <3>2
      <4> QED
        BY <4>1 DEF RememberInv, TokensExist
    <3> QED
      BY <3>1, <3>2
  <2>7. OneHolder'
    <3>1. ASSUME NEW b \in Browsers, NEW i \in Nat \ {0}, i = browser'[b].remember,
                 NEW c \in Browsers, browser'[c].remember = i
          PROVE  c = b
      <4>1. CASE b = h \/ c = h
        BY <2>1, <2>2, <3>1, <4>1
      <4>2. CASE b # h /\ c # h
        BY <2>2, <3>1, <4>2 DEF RememberInv, OneHolder
      <4> QED
        BY <4>1, <4>2
    <3>2. ASSUME NEW b \in Browsers, NEW i \in Nat \ {0}, i = browser'[b].remember,
                 NEW t \in Servers, i \in KnownTo(t)'
          PROVE  request'[t].from = b
      <4>1. i \in KnownTo(t) /\ request'[t].from = request[t].from
        BY <2>3, <3>2
      <4>2. b # h
        BY <2>1, <2>2, <3>2, <4>1
      <4> QED
        BY <2>2, <3>2, <4>1, <4>2 DEF RememberInv, OneHolder
    <3>3. \A b \in Browsers : browser'[b].remember \in Nat
      BY DEF WebTypes, BrowserStates
    <3>4. ASSUME NEW b \in Browsers, browser'[b].remember # 0
          PROVE  /\ \A c \in Browsers : browser'[c].remember = browser'[b].remember => c = b
                 /\ \A t \in Servers : browser'[b].remember \in KnownTo(t)' => request'[t].from = b
      <4>1. PICK i : i = browser'[b].remember
        OBVIOUS
      <4>2. i \in Nat \ {0}
        BY <3>3, <3>4, <4>1
      <4> QED
        BY <3>1, <3>2, <4>1, <4>2
    <3> QED
      BY <3>4 DEF OneHolder
  <2>8. CookiesAreSecret'
    <3>1. ASSUME NEW u \in Servers, NEW i, i = Brings(u)', i > 0
          PROVE  /\ \A b \in Browsers : browser'[b].remember # i
                 /\ \A t \in Servers : i \notin KnownTo(t)' /\ (Brings(t)' = i => t = u)
                 /\ web_remember_tokens'[i] = Dead => request'[u].from \in Excused'
      <4>1. i = Brings(u) /\ i # n /\ request'[u].from = request[u].from
        BY <2>4, <3>1
      <4>2. /\ \A b \in Browsers : browser[b].remember # i
            /\ \A t \in Servers : i \notin KnownTo(t) /\ (Brings(t) = i => t = u)
            /\ web_remember_tokens[i] = Dead => request[u].from \in Excused
        BY <3>1, <4>1 DEF RememberInv, CookiesAreSecret
      <4>3. \A b \in Browsers : browser'[b].remember # i
        BY <2>2, <4>1, <4>2
      <4>4. Brings(u) \in Nat \cup {-1}
        BY DEF WebTypes, Requests, Brings
      <4>5. i \in Nat \ {0}
        BY <3>1, <4>1, <4>4
      <4>6. \A t \in Servers : i \notin KnownTo(t)' /\ (Brings(t)' = i => t = u)
        BY <2>3, <2>4, <3>1, <4>2, <4>5
      <4> QED
        BY <1>8, <1>11, <4>1, <4>2, <4>3, <4>6
    <3> QED
      BY <3>1 DEF CookiesAreSecret
  <2>9. RevokedAllIsExcused'
    BY <1>6, <1>11, <1>12 DEF RememberInv, RevokedAllIsExcused
  <2>10. Servers \subseteq Staged'
    BY <1>7, <1>12 DEF RememberInv
  <2>11. LossIsReplaced'
    <3>1. ASSUME NEW i, i \in Lost'
          PROVE  i \in Lost
      <4>1. \A t \in Servers : Ahead(t)' \subseteq Ahead(t)
        BY <1>6, <1>12
      <4> QED
        BY <1>8, <3>1, <4>1 DEF Lost
    <3>2. ASSUME NEW b \in Browsers, b # h  PROVE Replacing(b) \subseteq Replacing(b)'
      <4>1. s \notin Replacing(b)
        BY <1>1, <3>2 DEF Replacing
      <4>2. \A t \in Replacing(b) : t # s => t \in Replacing(b)'
        BY <1>5 DEF Replacing, Rotated, Brings
      <4> QED
        BY <4>1, <4>2
    <3>3. ASSUME NEW b \in Browsers, NEW i \in Nat \ {0}, i = browser'[b].remember, i \in Lost',
                 b \notin Excused'
          PROVE  Replacing(b)' # {}
      <4>1. i \in Lost
        BY <3>1, <3>3
      <4>2. b # h
        <5>1. n > 0 => n \notin Lost \/ h \in Excused
          BY <2>1 DEF Lost, KnownTo
        <5> QED
          BY <1>9, <1>11, <2>2, <3>3, <4>1, <5>1
      <4>3. Replacing(b) # {}
        BY <1>11, <2>2, <3>3, <4>1, <4>2 DEF RememberInv, LossIsReplaced
      <4> QED
        BY <3>2, <4>2, <4>3
    <3>4. \A b \in Browsers : browser'[b].remember \in Nat
      BY DEF WebTypes, BrowserStates
    <3> SUFFICES ASSUME NEW b \in Browsers, browser'[b].remember # 0,
                        browser'[b].remember \in Lost', b \notin Excused'
                 PROVE  Replacing(b)' # {}
      BY DEF LossIsReplaced
    <3>5. PICK i : i = browser'[b].remember
      OBVIOUS
    <3> QED
      BY <3>3, <3>4, <3>5
  <2> QED
    BY <2>6, <2>7, <2>8, <2>9, <2>10, <2>11 DEF RememberInv
<1> QED
  BY <1>13, <1>14

\* Every step keeps the invariant.
LEMMA RememberStep ==
  ASSUME WebTypes, WebTypes', RememberInv, [WebNext]_webVars
  PROVE  RememberInv'
\* A step that changes no token, no cookie and no request.
<1>1. CASE UNCHANGED <<web_remember_tokens, browser, request>>
  <2>1. Excused' = Excused /\ Rotated' = Rotated /\ Staged' = Staged /\ Lost' = Lost
    BY <1>1 DEF Excused, Rotated, Staged, Lost, Ahead, Brings
  <2>2. /\ \A s \in Servers : Ahead(s)' = Ahead(s) /\ KnownTo(s)' = KnownTo(s) /\ Brings(s)' = Brings(s)
        /\ \A b \in Browsers : Replacing(b)' = Replacing(b)
    BY <1>1 DEF Ahead, KnownTo, Brings, Replacing, Rotated
  <2>3. TokensExist' /\ OneHolder'
    BY <1>1, <2>2 DEF RememberInv, TokensExist, OneHolder
  <2>4. CookiesAreSecret'
    BY <1>1, <2>1, <2>2 DEF RememberInv, CookiesAreSecret
  <2>5. RevokedAllIsExcused' /\ LossIsReplaced'
    BY <1>1, <2>1, <2>2 DEF RememberInv, RevokedAllIsExcused, LossIsReplaced
  <2> QED
    BY <2>1, <2>3, <2>4, <2>5 DEF RememberInv
<1>2. ASSUME NEW i \in DOMAIN web_sessions, ExpireSession(i)
      PROVE  RememberInv'
  BY <1>1, <1>2 DEF ExpireSession
<1>3. CASE set_password
  BY <1>1, <1>3 DEF set_password
<1>4. ASSUME NEW s \in Servers, NEW key \in LoginKeys, WindowMoves(s, key)
      PROVE  RememberInv'
  BY <1>1, <1>4 DEF WindowMoves, rowsUnchanged
<1>5. CASE UNCHANGED webVars
  BY <1>1, <1>5 DEF webVars
<1> QED
  BY <1>2, <1>3, <1>4, <1>5, SendRemembers, AuthenticateRemembers, RouteRemembers,
     CommitRemembers, LoginRemembers, ResponseRemembers, LossRemembers DEF WebNext

(***************************************************************************)
(* LossesAreExplained: a browser with a revoked token that no request of   *)
(* it is about to replace has an excuse, for any number of servers,        *)
(* browsers, requests and restarts.                                        *)
(***************************************************************************)
THEOREM LossesAreExplained == WebSpec => []RememberLossExplained
<1>1. WebInit => WebTypes /\ RememberInv
  <2> SUFFICES ASSUME WebInit  PROVE RememberInv
    BY WebTypesInit
  <2>1. \A s \in Servers :
          /\ request[s].at = "idle" /\ request[s].todo = <<>> /\ request[s].remember = 0
          /\ request[s].cookies.remember = -1 /\ request[s].rotated = FALSE
    BY DEF WebInit, NoRequest
  <2>2. \A s \in Servers : Ahead(s) = {} /\ KnownTo(s) = {0} /\ Brings(s) = -1 /\ s \notin Rotated
    BY <2>1, NoItems DEF Ahead, KnownTo, Brings, Rotated
  <2>3. \A b \in Browsers : browser[b].remember = 0
    BY DEF WebInit
  <2>4. TokensExist /\ OneHolder /\ CookiesAreSecret /\ RevokedAllIsExcused /\ LossIsReplaced
    BY <2>2, <2>3 DEF TokensExist, OneHolder, CookiesAreSecret, RevokedAllIsExcused, LossIsReplaced
  <2>5. Servers \subseteq Staged
    BY <2>1, <2>2 DEF Staged
  <2> QED
    BY <2>4, <2>5 DEF RememberInv
<1>2. WebTypes /\ RememberInv /\ [WebNext]_webVars => (WebTypes /\ RememberInv)'
  BY WebTypesStep, RememberStep
<1>3. WebTypes /\ RememberInv => RememberLossExplained
  <2> SUFFICES ASSUME WebTypes, RememberInv, NEW b \in Browsers, browser[b].remember # 0,
                      \A s \in Servers : request[s].from # b,
                      web_remember_tokens[browser[b].remember] = Dead
               PROVE  browser[b].excuse
    BY DEF RememberLossExplained
  <2>1. browser[b].remember \in Nat
    BY DEF WebTypes, BrowserStates
  <2>2. browser[b].remember \in Lost
    BY <2>1 DEF RememberInv, TokensExist, Lost
  <2>3. Replacing(b) = {}
    BY DEF Replacing, Rotated
  <2> QED
    BY <2>2, <2>3 DEF RememberInv, LossIsReplaced, Excused
<1> QED
  BY <1>1, <1>2, <1>3, PTL DEF WebSpec

=============================================================================
