--------------------------- MODULE SchemaMigrations ---------------------------
(***************************************************************************)
(* Every process of the bot initialises the database when it starts: it    *)
(* reads the schema version once and applies the migrations above it.  A   *)
(* script's statements are committed one by one, all are CREATE ... IF NOT *)
(* EXISTS; indexes are left out.  A start stops where it is when the       *)
(* process dies or the database stays locked for its timeout.              *)
(***************************************************************************)
EXTENDS Integers, SequencesExt

CONSTANTS
  Starters,         \* processes that start
  MaxStarts         \* bound: starts

VARIABLES
  schema_version,   \* the rows of the table
  tables,           \* the tables that exist
  starter,          \* process -> where its start is, the version it read, the statement it is at
  starts            \* history: starts so far

schemaVars == <<schema_version, tables, starter, starts>>

v001_initial ==
  <<"trade_proposals", "proposal_reviews", "intent_reviews", "order_intents",
    "simulated_executions", "simulated_fill_events", "watchlist_entries", "operator_alerts",
    "operator_action_requests", "operator_action_request_records", "probability_snapshots",
    "market_data_snapshots", "decision_reviews", "execution_evaluations",
    "outcome_analysis_snapshots", "saved_views", "audit_events", "positions">>

v002_web_auth == <<"web_users", "web_sessions", "web_remember_tokens">>

v003_execution_previews == <<"execution_previews">>

MIGRATIONS == <<v001_initial, v002_web_auth, v003_execution_previews>>

CURRENT_SCHEMA_VERSION == Len(MIGRATIONS)

\* Mutant: the version is recorded first, then the tables are created.
Statements_RecordFirst(version) == <<"record">> \o MIGRATIONS[version]

\* What a migration does, each a commit of its own.
Statements(version) == Append(MIGRATIONS[version], "record")

\* Whether a migration is left above the version.
MigrationsLeft(version) == version < CURRENT_SCHEMA_VERSION

SchemaInit ==
  /\ schema_version = <<>> /\ tables = {}
  /\ starter = [p \in Starters |-> [at |-> "down", version |-> 0, next |-> 1]]
  /\ starts = 0

StartProcess(p) ==
  /\ starter[p].at \in {"down", "ready"} /\ starts < MaxStarts
  /\ starter' = [starter EXCEPT ![p] = [at |-> "count", version |-> 0, next |-> 1]]
  /\ starts' = starts + 1
  /\ UNCHANGED <<schema_version, tables>>

\* ensure_schema_version_table: no row means that this process inserts the 0.
CountVersions(p) ==
  /\ starter[p].at = "count"
  /\ starter' = [starter EXCEPT ![p].at = IF schema_version = <<>> THEN "insert" ELSE "read"]
  /\ UNCHANGED <<schema_version, tables, starts>>

InsertVersion(p) ==
  /\ starter[p].at = "insert"
  /\ schema_version' = Append(schema_version, 0)
  /\ starter' = [starter EXCEPT ![p].at = "read"]
  /\ UNCHANGED <<tables, starts>>

\* current_schema_version, of the first row.
current_schema_version(p) ==
  /\ starter[p].at = "read"
  /\ LET version == schema_version[1]
     IN  starter' = [starter EXCEPT ![p] =
           [at |-> IF MigrationsLeft(version) THEN "apply" ELSE "ready", version |-> version,
            next |-> 1]]
  /\ UNCHANGED <<schema_version, tables, starts>>

\* The next statement of the next migration; the version goes to every row.
apply_migrations(p) ==
  LET s == starter[p]
      migration == s.version + 1
      statement == Statements(migration)[s.next]
      finished == s.next = Len(Statements(migration))
  IN  /\ s.at = "apply"
      /\ tables' = IF statement = "record" THEN tables ELSE tables \union {statement}
      /\ schema_version' = IF statement = "record"
                           THEN [i \in DOMAIN schema_version |-> migration] ELSE schema_version
      /\ starter' = [starter EXCEPT ![p] =
           IF ~finished THEN [s EXCEPT !.next = @ + 1]
           ELSE [at |-> IF MigrationsLeft(migration) THEN "apply" ELSE "ready", version |-> migration,
                 next |-> 1]]
      /\ UNCHANGED starts

StopProcess(p) ==
  /\ starter[p].at # "down"
  /\ starter' = [starter EXCEPT ![p] = [at |-> "down", version |-> 0, next |-> 1]]
  /\ UNCHANGED <<schema_version, tables, starts>>

SchemaNext ==
  \E p \in Starters :
    \/ StartProcess(p) \/ CountVersions(p) \/ InsertVersion(p) \/ current_schema_version(p)
    \/ apply_migrations(p) \/ StopProcess(p)

SchemaSpec == SchemaInit /\ [][SchemaNext]_schemaVars

TablesUpTo(version) == UNION {ToSet(MIGRATIONS[v]) : v \in 1 .. version}

(***************************************************************************)
(* ReadyFindsItsTables: a process that has started has every table.  Two   *)
(* starts may apply the same migrations at once, both insert a version row *)
(* and move the version back, and a start may die after any statement: no  *)
(* version read by a later one makes it skip a table that is missing.      *)
(***************************************************************************)
ReadyFindsItsTables ==
  \A p \in Starters :
    starter[p].at = "ready" => TablesUpTo(CURRENT_SCHEMA_VERSION) \subseteq tables
==============================================================================
