# Verification of the Polymarket operator assistant

TLA+ models of the semi-automatic trading assistant in `bot/`: what its processes
do to the database they share, what TLC checks of it on small instances and what
TLAPS proves for every instance.

1. [The system](#1-the-system)
2. [Inventory](#2-inventory)
3. [Modules and the code](#3-modules-and-the-code)
4. [Runs](#4-runs)
5. [What the runs found](#5-what-the-runs-found)
6. [Proofs](#6-proofs)
7. [Not modelled](#7-not-modelled)
8. [Plan](#8-plan)

## 1. The system

The program suggests trades on Polymarket and never sends one. A market snapshot
and a probability estimate become a *proposal*; the policy engine rejects it or
leaves it pending; an operator edits, rejects or approves it; an approval fetches
fresh data and asks the policies again; an approved proposal can become an *order
intent*, which is prepared and simulated on paper.

Three kinds of OS process do this: a CLI command (`bot/cli/app.py`), the web UI
(`bot/ui/server.py`, one thread), and the Telegram bot (`bot/telegram/bot_app.py`,
one thread). `bot/bootstrap.py` wires the same services for each, over a
connection of its own to **one SQLite file**. That file is the only thing they
share, and it is used in one way everywhere:

* every repository method commits by itself: an operation that saves a proposal,
  a review and an audit event is three transactions;
* a save is an `INSERT OR REPLACE` of the whole row, computed from a copy read
  earlier; no row has a version, no statement repeats the guard;
* some operations wait for the network between the read and the save.

So within a process everything is sequential, and between processes everything
interleaves commit by commit. That, and a process that ends between two commits,
is what makes this code hard to test; no test of the repository has two
processes or a crash in it.

## 2. Inventory

| Component | State | Operations | Hard parts | What makes it correct |
|---|---|---|---|---|
| Proposal lifecycle (`services/proposal_lifecycle.py`) | `trade_proposals`, `proposal_reviews`, `probability_snapshots`, `audit_events` | create, edit size or price, reject, cancel, ask for analysis, approve, expire | overwriting saves, a network wait inside approve, partial operations | only revalidated terms are approved; final states are final; the trails explain the row |
| Execution pipeline (`services/execution_pipeline.py`, `storage/execution_repo.py`) | `order_intents`, `simulated_executions`, `simulated_fill_events`, `intent_reviews` | create with superseding, prepare, submit, simulate | stale proposal objects, a loop of commits before the save, six commits per simulation | intents carry approved terms; one active intent; executed once; balanced books |
| Paper adapter (`adapters/polymarket/trading.py`) | none | simulate_order | rounding of percentages to cents | fragments, remainder and filled total add up |
| Proposal engine, sizing, policies (`services/proposal_engine.py`, `services/sizing.py`, `policies/`) | none | size, evaluate | rounding beyond a cap; exposures that callers pass as 0 | a recommended size is allowed by the policy that checks it |
| Decision inbox (`services/decision_inbox.py`, `services/inbox_handlers/`) | `operator_action_requests` and their records | create or update a request, apply an action, skip | the decision commits before the request; old buttons | one active request per entity; an actioned request stays so; every decision has one |
| Operator alerts, watchlists (`services/operator_notifications.py`) | `operator_alerts`, `watchlist` | scan, create, acknowledge, dismiss, resolve | find-then-save, stale copies | no duplicate active alert; dismissed and resolved are final |
| Telegram service and loop (`services/telegram_operator_service.py`, `telegram/`) | in memory: primed flag, seen ids, update offset, cooldowns | one cycle: updates, then notifications | everything in memory is lost at a restart; updates are redelivered | every pending proposal is announced; an update is not applied twice |
| Web authentication (`services/web_auth.py`, `storage/auth_repo.py`) | sessions, remember tokens; failed logins in memory | login, authenticate, rotate, log out, revoke all | rotation and revocation in separate commits | a revoked browser stays out; a remembered one gets in |
| Opportunity scanner, bridge, alerts (`services/opportunity_proposal_bridge.py`, `services/market_opportunity_*.py`) | none of their own | scan, draft proposals, create alerts | deduplication by a read at the start | one active proposal per market |
| Market data (`services/market_sync.py`, `services/realtime_market_feed.py`, `adapters/polymarket/`) | `market_data_snapshots` | fetch, cache, stream with reconnects | stale baselines, dropped updates | a stale snapshot never counts as fresh |
| Migrations (`storage/migrations/`) | `schema_version` | apply what is missing | two processes at once, a crash in between | every migration is applied once, in order |
| Settings (`config/loader.py`, `services/runtime_safety.py`) | YAML files, `BOT_MODE` | merge base and profile, override the mode, validate | every command loads for itself and may run under another profile than the one before | semi_auto stays manual whatever is combined |
| Execution preview (`services/execution_preview.py`) | `execution_previews` | dry-run an order against the optional gateway, show its state on the review card | the proposal changes while the preview is built or after it | an OK that is not called stale can be relied on |
| Signals (`services/signals/`) | none | score, admit, size | weights, caps and roundings over many features; two scorers at once | a better market is never scored worse; no opposite sides |
| Reviews, evaluation, outcome analysis (`services/decision_review.py`, `execution_evaluation.py`, `outcome_analysis.py`) | `decision_reviews`, `execution_evaluations`, `outcome_snapshots` | judge a decision, judge an execution, group both | three tables read one after the other; two definitions of a good price | nothing is lost from its group; verdicts that disagree have a reason |
| Market catalogue (`services/market_catalog.py`) | none | browse by page | every page is cut from a new answer of Gamma | pages partition what the first one counted |
| Saved views (`services/saved_views.py`, `ui/app.py`, `cli/app.py`) | `saved_views` | save, edit, clone, run | texts become typed values and texts again; edits read, then write | a view shows the filter it was saved with |
| UI pages, CLI and Telegram output, research views, analytics, exports, diagnostics | none | read and print | none | no decision reads them |

**Interactions.** The lifecycle calls the engine, the policies and the snapshot
provider synchronously and the audit log after every transition. The pipeline is
called with a proposal *object*, so it never reads the proposal's row itself, and
it calls the notifications service between its own commits. The inbox calls the
lifecycle or the alerts first and saves its request afterwards. The Telegram loop
calls the inbox for buttons and for notifications. The UI and the CLI print what
the tables say.

The full list, with a status and a reason for each part, is in `PROJECT.json`
under "components"; "hazards" lists every place where the code is exposed to one
of the hard parts, with its line.

## 3. Modules and the code

```
ProposalContract  <--- refines ---  ProposalLifecycle  <-- ProposalLifecycleProofs
      ^                                    ^
      | environment                        '-- MCProposalLifecycle
ExecutionPipeline --- refines --->  OrderContract
      |  ^  ^-- ExecutionPipelineProofs <-- OrderContractProofs
      v  '-- MCExecutionPipeline
PaperExecution

DecisionInbox  <--- extends ---  TelegramBot  <-- TelegramProofs

Settings <-- TradePolicies <-- PolicyDesk <-- MCPolicyDesk <-- MCOperatorDesk
                  ^-- OpportunityDrafts

OpportunityProofs --> OpportunityAlerts, OpportunityDrafts, PolicyDesk, ExecutionPreviews, Signals
StorageProofs     --> SchemaMigrations, MarketData, WebAuth
ReportProofs      --> DecisionReports
CatalogueProofs   --> MarketCatalogue, SavedViews

MCOperatorDesk also extends OpportunityDrafts, OpportunityAlerts, MarketData, WebAuth,
SchemaMigrations, ExecutionPreviews, Signals, DecisionReports (with PaperExecution),
MarketCatalogue and SavedViews, and explores them one at a time.
```

The abstraction is the same in the first two state machines. A client (one OS process)
is idle or inside one operation, held in `op[c]`: the step it is at, the row it
read, changed and will save, and the timestamp it took. A request action reads,
checks the guards and fills `op[c]`; after it **every commit is one action**, in
the order of the code, and anything another client does can happen in between. A
guard that fails is an exception before the first commit and changes nothing, so
it is no action. `Crash(c)` forgets `op[c]`: the process died, or an exception
nobody handles left the service. What was committed stays.

**`ProposalLifecycle`** is `ProposalLifecycleService`. Rows keep the columns the
decisions depend on: status, size in cents, price in 1/10000, the last
revalidation's `view` (market, probability, price and data age in one value),
`updated_at`, `expires_at`. The market's answer is any member of `Views`, or a
failure; the policy's verdict is the set `Allowed` of sizes and views, as the four
policies read nothing else that an operation can change (the callers pass
constants for the exposures). `create` picks an id nobody uses and any
recommended size. Rounding is kept, because `round(amount, 2)` after the check
`amount > 0` can store 0.00. `approve` is split at the network call:
`approve` reads, `ReceiveSnapshot` decides with the answer, `SaveRow` commits;
`SnapshotFails` leaves the row alone and goes to the two trails. `expire_stale`
works through its listing with one save, review and audit per item. A review's payload is
partial, as in the code (`Entry`): a creation and a request for analysis tell the status, an
edit the one term it changed, an approval both terms, a rejection or an expiry nothing
(`Unsaid`). Who wants the row must replay the trail on the draft.

**`ProposalContract`** is the workflow of `docs/SEMI_AUTO_WORKFLOW.md` items 1-7
as a state machine over a status and terms: draft, edit while pending, decide
once, withdraw an approval, nothing else.

**`ExecutionPipeline`** is `ExecutionPipelineService`. Its environment is the lifecycle in
other processes: a proposal takes the steps of `ProposalContract` (`LifecycleStep`), and
beside them a `LateSave` writes back what an operation made of an earlier version of the
row: an edit that read it pending makes an approved or cancelled proposal pending again with
other terms, an approval overwrites a cancellation. `versions` is the history of what the row
was while it could be edited, decided or withdrawn; `late` counts the late saves, up to `MaxLate`.
`fetch` gives a client the proposal object it later passes to
`create_order_intent`, as stale as the caller leaves it. `Retire` and `Warn` are
one round of the superseding loop, which saves each listed intent and raises its
alert before the new intent exists. A simulation goes through `SaveIntent`,
`SaveExecution`, `SaveFills`, `Notify`, `RecordReview` and `RecordAudit`. Both
adapters the build has accept every preparation and refuse every submission.

**`PaperExecution`** is `simulate_order`: what is filled, in which fragments, and
what remains, for a size, a limit and a book. A percentage of a size is rounded
to cents by Python's `round`, which on a binary float may break a tie either way:
`Nearest` is the set of admissible results and the operators range over it.

**`OrderContract`** is what `docs/ARCHITECTURE_OVERVIEW.md` promises of intents:
one active intent per proposal, terminal is terminal, executed at most once.

**`DecisionInbox`** is `DecisionInboxService` with its handlers for proposals, alerts
and diagnostics. A handler is the set of outcomes an action may have on what its
request is about, from the guards of the lifecycle and of the alert transitions; an
action then goes through `Decide`, `SaveRequest` and `RecordAction`, one commit each.
Requests are named by what they are about and a number, so that ids do not
multiply states. Other processes draft proposals and save what they made of one at any time
(`MoveProposal`, `TransitionAlert`), also a copy they read before a decision of the bot: a
late edit makes a decided proposal pending again, a late approval approves a cancelled one.
The history variable `undone` counts the decisions on each proposal that such a save took
back, up to `MaxUndone`; the properties that a late save breaks name it. The records keep
the newest action of each request, which is all that is compared.

**`TelegramBot`** is the process around it: `run_cycle` with `poll_notifications`.
`confirmed` is what Telegram has forgotten; everything in `bot` is memory and
lost in a `Crash`, which is a passing cause: the process was stopped, or Telegram was not
reachable. An answer that Telegram refuses for good (the query is too old, the operator has
blocked the bot) is `AnswerFails`: `run_cycle` has no handler around it, so the exception
leaves `serve_forever`, the restarted process is given the same update, and the same again,
any number of times. `poll` primes the seen sets the first time;
`List` is the second read, after the background scan. What an operator may press
are the buttons of every request there ever was, as old messages keep theirs, and
the commands with a proposal id, which go to the lifecycle past the inbox. The result of a network check is any set of failing labels, each time it runs. A press of a
request's button (`handle_request_press`) goes through the inbox, one that names a proposal
(`handle_proposal_press`) does not.

**`Settings`** is `load_settings`: the merge of the base document and a profile, the
override by `BOT_MODE`, and every check that refuses a document. Shares, prices and
confidences are integers in `1/Unit`, money is in cents. What no module reads is one
flag that says whether those fields pass their own checks. `Grain` is how many of these steps
make one of the last decimal that `round(x, 4)` keeps.

**`TradePolicies`** is the way from an estimate to a draft: the scanner's estimate, the
sizing engine, the four policies, the status a draft starts with, and the estimate that
replaces the draft's when it is approved (its edge kept, the price new). An operator that
rounds returns the set of results `round` may give, because the code rounds binary
floats and integers cannot tell which way a tie falls. Estimates are rounded to four decimals
(`RoundedShare`), midpoints are not, so prices are finer than estimates. The edge is a
difference of two floats: where the exact one equals the minimum, the code's may be below it
(0.35 - 0.30 is 0.04999...), and `InFloats` lets it be either. The exposures are the 0 that
every caller passes.

**`PolicyDesk`** is the commands that use them: each loads settings of its own, then drafts
or approves. A draft remembers the settings it was made under.

**`MarketData`** is the market sync, the realtime feed and the stream. Prices are left out:
these steps look at times only. A refresh gets a book by REST, or a REST baseline and
then the stream: connect, frames, a receive timeout, at most `max_reconnect_attempts`
attempts, each answer a step. The exchange stamps its answers with a clock that may be
`Skew` ahead.

**`OpportunityDrafts`** is `draft_opportunities`: the scan, one read of the active
proposals, and a draft per opportunity in commits of its own, while other runs, the
operator's decisions and refreshes of the cache go on. `SaveDraft` is any full-row save of the
lifecycle, also one that makes a cancelled proposal active again; `revived` remembers when.

**`OpportunityAlerts`** is the scan of the catalogue's markets with its relevance rules, the
scan of the proposals, and acknowledge, dismiss and resolve: every creation is a look and
a save, every transition a read and a save of the whole row.

**`WebAuth`** is a request as the list of its commits. `Commit` does the next one and
`Respond` delivers the cookies, or an error page, which carries none, or nothing. A
row records how many revocations had ended when its request began, or -1 if it overlapped
with one; a browser records whether it was given a reason to lose its login.
`failed_attempts` is memory of a server process, by username and remote address
(`LoginKeys`; the right password clears only its own key), and a restart moves it to the
history variable `forgotten`.

**`SchemaMigrations`** is a start of a process: read the version once, apply each script
above it statement by statement, insert the version row. A start may stop anywhere.

**`ExecutionPreviews`** is `build_preview` beside writers of the proposal: read, ask the
gateway, persist. The card compares the preview's time with the row's `updated_at`.

**`Signals`** is both scorers, the admission policy and the engine, on records of market
features. Confidences are exact multiples of 1/12000 where the code rounds to four
decimals.

**`DecisionReports`** is three reports: a decision review, an execution evaluation, and the
outcome analysis that lists the proposals, then the reviews, then the evaluations, and
groups them by what it listed first. The executions are those of `PaperExecution`.

**`MarketCatalogue`** is `browse_markets`: a call for open markets, one for closed ones,
deduplication, filters, order, the page.

**`SavedViews`** is the round trip of a filter. The texts of a request become typed values
(`Coerced`), are validated by the kind's schema and stored; a page that runs the view makes
texts of them again and parses those as if they came from a link, while the command line
uses the values. A row of the catalogue remembers what it was `meant` to show. Conversions are
tables from a text to what Python makes of it: `SwitchTexts` for the words `lower()` turns into
a switch, `NumberTexts` for what `int()` reads, `FloatTexts` for what `float()` reads and `str()`
writes of it (`2.50` becomes `2.5`, `0.00001` becomes `1e-05`), `PointTexts` for those with the
point that `_coerce_query_value` looks for. A whole number keeps its text: the page's button
writes `int()` of it, and nothing tells 20.0 from 20. The values are the few where a conversion
matters: switches in several cases, numbers at their limits, floats with an exponent, a text
that reads as a switch, an hour count that is one, lists of one and of two.

**`MCOperatorDesk`** explores these components in one run without multiplying them: the
variable `desk` says which one a behaviour is about, and the others keep one initial value.
That loses nothing, because they share no state but the proposals, which each module
reduces to what it looks at.

The other `MC` modules give values to the constants that a `.cfg` cannot write.

## 4. Runs

| Run | Question | Bounds |
|---|---|---|
| `lifecycle_shared` | Two processes work on one proposal and one may crash: can an approved row carry terms no revalidation allowed (`ApprovedIsRevalidated`), can a rejected draft come back (`RejectedDraftIsFinal`), is the row an operator sees the work of one recorded transition, with terms from the draft or a review (`TrailExplainsRow`)? | 2 clients, 1 proposal, 4 operations, 1 crash, clock 0..2, TTL 1 |
| `lifecycle_single` | One process at a time: does the lifecycle implement `ProposalContract` (`ImplementsContract`), do the partial reviews, replayed on the draft, give the row (`ReviewsReplayRow`), is the newest probability snapshot the evidence of the approval (`ApprovedOnLatestEvidence`), does every operation end (`OperationsFinish`)? | 1 client, 2 proposals, 4 operations, 1 crash |
| `lifecycle_rejection` | Violated: a rejected proposal does not turn up approved (`RejectionHolds`) | 2 clients, no crash |
| `lifecycle_trail` | Violated: every transition is in both trails (`EveryTransitionRecorded`) | 1 client, 1 crash |
| `pipeline_shared` | Two processes on one proposal's intents, while a late save may reopen the proposal: do intents carry terms it was approved with however stale the object was (`IntentCarriesApprovedTerms`), do the books of an execution balance (`ExecutionsAddUp`), is every status explained by alerts, executions and reviews (`StatusIsExplained`)? | 2 clients, 1 proposal, 2 intents, 3 operations, 1 late save, 1 crash |
| `pipeline_single` | One process at a time: does the pipeline implement `OrderContract`? | 1 client, 2 proposals, 2 intents, 4 operations, 1 crash |
| `pipeline_race` | Violated: at most one active intent per proposal (`OneActiveIntent`) | 2 clients, no crash |
| `pipeline_stale` | Violated: nothing is executed for a stale proposal (`NoStaleExecution`) | 1 client, no crash |
| `telegram_presses` | An update is delivered again after a restart while other processes decide too: does a press decide twice (`DecidesOnce`), can a subject have two requests (`OneRequestPerSubject`), do the records explain a request's status (`RecordsExplainRequests`)? | 1 proposal, 1 check, 2 presses, 1 failure, 1 undone decision |
| `telegram_notices` | Does an actioned request always stand for a decision (`ActionedIsDecided`), is anything announced twice (`AnnouncedOnce`), is an update lost (`ConfirmedIsAnswered`) or delivered for ever (`UpdatesAreHandled`), does a new proposal reach the queue (`PendingIsQueued`)? | 1 proposal, 1 alert, 1 press, 1 failure, 1 undone decision, refused answers without bound |
| `operator_desk` | The components around the lifecycle, each alone (table below) | `OperatorDesk.cfg` |
| `exposure_limits` | Violated: what is approved stays within the share of the bankroll for unresolved markets (`UnresolvedExposureCapped`) | 4 drafts of one market, a profile that leaves 10 % |

What `operator_desk` asks of each component:

| Component | Question | Bounds |
|---|---|---|
| policy desk | Is semi_auto strict under every combination of files and `BOT_MODE` (`SemiAutoIsStrict`)? Does a size exceed a limit by more than the rounding (`SizesRespectLimits`)? When does a moved price alone refuse a draft (`PriceMoveRefusesOnlyAnEdge`)? | the shipped base, 4 profiles in any order, 1 draft, estimates of every second step |
| market data | How far behind can the cache's latest row be (`CacheRegressIsBounded`)? Does every refresh end (`RefreshesEnd`)? | 2 processes, clock 0..2, 2 attempts, 1 empty frame |
| drafts | Are two active drafts of a market always due to overlapping runs or to a save that reactivated one (`DuplicatesComeFromOverlap`)? | 2 runs, 2 markets, 2 proposals |
| alerts | One alert per market and type (`MarketAlertedOnce`)? Do closed alerts stay closed (`ClosedStaysClosed`)? | 2 processes, 3 markets, 2 rows |
| web login | Who survives a revoke-all (`SurvivorsOverlapped`)? Who has to log in again (`RememberLossExplained`)? How many guesses does a restart give (`GuessesBounded`)? | 2 servers, 2 browsers, 2 login keys, 3 requests, 2 rows a table, 1 revocation, 1 restart |
| schema | Can a started process miss a table (`ReadyFindsItsTables`)? | 2 processes, 3 starts |
| previews | Is an OK that is not stale sound (`FreshOkIsSound`)? | 2 previewers, 2 writers, 2 previews, 2 changes |
| signals | Is a better market ever scored worse (`BetterMarketsSignalMore`)? When are both sides accepted (`OppositeSidesExplained`)? | 3 configurations, features on both sides of every threshold |
| reports | Is anything lost from its group (`UnknownIsNewer`)? When do praise and blame meet (`PraiseExplained`)? | 2 proposals, 1 report of each kind |
| catalogue | Do the pages partition the markets (`PagesPartition`)? | 4 markets, batches of 3, pages of 1 or 2, 2 changes |
| saved views | Does a view show the filter it was saved with (`SavedViewsKeepTheirFilter`)? | 2 names, 9 catalogue requests, 6 + 3 saves, 5 edits |


**Why the bounds are enough.** Proposals never read one another except in
`expire_stale`, so one proposal shows every race on a row and two show the listing.
Two clients are what a lost update needs; with four operations one client can
create, edit and approve while the other approves, edits, rejects or expires
against it. A TTL of 1 on a clock of 0..2 lets an approval start before the expiry
and commit after it. Views `calm` and `wild` differ in what the policy allows, and
the two typed amounts are the ones where rounding matters: 0.004 dollars is stored
as 0.00, and 20.01 dollars is one cent above the cap. In the pipeline four
operations are create, prepare, create with superseding, simulate; three are a creation and
two that race for its intent, or two creations and a simulation of the first; two intents are
what superseding needs; a price of 0 is one that rounding can store and that the
simulation rejects. One late save reopens an approved proposal with other terms, with which an
ordinary step may approve it again, or approves a cancelled one; the other runs of the pipeline
are about intents only and take none. Each bound (`MaxOps`, `MaxTime`, `MaxLate`, `MaxCrashes`) is a conjunct of
the actions it stops. Clients are interchangeable, so the safety runs with two of
them use `SYMMETRY`; the runs that check temporal properties do not.

In the Telegram runs a failure is a crash or an action whose handler raises; one
crash makes Telegram deliver an update again, two presses close a request and press
the button of the old message after a newer request exists, and one undone decision makes a
proposal be decided, announced and asked about a second time. Refused answers are not
bounded. Proposals, alerts and
checks meet only in the order of the announcements, so each run takes two of the
three kinds. When the bounds are used up and everybody is idle, `Exhausted` stutters; any other
deadlock would be reported. In the pipeline `fetch` is always possible.

In the desk run two processes and two rows are what each race needs: look, look, save,
save. Three requests are a login, another one with its cookie or from the other browser, and
one that revokes meanwhile. Three starts are two at once and one that reads what they
left. Two attempts of the stream are one that fails and the last. Four markets, of which
one is open and closed in turn, fill a batch of three and leave one beyond it. Features
and settings are enumerated on both sides of the thresholds the code compares with, prices
in 1/100, every second of which is an estimate that rounding keeps, so that a midpoint between
two of them takes the edge up or down by one step. Two login keys are the operator's and
another's. The
components rest when their bounds are used up, and some may rest for good in the code too (a
database that is ready, a user that exists): this run sets `CHECK_DEADLOCK FALSE`.

**Fairness.** `lifecycle_single` checks its liveness property under
`WF_vars(Proceed(c))` for each client: a process that is inside an operation goes
on, because it is sequential Python over a local file, and the one wait it has is an
HTTP request with a timeout, so one of `ReceiveSnapshot` and `SnapshotFails`
happens. `telegram_notices` assumes `WF_vars(Loop)`: the bot is one thread in an
endless loop, all its requests have timeouts, and its supervisor starts it again. That is not
enough for an update whose answer is refused: `UpdatesAreHandled` says that every update is
answered and confirmed in the end unless the answer to it, or to one before it, is refused,
and such an update does block the bot, as its restarts are not bounded.
`operator_desk` assumes `WF_marketVars(RefreshStep(c))` for the same reason: HTTP requests
and `recv` have timeouts, so a refresh that is under way takes its next step. A timeout is
counted from the last frame, so frames without an update could keep `stream_market` waiting
for ever; `MaxEmptyFrames` assumes there are finitely many.
Nothing is assumed of operators (no request is fair) or of the clock. Crashes for a passing
cause are bounded, by `MaxFailures`, as a supervisor that restarts a process for ever
without reaching Telegram promises nothing.

## 5. What the runs found

Five statements of the documentation that the code does not keep; each is a run
that ends with a counterexample, and a finding in `PROJECT.json`.

* **A rejection can be undone** (`lifecycle_rejection`). Telegram starts an
  approval and waits for the market data; the CLI rejects the proposal and
  commits `cancelled`; the answer arrives and `approve()` saves its own copy,
  `approved`. Item 7 of the workflow says a manual rejection moves the proposal to
  `cancelled`.
* **A transition can be missing from the trails** (`lifecycle_trail`). The row is
  committed before its review and its audit event; a process that ends in between
  leaves a status nothing explains. Item 8 says every transition is written to both.
* **Two active intents** (`pipeline_race`). Two processes look for active intents
  before either saves its own.
* **Stale execution** (`pipeline_stale`). Only the creation of an intent looks at
  the proposal's TTL; preparing and simulating do not.
* **An exposure cap without an exposure** (`exposure_limits`).
  `docs/CONFIG_REFERENCE.md:71` says that `max_unresolved_exposure_pct` caps the bankroll
  locked in unresolved markets. The policy compares with an exposure its caller passes, and
  the approvals of the command line, of Telegram and of the inbox, and the drafts, pass 0:
  each proposal is judged as if it were the only one.

Some invariants hold only with an exception, and the exception is what a reader should
know:

* `ReviewsReplayRow`: two processes that edit the size and the price of one proposal at once
  lose one edit, and its review stays: the trail alone no longer gives the row. What holds for
  any number of them is that nothing in the row comes from nowhere (`TrailExplainsRow`).
* `IntentCarriesApprovedTerms`: an edit that read the pending row and commits after the approval
  leaves a pending proposal with other terms behind an intent that keeps the approved ones.
* `DecidesOnce`, `ActionedIsDecided`, `AnnouncedOnce`: a save of a copy read earlier takes back a
  decision (a late edit makes the proposal pending, a late approval overwrites a cancellation).
  If the bot crashed before it answered, the update comes again and decides again; the request
  stays actioned while its proposal waits; and the proposal is announced once more.
* `UpdatesAreHandled`: an answer Telegram refuses for good ends every restart of the bot at the
  same update; nothing behind it is ever handled, and no notice goes out.
* `PendingIsQueued`: a restart takes whatever is pending as announced, so a proposal drafted
  while the bot was down gets no request.
* `OneRequestPerSubject`: two active requests about one check exist after a refresh from the
  message of an older, actioned request, as `apply_action` does not look at the request's
  status; and a second request about a proposal that a late save reopened. `README.md:330` of the repository says that `/approve`, `/reject` and `/cancel` go
  through the lifecycle and the inbox; with a proposal id they reach the lifecycle only and
  leave its request open.
* `PriceMoveRefusesOnlyAnEdge`: at another price the sum of the midpoint and the kept edge is
  rounded to four decimals, and the difference is taken of floats: a draft whose edge is the
  minimum, or less than a rounding above it, may be refused for nothing but the move. So is one
  whose estimate no longer fits below 1.
* `DuplicatesComeFromOverlap`, `MarketAlertedOnce`: overlapping runs draft a market twice and
  raise an alert twice; an approval or an edit saved over a cancellation reactivates a proposal
  whose market was drafted again meanwhile; a transition saved from an old copy reopens a closed alert
  (`ClosedStaysClosed`).
* `SurvivorsOverlapped`: a request that runs at the same time as a revoke-all keeps the
  session or the token it makes.
* `RememberLossExplained`: a request that rotates the remember token and then fails is
  answered by an error page without cookies, and the browser is left with the token that
  was revoked.
* `GuessesBounded`: the limit is per server, username and remote address, and every restart of
  a server forgets the failures in its window. What bounds all guesses of one password is the
  limit times the addresses they come from, times the restarts and one.
* `FreshOkIsSound`: a change of the proposal takes its time before it commits, so a change
  overtaken by a preview carries the earlier time and the preview is not called stale.
* `OppositeSidesExplained`: lag and reversion disagree at the extremes, and one
  evaluation then accepts both sides of a market.
* `PraiseExplained`: an evaluation takes a lower price for a better one on both sides, and
  compares it with the limit, where the decision review compares with the other side of the
  book.
* `SavedViewsKeepTheirFilter`: a switch is stored as `True`, comes back as the text "True",
  and is read as off; an hour count that is a switch passes the validation, as Python's `True`
  is an integer, and then fails the page that takes `int("True")`, while `views run` takes it for
  one hour; a learning view shows outcomes; a catalogue view without
  parameters shows the default one; and the button of the catalogue's page is refused for a
  filter of one category, because one text is not a list, for a search that reads as a
  number or a switch, for a minimum below zero, and for one as small as 0.00001, which `str()`
  writes as `1e-05`, without the point the conversion looks for; the page itself takes both.

The properties that do hold without exception are the more surprising side: however many
clients overwrite each other, an approved row never mixes a size with a verdict given for
another size, because a save writes the whole row; a stale proposal object cannot put terms
into an intent that were never approved; two starts that apply
the same migrations at once, or die in the middle of one, leave no process without its
tables, although `schema_version` may move back in between; and no weight, cap or
rounding of the signals works against a better market.

## 6. Proofs

TLC checked every invariant below on the small instances before it was proved. The theorems
hold for any sets of processes, rows and values and any bounds. Each proof has the same
outline: the property says what a reader of the tables may rely on; it is not inductive,
because a commit stores what an operation read earlier; the inductive invariant says the same
of **everything somebody may still write**, and what each of them knows about the tables.
Then every commit is harmless whatever it overwrites.

| Theorem | Property | Inductive invariant |
|---|---|---|
| `ProposalLifecycleProofs` | | |
| `TypeCorrect` | `TypeOK`; its content is that every stored size stays within the cap and every price in `0 .. 10000` after rounding | itself |
| `ApprovalIsSound` | `ApprovedIsRevalidated` | `WarrantInv`: every copy is *warranted* too (not approved, or an allowed pair with a timestamp before its expiry), and an approval in flight began before its row's expiry |
| `RejectedDraftsStayRejected` | `RejectedDraftIsFinal` | `DraftInv`: nobody but its creator holds a copy of a rejected draft, because nothing reads a row of that status to write it |
| `TrailsExplainRows` | `TrailExplainsRow` | `TrailInv`: a row is the work of a recorded transition, or of one a client is about to record; its terms, and those of every copy that may be saved, are the draft's, in a review, or in the one its writer owes; audit events lag the reviews by what clients still owe |
| `ReviewsReplayRows`, `ApprovalsKeepTheirEvidence`, one client | `ReviewsReplayRow`, `ApprovedOnLatestEvidence` | `SingleInv`: the copy in hand is the row it was read from, and the trail replays to the row, or will with the one review that is owed (`ReplayGrows`: a partial payload changes what was told last of its own terms only) |
| `LifecycleImplementsContract`, one client | `ImplementsContract` | the same; every commit maps to a step of `ProposalContract` or to a stutter |
| `ExecutionPipelineProofs` | | |
| `PipelineTypes` | `TypeOK` | `TypeInv`: fill events name stored executions |
| `IntentsCarryApprovedTerms` | `IntentCarriesApprovedTerms` | `TermsInv`: what a caller holds has terms its proposal was approved with (`Agreed`), for ever, as history is not taken back; where no late save hit, the lifecycle never edits what is decided (`LifecycleKeepsTerms`) |
| `ExecutionsBalance` | `ExecutionsAddUp` | `BooksInv`: the result in hand balances, which is what `simulate_order` guarantees for every rounding (`ScenarioShape`) |
| `StatusesAreExplained` | `StatusIsExplained` | `WorkInHand`: an alert, execution or review is stored, or its writer is on the way to it |
| `OrderContractProofs`, one client | | |
| `PipelineImplementsContract` | `ImplementsOrderContract` | `AloneInv`: the listing of the superseding loop is still the set of active intents, and what was executed is terminal |
| `StorageProofs` | | |
| `MigrationsLeaveNoGap` | `ReadyFindsItsTables` | `SchemaInv`: a version row, in the table or read by a start, stands for its tables |
| `CacheRegressBounded` | `CacheRegressIsBounded` | `MarketInv`: rows and answers were fetched within the age limit |
| `GuessesAreBounded` | `GuessesBounded` | `LockoutInv`: on every server and key what is remembered is within the limit, what was forgotten within the limit per restart |
| `RevokeAllReachesAll` | `SurvivorsOverlapped` | `RevokeInv`: revocations that began outnumber those that ended by those under way, so a row made meanwhile is marked |
| `LossesAreExplained` | `RememberLossExplained` | `RememberInv`: a browser's token is known to its own requests only, a token no browser has yet to the one response that brings it, and whoever's token is revoked or about to be has an excuse or a request that replaces it |
| `OpportunityProofs` | | |
| `AlertsAreRaisedOnce`, `ClosedAlertsStayClosed` | `MarketAlertedOnce`, the action property `ClosedStaysClosed` | `AlertsInv`: what a scan or a transition has read was in the table when it looked |
| `DuplicatesOverlap` | `DuplicatesComeFromOverlap` | `DraftsInv`: what was active when a run listed it is in the list, and what has become active since is marked so |
| `SemiAutoAsks` | `SemiAutoIsStrict` | `ValidSettings`: whatever is merged is checked last |
| `PriceMovesAreCarried` | `PriceMoveRefusesOnlyAnEdge` | `PolicyInv`: a draft remembers the context it was allowed in; of a probability the policies read the edge only (`PoliciesReadTheEdge`), and rounding moves it by half a grain at most (`RoundedShareIsNear`, `RevalidatedEdge`) |
| `SizesAreBounded` | `SizesRespectLimits` | `PolicyInv`: a draft's two sizes fit the limits it was made under, but for half a cent of rounding (`SizesFit`: no ratio exceeds 1, and every share bounds the maximum) |
| `FreshOkHolds` | `FreshOkIsSound` | `PreviewInv`: every time taken is another, and a preview agrees with the version it read |
| `BetterMarketsAreTaken`, `BothSidesAreExplained` | `BetterMarketsSignalMore`, `OppositeSidesExplained` | `SignalsInv`; the content is in `MomentumGrows`, `ReversionGrows` and `SizeGrows`: strengths, penalties, caps and roundings are monotone |
| `TelegramProofs` | | |
| `UpdatesAreNotLost` | `ConfirmedIsAnswered` | `OffsetInv` |
| `ActionedIsBacked`, `PressesDecideOnce` | `ActionedIsDecided`, `DecidesOnce` | `DecisionInv`: an actioned row, an action past its decision and a press with an effect stand for something decided or undone since, and each further effect of a press for one more undone decision |
| `AnnouncementsAreNotRepeated` | `AnnouncedOnce` | `ToldInv`: what was told is not listed again; after a restart it is seen or decided |
| `SubjectsGetOneRequest` | `OneRequestPerSubject` | `SubjectInv`: a subject that is listed has no actioned request |
| `RecordsTellTheStatus` | `RecordsExplainRequests` | `RecordInv`: a record is missing only while its action is between two commits |
| `ReportProofs` | | |
| `UnknownsAreNewer`, `PraiseIsExplained` | `UnknownIsNewer`, `PraiseExplained` | `ReportsInv`: an analyst's list is all there was when it began; an execution never changes, and a fill is within ten units of its reference (`FillIsNearReference`), less than what is praised |
| `CatalogueProofs` | | |
| `PagesPartitionHolds` | `PagesPartition` | `PagesInv`: while the venue stands still, what a reader was shown is a prefix of one listing, and all of it at the end; any finite listing can be sorted (`SortedExists`: an item's place is the number of those ahead of it) and consecutive pages are consecutive parts of it (`PagesAddUp`) |
| `ViewsKeepTheirFilter` | `SavedViewsKeepTheirFilter` | `ViewsInv`: a view, and what an edit will write, has valid parameters that agree with the filter it was meant for, field by field |

**Assumptions.** Each is a named `ASSUME` of the module that declares the constants, TLC
evaluates it on the runs, and the code justifies it. `ProposalLifecycle`: a view has a
midpoint between 0 and 1, recommended sizes are within the cap, the policy is any relation
between sizes and views, a typed value is never an exact rounding tie. `ExecutionPipeline`:
terms and quotes are numbers. `DecisionInbox`: the ids of proposals, alerts and checks differ.
`WebAuthAssumption`: finitely many server processes, and the operator's keys are among the
login keys. `GrainAssumption`: a share of 1.0 is a whole number of grains. `PricesAreCents`, `PricesAreShares`,
`FeaturesAreCounts`, `OrdersAreQuoted`: venue prices are between 0 and 1, a spread, a
liquidity and a score of the rules are numbers, volumes and times are not negative. `ConfigsAreChecked`: a strategy's limits passed the loader's checks.
`ProposalsAreNamed`: a proposal has a side, and no market is called "unknown".
`CatalogueAssumption`: a liquidity is a number and a page holds at least one market, as the
query's parser sees to. `ViewsAssumption`: the catalogue's fields that are numbers are given
numbers (the forms have number fields; anything else fails the page before a filter exists),
a request has fields under one name each, an integer is given as `str()` writes it, not as
`007` or `+5`, and is below 2^53, and the text of a number is no word the code knows; writing
a float and reading it back gives the same; a catalogue filter is saved from the web only. `WordsAreTexts`: a literal is a text. The theorems of
one client state `AtMostOneClient` as their hypothesis: two clients break them, as the runs
`pipeline_race` and `lifecycle_rejection` show of the two refinements.

**What the proof attempts found.** Each is a place where the model, or a property, was wrong
and the instances did not show it.
- `RememberLossExplained` recorded a browser's excuse when the response arrived; a revoke-all
  of another browser takes effect before. The run had one browser. The model now records the
  excuse where the route accepts the request, and the run has two.
- `SizesRespectLimits` said that the policies refuse a fresh draft for its size only when the
  rounding exceeded the position limit: false where the unresolved share of a profile is below
  it. And the model let two equal amounts round differently at a tie, although `round()` is
  monotone; `size` now keeps the recommended size within the rounded maximum.
- Four `CASE` expressions (`HandleRoute`, `verdict`, `rejection_code`, `ResolvedQuery`) had
  guards that overlap. TLC takes the first that holds; TLA+ does not say which. They are
  chains of `IF` now, in the order of the code.

- `SavedViewsKeepTheirFilter` named three filters for which the page's button is refused. The
  parameters of a minimum below zero do not validate either: `"-1"` is a text, because
  `isdigit()` knows no sign, and `"-0.5"` a number the schema refuses, while the page lists
  with both. No request of the run had one; two have now, and the property names them.
- The same property took `float()`, `str()` and `int()` for the identity, and so missed a minimum
  that `str()` writes with an exponent and an hour count that is a switch; they are tables now.
- Several properties once spoke of a lifecycle in which a decision was final for everybody. The
  late saves that `ProposalLifecycle` itself shows (`lifecycle_rejection`) are now steps of the
  environment of `ExecutionPipeline`, `DecisionInbox` and `OpportunityDrafts`, and the theorems
  say what is left: how often a decision was undone bounds what goes wrong.

**How a filter survives.** The proof about saved views has three parts, each about every
request. A request's valid parameters are the fields the page reads from it, one by one
(`RequestText`, `RequestCategories`, `RequestSize`, put together in `RequestFilter`); the
button sends the filter that is on the page and nothing else (`ButtonFilter`), and only a
filter that is named can fail its validation (`ButtonAccepted`); the stored parameters read as
texts again are the filter (`ViewShowsItsFilter`, `ListingShown`). An edit merges the two
sides separately, and they agree again (`EditFilter`), which is why two operators who
overwrite each other's view still leave a whole one.

**Only model-checked.** Liveness under fairness is outside the prover's reach:
`OperationsFinish`, `UpdatesAreHandled`, `PendingIsQueued`, `RefreshesEnd`. Every other
property of the passing runs has a theorem. No module declares a RECURSIVE operator.

## 7. Not modelled

* Presentation: wording, HTML, the pages and cards of the UI, the formatter of the bot, the
  printing of the command line, argument parsing, the mapping of rows to objects. The
  queries the pages read are in `SavedViews` and `MarketCatalogue`.
* Reads joined for display: event listings, a market's detail page, research views, review
  cards beyond the preview's state, listings of every kind, analytics, averages, exports,
  operator digests.
* Watchlists: a set with add and remove that only filters listings.
* Probes: diagnostics, smoke checks, the rest of the runtime snapshot. The bot's network
  check is an outcome in `TelegramBot`.
* Submission: the gateway's order submission and the signer are refused by the settings, and
  nothing calls them; a preview sees the gateway as disabled, answering or failing.
* Stubs: the execution engine, the position monitor, the rules parser, the mispricing
  scorer; the positions table has no writer.
* In modules that exist: the expiry of remember tokens, audit events of the web login,
  the columns and indexes of the schema, the bot's entries about previews and its
  cooldown of manual scans, retries and field mapping of the REST clients, the rounding of
  signal scores.
* The remote services, of which an answer or a failure is left. SQLite itself is external: a
  commit is atomic and durable, and two connections never see half of one. A busy database
  that raises in the middle of an operation is the `Crash` action, or the death of a
  request, a run or a start.

## 8. Plan

In this order, the behaviour that decides about money first:

1. done: `ProposalLifecycle`, `ProposalContract`, first theorems;
2. done: `ExecutionPipeline`, `PaperExecution`, `OrderContract`;
3. done: `DecisionInbox`, `TelegramBot`; alert creation by two processes is in
   `OpportunityAlerts`;
4. done: `Settings`, `TradePolicies`, `PolicyDesk`, with the exposure cap;
5. done: `MarketData`, `OpportunityDrafts`, `OpportunityAlerts`, `WebAuth`,
   `SchemaMigrations`, `ExecutionPreviews`;
6. done: `Signals`, `DecisionReports`, `MarketCatalogue`, `SavedViews`;
7. done: theorems for every safety property of the passing runs, and for both refinements
   with one client;
8. later: watchlists and the trail entries the bot writes about previews.
