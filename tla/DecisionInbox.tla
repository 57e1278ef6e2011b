----------------------------- MODULE DecisionInbox -----------------------------
(***************************************************************************)
(* DecisionInboxService with its handlers and the alerts they act on: one  *)
(* request per thing an operator should look at (a proposal, an alert, a   *)
(* failing diagnostics check), and actions on requests.  An action decides *)
(* first, through the lifecycle or the alert service, and commits its      *)
(* request afterwards:                                                     *)
(*                                                                         *)
(*   read+guard -> decide -> save request -> record                        *)
(*                                                                         *)
(* Only the Telegram bot runs these actions (see TelegramBot); proposals   *)
(* and alerts change in other processes too.                               *)
(***************************************************************************)
EXTENDS Integers, Sequences, FiniteSets

CONSTANTS
  Proposals,   \* proposal ids
  Alerts,      \* alert ids
  Labels,      \* names of the diagnostics checks
  MaxPresses,  \* bound on the presses
  MaxUndone    \* bound on the decisions on a proposal that a late save undoes

ASSUME DisjointAssumption ==
  Proposals \cap Alerts = {} /\ Proposals \cap Labels = {} /\ Alerts \cap Labels = {}
ASSUME BoundAssumption == MaxPresses \in Nat /\ MaxUndone \in Nat

Entities == Proposals \cup Alerts \cup Labels

\* The n-th request about e; another one is opened only once a press has closed
\* those before it.  Number 0 stands for no request: a command with a proposal id.
Requests == Entities \X (1 .. MaxPresses + 1)
Command(q) == <<q, 0>>

Absent         == "absent"
Pending        == "pending_manual_confirmation"
Approved       == "approved"
PolicyRejected == "policy_rejected"
Cancelled      == "cancelled"
Statuses       == {Absent, Pending, Approved, PolicyRejected, Cancelled}

AlertStates   == {Absent, "open", "acknowledged", "dismissed", "resolved"}
RequestStates == {Absent, "open", "acknowledged", "actioned"}
ActiveStates  == {"open", "acknowledged"}

VALID_TRANSITIONS(state) ==
  CASE state = "open"         -> {"acknowledged", "dismissed", "resolved"}
    [] state = "acknowledged" -> {"dismissed", "resolved"}
    [] OTHER                  -> {}

VARIABLES
  status,     \* trade_proposals: the status of each proposal
  alerts,     \* operator_alerts: the state of each alert
  requests,   \* operator_action_requests
  records,    \* operator_action_request_records: the newest of each request
  act,        \* the request action the bot is executing
  effects,    \* how often each press changed a proposal or an alert
  undone      \* history: how often a late save undid a decision on each proposal

stored == <<status, alerts, requests, records, undone>>
inboxVars == <<stored, act, effects>>

\* actioned: actioned_at is set.
Request == [status : RequestStates, actioned : BOOLEAN]
Blank == [status |-> Absent, actioned |-> FALSE]

Decisions == {"approve", "reject", "cancel"}
Actions == Decisions \cup {"analysis", "acknowledge", "refresh", "skip"}

\* An operator presses a button, or types a command.
Press == [action : Actions, request : Requests \cup {Command(q) : q \in Proposals}]

NoRecord == "none"

Unchanged == "unchanged"   \* the outcome leaves proposal and alert alone
IdleAct == [step |-> "idle", press |-> 0, action |-> "skip", request |-> << >>,
            row |-> Blank, to |-> Unchanged, ok |-> FALSE]
Answering == [IdleAct EXCEPT !.step = "answer"]

InboxTypeOK ==
  /\ status \in [Proposals -> Statuses]
  /\ alerts \in [Alerts -> AlertStates]
  /\ requests \in [Requests -> Request]
  /\ records \in [Requests -> Actions \cup {NoRecord}]
  /\ act.step \in {"idle", "decide", "request", "record", "answer"} /\ act.row \in Request
  /\ effects \in [1 .. MaxPresses -> Nat]
  /\ undone \in [Proposals -> 0 .. MaxUndone]

InboxInit ==
  /\ status = [q \in Proposals |-> Absent]
  /\ alerts = [a \in Alerts |-> Absent]
  /\ requests = [r \in Requests |-> Blank]
  /\ records = [r \in Requests |-> NoRecord]
  /\ act = IdleAct
  /\ effects = [k \in 1 .. MaxPresses |-> 0]
  /\ undone = [q \in Proposals |-> 0]

(***************************************************************************)
(* The handlers: what an action may do to what it is about                 *)
(***************************************************************************)
Outcome(to, ok) == [to |-> to, ok |-> ok]
Fails == Outcome(Unchanged, FALSE)

\* Mutant: an approval of an approved proposal goes through once more.
ProposalReview_Again(action, q) ==
  CASE action = "approve" /\ status[q] \in {Pending, Approved} ->
         {Outcome(Approved, TRUE), Outcome(PolicyRejected, TRUE), Outcome(Cancelled, FALSE), Fails}
    [] action = "reject" /\ status[q] = Pending               -> {Outcome(Cancelled, TRUE)}
    [] action = "cancel" /\ status[q] \in {Pending, Approved} -> {Outcome(Cancelled, TRUE)}
    [] action = "analysis" /\ status[q] # Absent              -> {Outcome(Unchanged, TRUE), Fails}
    [] OTHER                                                  -> {Fails}

\* ProposalReviewRequestHandler over the lifecycle.  An approval cancels and
\* fails if the TTL ran out, and fails if there is no snapshot; an analysis fails
\* if there is no decision review.
ProposalReview(action, q) ==
  CASE action = "approve" /\ status[q] = Pending ->
         {Outcome(Approved, TRUE), Outcome(PolicyRejected, TRUE), Outcome(Cancelled, FALSE), Fails}
    [] action = "reject" /\ status[q] = Pending               -> {Outcome(Cancelled, TRUE)}
    [] action = "cancel" /\ status[q] \in {Pending, Approved} -> {Outcome(Cancelled, TRUE)}
    [] action = "analysis" /\ status[q] # Absent              -> {Outcome(Unchanged, TRUE), Fails}
    [] OTHER                                                  -> {Fails}

AlertNotification(action, a) ==
  IF action = "acknowledge" /\ "acknowledged" \in VALID_TRANSITIONS(alerts[a])
  THEN {Outcome("acknowledged", TRUE)} ELSE {Fails}

DiagnosticsIssue(action) == {Outcome(Unchanged, action = "refresh")}

Handler(action, e) ==
  IF e \in Proposals THEN ProposalReview(action, e)
  ELSE IF e \in Alerts THEN AlertNotification(action, e)
  ELSE DiagnosticsIssue(action)

\* The request's next status if the action goes through; a refresh runs the
\* diagnostics.
RequestStatus(action) ==
  IF action \in {"skip", "analysis"} THEN {"acknowledged"}
  ELSE IF action = "refresh" THEN {"acknowledged", "actioned"}
  ELSE {"actioned"}

(***************************************************************************)
(* apply_action                                                            *)
(***************************************************************************)
\* The k-th press, on a request or directly on a proposal: the reads, the
\* guards and the handler up to its first commit.
apply_action(k, press) ==
  LET row == IF press.request \in Requests THEN requests[press.request] ELSE Blank
      outcomes == IF press.action = "skip" THEN {Outcome(Unchanged, row.status \in ActiveStates)}
                  ELSE Handler(press.action, press.request[1])
  IN /\ act.step = "idle"
     /\ \E o \in outcomes, new \in RequestStatus(press.action) :
          act' = IF o = Fails THEN Answering
                 ELSE [step |-> IF o.to = Unchanged THEN "request" ELSE "decide",
                       press |-> k, request |-> press.request, action |-> press.action,
                       row |-> [status |-> new, actioned |-> row.actioned \/ new = "actioned"],
                       to |-> o.to, ok |-> o.ok]
     /\ UNCHANGED <<stored, effects>>

\* The commit of the lifecycle or of the alert service: the state it computed
\* from what it read, whatever is stored by now.
Decide ==
  /\ act.step = "decide"
  /\ LET e == act.request[1]
     IN  IF e \in Proposals
         THEN status' = [status EXCEPT ![e] = act.to] /\ UNCHANGED alerts
         ELSE alerts' = [alerts EXCEPT ![e] = act.to] /\ UNCHANGED status
  /\ act' = IF act.ok /\ act.request \in Requests THEN [act EXCEPT !.step = "request"]
            ELSE Answering
  /\ effects' = [effects EXCEPT ![act.press] = @ + 1]
  /\ UNCHANGED <<requests, records, undone>>

SaveRequest ==
  /\ act.step = "request"
  /\ requests' = [requests EXCEPT ![act.request] = act.row]
  /\ act' = [act EXCEPT !.step = "record"]
  /\ UNCHANGED <<status, alerts, records, effects, undone>>

record_action(request, action) ==
  records' = [records EXCEPT ![request] = action]

RecordAction ==
  /\ act.step = "record"
  /\ record_action(act.request, act.action)
  /\ act' = Answering
  /\ UNCHANGED <<status, alerts, requests, effects, undone>>

\* Mutant: a decision that fails is taken for made.
ActionFails_Swallowed ==
  /\ act.step \in {"decide", "request", "record"}
  /\ act' = IF act.step = "decide" /\ act.request \in Requests THEN [act EXCEPT !.step = "request"]
            ELSE Answering
  /\ UNCHANGED <<stored, effects>>

\* The handler or one of the commits raises; the router answers with the error.
ActionFails ==
  /\ act.step \in {"decide", "request", "record"}
  /\ act' = Answering
  /\ UNCHANGED <<stored, effects>>

(***************************************************************************)
(* create_proposal_review_request, create_alert_request and                *)
(* create_diagnostics_requests                                             *)
(***************************************************************************)
ActiveFor(e) == {r \in Requests : r[1] = e /\ requests[r].status \in ActiveStates}

\* The next unused number of a request about e.
Unused(e) ==
  {n \in 1 .. MaxPresses + 1 :
     \A m \in 1 .. MaxPresses + 1 : requests[<<e, m>>].status = Absent <=> m >= n}

\* Mutant: an acknowledged request does not count as active.
CreateOrUpdate_OpenOnly(e) ==
  /\ \/ (\E r \in ActiveFor(e) : requests[r].status = "open") /\ UNCHANGED requests
     \/ /\ \A r \in ActiveFor(e) : requests[r].status # "open"
        /\ \E n \in Unused(e) : requests' = [requests EXCEPT ![<<e, n>>].status = "open"]
  /\ UNCHANGED <<status, alerts, records, act, effects, undone>>

\* Mutant: the refresh of an active request opens it again.
CreateOrUpdate_Reopens(e) ==
  /\ \/ \E r \in ActiveFor(e) : requests' = [requests EXCEPT ![r].status = "open"]
     \/ /\ ActiveFor(e) = {}
        /\ \E n \in Unused(e) : requests' = [requests EXCEPT ![<<e, n>>].status = "open"]
  /\ UNCHANGED <<status, alerts, records, act, effects, undone>>

\* An active request for e is refreshed, which keeps its status; else a new one is
\* opened.
CreateOrUpdate(e) ==
  /\ \/ ActiveFor(e) # {} /\ UNCHANGED requests
     \/ /\ ActiveFor(e) = {}
        /\ \E n \in Unused(e) : requests' = [requests EXCEPT ![<<e, n>>].status = "open"]
  /\ UNCHANGED <<status, alerts, records, act, effects, undone>>

\* What each poll asks a request for: a pending proposal it has not seen, an open
\* alert it has not seen, a check that failed.
create_proposal_review_request(q) == q \in Proposals /\ CreateOrUpdate(q)
create_alert_request(a) == a \in Alerts /\ CreateOrUpdate(a)
create_diagnostics_requests(l) == l \in Labels /\ CreateOrUpdate(l)

(***************************************************************************)
(* Other processes                                                         *)
(***************************************************************************)
\* How far a decision is from being open again.
Rank(s) == CASE s = Pending -> 0 [] s = Approved -> 1 [] OTHER -> 2

\* Another process drafts a proposal or saves what it made of one: a decision, or a
\* copy read before somebody else decided, which undoes that decision.  A late edit
\* makes the proposal pending again, a late approval approves one that is cancelled
\* or rejected.
MoveProposal(q, to) ==
  /\ to \in IF status[q] = Absent THEN {Pending} ELSE Statuses \ {Absent, status[q]}
  /\ IF status[q] # Absent /\ Rank(to) < Rank(status[q])
     THEN undone[q] < MaxUndone /\ undone' = [undone EXCEPT ![q] = @ + 1]
     ELSE UNCHANGED undone
  /\ status' = [status EXCEPT ![q] = to]
  /\ UNCHANGED <<alerts, requests, records, act, effects>>

\* A scan, the pipeline or the bot's background scan finds no such alert yet.
RaiseAlert(a) ==
  /\ alerts[a] = Absent
  /\ alerts' = [alerts EXCEPT ![a] = "open"]
  /\ UNCHANGED <<status, requests, records, act, effects, undone>>

\* acknowledge_alert, dismiss_alert and resolve_alert from the UI or the CLI.  They
\* save a copy read earlier, so two of them can also undo each other; no copy is
\* saved as open.
TransitionAlert(a, to) ==
  /\ alerts[a] # Absent
  /\ to \in VALID_TRANSITIONS("open")
  /\ alerts' = [alerts EXCEPT ![a] = to]
  /\ UNCHANGED <<status, requests, records, act, effects, undone>>

(***************************************************************************)
(* Properties                                                              *)
(***************************************************************************)
\* How often what was decided about e was undone since.
Undone(e) == IF e \in Proposals THEN undone[e] ELSE 0

\* A request that counts as actioned is about something decided: the alert is not
\* open any more, nor the proposal pending, unless a late save undid a decision on
\* it, although the decision and the request are separate commits and other
\* processes write both tables.
ActionedIsDecided ==
  \A r \in Requests : requests[r].actioned =>
    /\ r[1] \in Proposals => status[r[1]] # Pending \/ Undone(r[1]) > 0
    /\ r[1] \in Alerts => alerts[r[1]] # "open"

\* An alert gets one request in its life, and so does a proposal no late save
\* reopened.  Two active requests about one thing happen only if an old button
\* reopened an actioned one.
OneRequestPerSubject ==
  \A r, s \in {q \in Requests : requests[q].status # Absent} :
    (r # s /\ r[1] = s[1])
      => /\ r[1] \in Labels \/ Undone(r[1]) > 0
         /\ {r, s} \subseteq ActiveFor(r[1]) => requests[r].actioned \/ requests[s].actioned
==============================================================================
