---------------------------- MODULE TelegramProofs ----------------------------
(***************************************************************************)
(* Theorems about the Telegram process: what it confirms, decides and      *)
(* announces, whatever crashes, fails or changes in other processes.       *)
(***************************************************************************)
EXTENDS TelegramBot, TLAPS

(***************************************************************************)
(* The shape of the state.  Nothing but an update that is being handled    *)
(* occupies the process outside its idle moments.                          *)
(***************************************************************************)
Subjects == Requests \cup {Command(q) : q \in Proposals}
Working == {"decide", "request", "record"}
Done == {Approved, PolicyRejected, Cancelled}

IsAct(a) ==
  a \in [step : {"idle", "answer"} \cup Working, press : Nat, action : Actions,
         request : Subjects \cup {<< >>}, row : Request, to : {a.to}, ok : BOOLEAN]

IsBot(b) ==
  b \in [phase : Phases, cursor : Nat, primed : BOOLEAN, seen : SUBSET (Proposals \cup Alerts),
         failing : SUBSET Labels, listing : SUBSET Entities, notices : SUBSET (Proposals \cup Alerts)]

Types ==
  /\ status \in [Proposals -> Statuses]
  /\ alerts \in [Alerts -> AlertStates]
  /\ requests \in [Requests -> Request]
  /\ records \in [Requests -> Actions \cup {NoRecord}]
  /\ effects \in [1 .. MaxPresses -> Nat] /\ undone \in [Proposals -> Nat]
  /\ presses \in Seq(Press) /\ Len(presses) <= MaxPresses
  /\ confirmed \in Nat /\ answered \in Nat /\ failures \in Nat
  /\ told \in [Proposals \cup Alerts -> Nat]
  /\ IsAct(act) /\ IsBot(bot)

\* What is drafted or raised stays so.  What is settled stays settled until a late
\* save undoes it, and was decided for ever.
Known(e) == (e \in Proposals => status[e] # Absent) /\ (e \in Alerts => alerts[e] # Absent)
Settled(e) ==
  /\ e \in Proposals => status[e] \in Done
  /\ e \in Alerts => alerts[e] \in AlertStates \ {Absent, "open"}
Decided(e) == Settled(e) \/ Undone(e) > 0

\* A press is on a button that was shown, or a command on a proposal there is.
PressFits(k) ==
  IF presses[k].request \in Requests
  THEN /\ presses[k].action \in Buttons(presses[k].request[1])
       /\ requests[presses[k].request].status # Absent
  ELSE presses[k].action \in Decisions /\ status[presses[k].request[1]] # Absent

\* What the action under way remembers is about the press it handles.
ActFits ==
  /\ act.step # "idle" => bot.phase = "updates" /\ bot.cursor < Len(presses)
  /\ act.step \in Working =>
       /\ act.press \in 1 .. Len(presses)
       /\ act.request = presses[act.press].request /\ act.action = presses[act.press].action
       /\ act.row.status \in RequestStatus(act.action)
  /\ act.step \in {"request", "record"} => act.request \in Requests
  /\ act.step = "decide" =>
       \/ /\ act.request[1] \in Proposals /\ act.to \in Done
          /\ act.action = "cancel" => act.to = Cancelled
       \/ act.request[1] \in Alerts /\ act.to = "acknowledged"

\* What is listed or requested exists; lists are held only to announce them.
BotFits ==
  /\ \A r \in Requests : requests[r].status # Absent => Known(r[1])
  /\ \A e \in bot.listing : Known(e)
  /\ bot.phase # "announce" => bot.listing = {} /\ bot.notices = {}
  /\ bot.phase \in {"scan", "announce"} => bot.primed
  /\ \A k \in 1 .. Len(presses) : PressFits(k)

Shape == Types /\ ActFits /\ BotFits

(***************************************************************************)
(* The subject of a press is a proposal, an alert or a check.              *)
(***************************************************************************)
LEMMA SubjectsAreEntities ==
  ASSUME NEW r \in Subjects
  PROVE  /\ r[1] \in Entities
         /\ r \notin Requests => r[1] \in Proposals
  BY DEF Subjects, Requests, Command, Entities

(***************************************************************************)
(* What a handler does, if it goes through: a decision about a proposal    *)
(* that can still be decided, the acknowledgement of an open alert, or     *)
(* nothing to what the request is about.                                   *)
(***************************************************************************)
Leaves(action, e) == action \in {"skip", "analysis"} \/ (action = "refresh" /\ e \in Labels)
Decides(action, e, to) ==
  \/ /\ e \in Proposals /\ to \in Done /\ action \in Decisions
     /\ status[e] \in {Pending, Approved}
     /\ IF action = "cancel" THEN to = Cancelled ELSE status[e] = Pending
  \/ e \in Alerts /\ to = "acknowledged" /\ action = "acknowledge" /\ alerts[e] = "open"

\* An outcome of a handler that does not raise decides its subject or leaves it.
LEMMA HandlerOutcomes ==
  ASSUME Types, NEW action \in Actions, NEW e \in Entities, NEW o \in Handler(action, e), o # Fails
  PROVE  /\ o.to \in Statuses \cup AlertStates \cup {Unchanged} /\ o.ok \in BOOLEAN
         /\ o.to = Unchanged => Leaves(action, e)
         /\ o.to # Unchanged => Decides(action, e, o.to)
<1> USE DEF Outcome, Fails, Unchanged, Leaves, Decides, Done, Decisions, Statuses, AlertStates,
            Approved, PolicyRejected, Cancelled, Pending, Absent
<1>1. CASE e \in Proposals
  <2>1. o \in ProposalReview(action, e)
    BY <1>1 DEF Handler
  <2>2. CASE action = "approve" /\ status[e] = Pending
    <3>1. ProposalReview(action, e)
            = {Outcome(Approved, TRUE), Outcome(PolicyRejected, TRUE), Outcome(Cancelled, FALSE), Fails}
      BY <2>2 DEF ProposalReview
    <3>2. \/ o = [to |-> Approved, ok |-> TRUE] \/ o = [to |-> PolicyRejected, ok |-> TRUE]
          \/ o = [to |-> Cancelled, ok |-> FALSE]
      BY <2>1, <3>1
    <3>3. o.to \in Done
      BY <3>2
    <3>4. ASSUME NEW to, o = [to |-> to, ok |-> TRUE]
          PROVE  o.ok \in BOOLEAN
      BY <3>4
    <3>5. CASE o = [to |-> Cancelled, ok |-> FALSE]
      <4>1. o.ok \in BOOLEAN
        BY <3>5
      <4> QED  BY <4>1, <2>2, <1>1, <3>3
    <3> QED  BY <2>2, <1>1, <3>2, <3>3, <3>4, <3>5
  <2>3. CASE action = "reject" /\ status[e] = Pending
    <3>1. ProposalReview(action, e) = {Outcome(Cancelled, TRUE)}
      BY <2>3 DEF ProposalReview
    <3>2. o = [to |-> Cancelled, ok |-> TRUE]
      BY <2>1, <3>1
    <3> QED  BY <2>3, <1>1, <3>2
  <2>4. CASE action = "cancel" /\ status[e] \in {Pending, Approved}
    <3>1. ProposalReview(action, e) = {Outcome(Cancelled, TRUE)}
      BY <2>4 DEF ProposalReview
    <3>2. o = [to |-> Cancelled, ok |-> TRUE]
      BY <2>1, <3>1
    <3> QED  BY <2>4, <1>1, <3>2
  <2>5. CASE action = "analysis" /\ status[e] # Absent
    <3>1. ProposalReview(action, e) = {Outcome(Unchanged, TRUE), Fails}
      BY <2>5 DEF ProposalReview
    <3>2. o = [to |-> Unchanged, ok |-> TRUE]
      BY <2>1, <3>1
    <3>3. o.to = Unchanged
      BY <3>2
    <3>4. o.ok \in BOOLEAN
      BY <3>2
    <3> QED  BY <2>5, <1>1, <3>3, <3>4
  <2> QED  BY <2>1, <2>2, <2>3, <2>4, <2>5 DEF ProposalReview
<1>2. CASE e \notin Proposals /\ e \in Alerts
  <2>1. o \in AlertNotification(action, e)
    BY <1>2 DEF Handler
  <2>2. action = "acknowledge" /\ "acknowledged" \in VALID_TRANSITIONS(alerts[e])
        /\ o = Outcome("acknowledged", TRUE)
    BY <2>1 DEF AlertNotification
  <2>3. alerts[e] = "open"
    BY <2>2 DEF VALID_TRANSITIONS
  <2> QED  BY <1>2, <2>2, <2>3
<1>3. CASE e \notin Proposals /\ e \notin Alerts
  <2>1. o \in DiagnosticsIssue(action) /\ e \in Labels
    BY <1>3 DEF Handler, Entities
  <2>2. o = [to |-> Unchanged, ok |-> action = "refresh"]
    BY <2>1 DEF DiagnosticsIssue
  <2>3. action = "refresh"
    BY <2>2
  <2> QED  BY <2>1, <2>2, <2>3
<1> QED  BY <1>1, <1>2, <1>3

(***************************************************************************)
(* What handling an update leaves behind: an answer, or an action that     *)
(* remembers its press, what the request said and what it decided.         *)
(***************************************************************************)
Started(k, a) ==
  /\ k \in 1 .. Len(presses)
  /\ a.press = k /\ a.request = presses[k].request /\ a.action = presses[k].action
  /\ a.row.status \in RequestStatus(a.action)
  /\ a.row.status = "actioned" => a.row.actioned
  /\ a.request \in Requests =>
       (a.row.actioned <=> requests[a.request].actioned \/ a.row.status = "actioned")
  /\ \/ a.step = "request" /\ a.request \in Requests /\ Leaves(a.action, a.request[1])
     \/ a.step = "decide" /\ Decides(a.action, a.request[1], a.to)

\* Handling an update starts an action with it or only answers.
LEMMA UpdateHandled ==
  ASSUME Shape, handle_update
  PROVE  /\ act.step = "idle" /\ bot.phase = "updates" /\ bot.cursor < Len(presses)
         /\ UNCHANGED <<stored, effects, confirmed, bot, world>>
         /\ IsAct(act')
         /\ act' = Answering \/ Started(bot.cursor + 1, act')
<1> DEFINE k == bot.cursor + 1
           press == presses[k]
           row == IF press.request \in Requests THEN requests[press.request] ELSE Blank
           outcomes == IF press.action = "skip" THEN {Outcome(Unchanged, row.status \in ActiveStates)}
                       ELSE Handler(press.action, press.request[1])
<1>1. /\ bot.phase = "updates" /\ bot.cursor < Len(presses)
      /\ apply_action(k, press)
      /\ UNCHANGED <<confirmed, bot, world>>
  BY DEF handle_update, handle_request_press, handle_proposal_press
<1>2. k \in 1 .. Len(presses) /\ press \in Press
  BY <1>1 DEF Shape, Types, IsBot
<1>3. /\ press.action \in Actions /\ press.request \in Subjects
      /\ press.request[1] \in Entities
      /\ press.request \notin Requests => press.action \in Decisions
  BY <1>2, SubjectsAreEntities DEF Shape, BotFits, PressFits, Press, Subjects
<1>4. row \in Request
  BY <1>3 DEF Shape, Types, Blank, Request, RequestStates
<1>5. act.step = "idle" /\ UNCHANGED <<stored, effects>>
  BY <1>1 DEF apply_action
<1>6. PICK o \in outcomes, new \in RequestStatus(press.action) :
        act' = IF o = Fails THEN Answering
               ELSE [step |-> IF o.to = Unchanged THEN "request" ELSE "decide",
                     press |-> k, request |-> press.request, action |-> press.action,
                     row |-> [status |-> new, actioned |-> row.actioned \/ new = "actioned"],
                     to |-> o.to, ok |-> o.ok]
  BY <1>1 DEF apply_action
<1>7. CASE o = Fails
  <2>1. act' = Answering
    BY <1>6, <1>7
  <2>2. IsAct(Answering)
    BY DEF IsAct, Answering, IdleAct, Working, Actions, Blank, Request, RequestStates, Unchanged
  <2> QED  BY <1>1, <1>5, <2>1, <2>2
<1>8. CASE o # Fails
  <2>1. /\ act'.step = IF o.to = Unchanged THEN "request" ELSE "decide"
        /\ act'.press = k /\ act'.request = press.request /\ act'.action = press.action
        /\ act'.row = [status |-> new, actioned |-> row.actioned \/ new = "actioned"]
        /\ act'.to = o.to
    BY <1>6, <1>8
  <2>2. o.ok \in BOOLEAN /\ (o.to = Unchanged => Leaves(press.action, press.request[1]))
        /\ (o.to # Unchanged => Decides(press.action, press.request[1], o.to))
    <3>1. CASE press.action = "skip"
      <4>1. o = [to |-> Unchanged, ok |-> row.status \in ActiveStates]
        BY <3>1, <1>6 DEF Outcome
      <4>2. o.to = Unchanged
        BY <4>1
      <4>3. o.ok \in BOOLEAN
        BY <4>1
      <4> QED  BY <3>1, <4>2, <4>3 DEF Leaves
    <3>2. CASE press.action # "skip"
      <4>1. o \in Handler(press.action, press.request[1])
        BY <3>2, <1>6
      <4> QED  BY <4>1, <1>3, <1>8, HandlerOutcomes DEF Shape
    <3> QED  BY <3>1, <3>2
  <2>3. new \in RequestStates
    BY <1>6 DEF RequestStatus, RequestStates
  <2>4. act'.row \in Request
    BY <1>4, <2>1, <2>3 DEF Request
  <2>5. IsAct(act')
    BY <1>2, <1>3, <1>6, <1>8, <2>2, <2>4 DEF IsAct, Working
  <2>6. o.to = Unchanged => press.request \in Requests
    BY <1>3, <2>2, <1>8, <1>6 DEF Leaves, Decisions, Subjects, Outcome, Fails
  <2>7. act'.row.status = new /\ (act'.row.actioned <=> row.actioned \/ new = "actioned")
    <3>1. row.actioned \in BOOLEAN
      BY <1>4 DEF Request
    <3>2. \A s : \A a \in BOOLEAN : [status |-> s, actioned |-> a].actioned = a
      OBVIOUS
    <3>3. act'.row.actioned = (row.actioned \/ new = "actioned")
      BY <2>1, <3>2
    <3>4. act'.row.status = new
      BY <2>1
    <3> QED  BY <3>1, <3>3, <3>4
  <2>8. Started(k, act')
    BY <1>2, <1>6, <2>1, <2>2, <2>6, <2>7 DEF Started
  <2> QED  BY <1>1, <1>5, <2>5, <2>8
<1> QED  BY <1>7, <1>8

(***************************************************************************)
(* What the decision of an action and the other processes do to a proposal *)
(* or an alert goes back only where it is counted.                         *)
(***************************************************************************)
LEMMA SubjectSteps ==
  ASSUME Shape, [Next]_vars
  PROVE  \/ UNCHANGED <<status, alerts, undone>>
         \/ Decide
         \/ Elsewhere
<1>1. CASE Loop
  <2>1. CASE handle_update
    BY <2>1, UpdateHandled DEF stored
  <2>2. CASE ActionCommits
    BY <2>2 DEF ActionCommits, SaveRequest, RecordAction
  <2>3. CASE get_updates \/ Answer \/ AnswerFails \/ poll \/ List \/ NextCycle
    BY <2>3 DEF get_updates, Answer, AnswerFails, poll, List, NextCycle, inboxVars, stored
  <2>4. ASSUME NEW e \in Entities, Announce(e) \/ Send(e)
        PROVE  UNCHANGED <<status, alerts, undone>>
    BY <2>4 DEF Announce, Send, create_proposal_review_request, create_alert_request,
                create_diagnostics_requests, CreateOrUpdate, inboxVars, stored
  <2> QED  BY <1>1, <2>1, <2>2, <2>3, <2>4 DEF Loop
<1>2. CASE Operator \/ Crash \/ HandledFailure
  BY <1>2 DEF Operator, Crash, HandledFailure, ActionFails, inboxVars, stored
<1>3. CASE UNCHANGED vars
  BY <1>3 DEF vars, inboxVars, stored
<1> QED  BY <1>1, <1>2, <1>3 DEF Next

\* What is known stays known, and what was decided stays so: what is settled is
\* undone only where that is counted.
LEMMA SubjectsOnlyAdvance ==
  ASSUME Shape, [Next]_vars
  PROVE  /\ status' \in [Proposals -> Statuses] /\ alerts' \in [Alerts -> AlertStates]
         /\ undone' \in [Proposals -> Nat]
         /\ \A e \in Entities : Known(e) => Known(e)'
         /\ \A e \in Entities : Undone(e) <= Undone(e)' /\ Undone(e) \in Nat /\ Undone(e)' \in Nat
         /\ \A e \in Entities : Settled(e) => Settled(e)' \/ Undone(e) < Undone(e)'
         /\ \A e \in Entities : Decided(e) => Decided(e)'
<1> USE DEF Known, Done, Statuses, AlertStates, Absent, Pending, Approved,
            PolicyRejected, Cancelled
<1> /\ status \in [Proposals -> Statuses] /\ alerts \in [Alerts -> AlertStates]
    /\ undone \in [Proposals -> Nat]
  BY DEF Shape, Types
<1> DEFINE Advance == /\ status' \in [Proposals -> Statuses] /\ alerts' \in [Alerts -> AlertStates]
                      /\ undone' \in [Proposals -> Nat]
                      /\ \A e \in Entities : Known(e) => Known(e)'
                      /\ \A e \in Entities : Undone(e) <= Undone(e)' /\ Undone(e) \in Nat /\ Undone(e)' \in Nat
                      /\ \A e \in Entities : Settled(e) => Settled(e)' \/ Undone(e) < Undone(e)'
<1>0. \A e \in Entities : Undone(e) \in Nat
  BY DEF Undone
<1>8. ASSUME undone' = undone
      PROVE  \A e \in Entities : Undone(e) <= Undone(e)' /\ Undone(e) \in Nat /\ Undone(e)' \in Nat
  BY <1>0, <1>8 DEF Undone
<1>1. ASSUME UNCHANGED <<status, alerts, undone>>
      PROVE  Advance
  <2>1. \A e \in Entities : (Settled(e) => Settled(e)') /\ (Known(e) => Known(e)')
    BY <1>1 DEF Settled
  <2> QED  BY <1>1, <1>8, <2>1
<1>2. ASSUME Decide
      PROVE  Advance
  <2> DEFINE s == act.request[1]
  <2>1. /\ undone' = undone
        /\ \/ s \in Proposals /\ act.to \in Done /\ status' = [status EXCEPT ![s] = act.to]
               /\ UNCHANGED alerts
           \/ s \in Alerts /\ act.to = "acknowledged" /\ alerts' = [alerts EXCEPT ![s] = act.to]
               /\ UNCHANGED status
    BY <1>2, DisjointAssumption DEF Decide, Shape, ActFits
  <2> HIDE DEF s
  <2>2. /\ status' \in [Proposals -> Statuses] /\ alerts' \in [Alerts -> AlertStates]
        /\ \A q \in Proposals : status'[q] = status[q] \/ status'[q] \in Done
        /\ \A a \in Alerts : alerts'[a] = alerts[a] \/ alerts'[a] = "acknowledged"
    BY <2>1
  <2>3. \A e \in Entities : (Settled(e) => Settled(e)') /\ (Known(e) => Known(e)')
    BY <2>2 DEF Settled
  <2> QED  BY <1>8, <2>1, <2>2, <2>3
<1>3. ASSUME NEW q \in Proposals, NEW to \in Statuses, MoveProposal(q, to)
      PROVE  Advance
  <2>1. /\ status' = [status EXCEPT ![q] = to] /\ to # Absent /\ UNCHANGED alerts
        /\ status[q] \in Done /\ to \notin Done => undone' = [undone EXCEPT ![q] = undone[q] + 1]
        /\ undone' = undone \/ undone' = [undone EXCEPT ![q] = undone[q] + 1]
    BY <1>3 DEF MoveProposal, Rank
  <2>2. /\ undone' \in [Proposals -> Nat] /\ \A p \in Proposals : undone[p] <= undone'[p]
        /\ status[q] \in Done /\ to \notin Done => undone[q] < undone'[q]
    BY <2>1
  <2>3. /\ status' \in [Proposals -> Statuses] /\ status'[q] = to
        /\ \A p \in Proposals : p # q => status'[p] = status[p]
    BY <2>1
  <2>4. \A e \in Entities : Settled(e) => Settled(e)' \/ Undone(e) < Undone(e)'
    BY <2>1, <2>2, <2>3 DEF Settled, Undone
  <2>5. \A e \in Entities : Undone(e) <= Undone(e)' /\ Undone(e) \in Nat /\ Undone(e)' \in Nat
    BY <2>2 DEF Undone
  <2> QED  BY <2>1, <2>2, <2>3, <2>4, <2>5
<1>4. ASSUME NEW a \in Alerts, RaiseAlert(a)
      PROVE  Advance
  <2>1. \A e \in Entities : (Settled(e) => Settled(e)') /\ (Known(e) => Known(e)')
    BY <1>4 DEF RaiseAlert, Settled
  <2> QED  BY <1>4, <1>8, <2>1 DEF RaiseAlert
<1>5. ASSUME NEW a \in Alerts, NEW to \in AlertStates, TransitionAlert(a, to)
      PROVE  Advance
  <2>1. \A e \in Entities : (Settled(e) => Settled(e)') /\ (Known(e) => Known(e)')
    BY <1>5 DEF TransitionAlert, VALID_TRANSITIONS, Settled
  <2> QED  BY <1>5, <1>8, <2>1 DEF TransitionAlert
<1>6. ASSUME Elsewhere
      PROVE  Advance
  <2> HIDE DEF Advance, Statuses, AlertStates
  <2> QED  BY <1>3, <1>4, <1>5, <1>6 DEF Elsewhere
<1>7. Advance
  BY <1>1, <1>2, <1>6, SubjectSteps
<1> QED  BY <1>7 DEF Decided

(***************************************************************************)
(* Requests change only when the action under way saves its own, and when  *)
(* the poll opens one for what it announces.                               *)
(***************************************************************************)
Opens(e) ==
  /\ ActiveFor(e) = {}
  /\ \E n \in Unused(e) : requests' = [requests EXCEPT ![<<e, n>>].status = "open"]

\* An announcement opens at most one request and tells its subject once.
LEMMA AnnounceStep ==
  ASSUME Types, NEW e \in Entities, Announce(e)
  PROVE  /\ bot.phase = "announce" /\ e \in bot.listing
         /\ UNCHANGED <<status, alerts, undone, records, act, effects, confirmed, world>>
         /\ UNCHANGED requests \/ Opens(e)
         /\ bot' = [bot EXCEPT !.listing = bot.listing \ {e}, !.seen = bot.seen \cup ({e} \ Labels),
                               !.notices = bot.notices \cup ({e} \ Labels)]
  BY DEF Announce, create_proposal_review_request, create_alert_request,
         create_diagnostics_requests, CreateOrUpdate, Opens

\* The steps that change requests and their records.
LEMMA RequestSteps ==
  ASSUME Shape, [Next]_vars
  PROVE  \/ UNCHANGED <<requests, records>>
         \/ SaveRequest
         \/ RecordAction
         \/ \E e \in Entities : Announce(e)
<1>1. CASE Loop
  <2>1. CASE handle_update
    BY <2>1, UpdateHandled DEF stored
  <2>2. CASE ActionCommits
    BY <2>2 DEF ActionCommits, Decide
  <2>3. CASE get_updates \/ Answer \/ AnswerFails \/ poll \/ List \/ NextCycle
    BY <2>3 DEF get_updates, Answer, AnswerFails, poll, List, NextCycle, inboxVars, stored
  <2>4. ASSUME NEW e \in Entities, Send(e)
        PROVE  UNCHANGED <<requests, records>>
    BY <2>4 DEF Send, inboxVars, stored
  <2> QED  BY <1>1, <2>1, <2>2, <2>3, <2>4 DEF Loop
<1>2. CASE Operator \/ Crash \/ HandledFailure
  BY <1>2 DEF Operator, Crash, HandledFailure, ActionFails, inboxVars, stored
<1>3. CASE Elsewhere
  BY <1>3 DEF Elsewhere, MoveProposal, RaiseAlert, TransitionAlert
<1>4. CASE UNCHANGED vars
  BY <1>4 DEF vars, inboxVars, stored
<1> QED  BY <1>1, <1>2, <1>3, <1>4 DEF Next

\* A request that opens is the first absent one of its subject.
LEMMA OpensOne ==
  ASSUME Types, NEW e \in Entities, Opens(e)
  PROVE  \E n \in 1 .. MaxPresses + 1 :
           /\ <<e, n>> \in Requests /\ requests[<<e, n>>].status = Absent
           /\ \A m \in 1 .. MaxPresses + 1 : requests[<<e, m>>].status = Absent <=> m >= n
           /\ requests' \in [Requests -> Request]
           /\ requests'[<<e, n>>].status = "open"
           /\ requests'[<<e, n>>].actioned = requests[<<e, n>>].actioned
           /\ \A r \in Requests : r # <<e, n>> => requests'[r] = requests[r]
<1>1. PICK n \in 1 .. MaxPresses + 1 :
        /\ \A m \in 1 .. MaxPresses + 1 : requests[<<e, m>>].status = Absent <=> m >= n
        /\ requests' = [requests EXCEPT ![<<e, n>>].status = "open"]
  BY DEF Opens, Unused
<1>2. <<e, n>> \in Requests /\ requests \in [Requests -> Request]
  BY DEF Requests, Types
<1>3. requests' = [requests EXCEPT ![<<e, n>>] = [@ EXCEPT !.status = "open"]]
  BY <1>1
<1>4. [requests[<<e, n>>] EXCEPT !.status = "open"] \in Request
  BY <1>2 DEF Request, RequestStates
<1>5. requests'[<<e, n>>] = [requests[<<e, n>>] EXCEPT !.status = "open"]
  BY <1>2, <1>3
<1>6. requests'[<<e, n>>].status = "open"
      /\ requests'[<<e, n>>].actioned = requests[<<e, n>>].actioned
  BY <1>2, <1>5 DEF Request
<1>7. requests' \in [Requests -> Request] /\ \A r \in Requests : r # <<e, n>> => requests'[r] = requests[r]
  BY <1>2, <1>3, <1>4
<1>8. requests[<<e, n>>].status = Absent
  BY <1>1
<1> QED  BY <1>1, <1>2, <1>6, <1>7, <1>8

(***************************************************************************)
(* No step forgets that a request was opened.                              *)
(***************************************************************************)
LEMMA RequestsStay ==
  ASSUME Shape, [Next]_vars
  PROVE  /\ requests' \in [Requests -> Request]
         /\ \A r \in Requests : requests[r].status # Absent => requests'[r].status # Absent
<1> requests \in [Requests -> Request]
  BY DEF Shape, Types
<1>1. CASE UNCHANGED requests
  BY <1>1
<1>2. CASE SaveRequest
  <2>1. act.request \in Requests /\ act.row \in Request /\ act.row.status # Absent
        /\ requests' = [requests EXCEPT ![act.request] = act.row]
    BY <1>2 DEF SaveRequest, Shape, Types, ActFits, Working, IsAct, RequestStatus, Absent
  <2> QED  BY <2>1
<1>3. ASSUME NEW e \in Entities, Opens(e)
      PROVE  /\ requests' \in [Requests -> Request]
             /\ \A r \in Requests : requests[r].status # Absent => requests'[r].status # Absent
  <2>1. Types
    BY DEF Shape
  <2> QED  BY <2>1, <1>3, OpensOne DEF Absent
<1>4. CASE RecordAction
  BY <1>4, <1>1 DEF RecordAction
<1> QED  BY <1>1, <1>2, <1>3, <1>4, RequestSteps, AnnounceStep DEF Shape

(***************************************************************************)
(* Every step keeps the shape of the state.                                *)
(***************************************************************************)
LEMMA ActAndBotStep ==
  ASSUME Shape, [Next]_vars
  PROVE  IsAct(act') /\ IsBot(bot')
<1> IsAct(act) /\ IsBot(bot)
  BY DEF Shape, Types
<1>0. IsAct(IdleAct) /\ IsAct(Answering)
  BY DEF IsAct, Answering, IdleAct, Working, Actions, Blank, Request, RequestStates, Unchanged
<1>1. CASE Loop
  <2>1. CASE handle_update
    BY <2>1, UpdateHandled DEF Shape
  <2>2. CASE ActionCommits
    <3>1. IsAct([act EXCEPT !.step = "request"]) /\ IsAct([act EXCEPT !.step = "record"])
      BY DEF IsAct, Working
    <3> QED  BY <1>0, <2>2, <3>1 DEF ActionCommits, Decide, SaveRequest, RecordAction
  <2>3. CASE Answer
    BY <2>3, <1>0 DEF Answer, IsBot
  <2>a. CASE AnswerFails
    BY <2>a, <1>0 DEF AnswerFails, Fresh, IsBot, Phases
  <2>4. CASE get_updates
    BY <2>4 DEF get_updates, inboxVars, Greater, IsBot, Phases, Shape, Types
  <2>5. CASE poll
    <3>1. ActiveProposals \cup OpenAlerts \in SUBSET (Proposals \cup Alerts)
      BY DEF ActiveProposals, OpenAlerts
    <3>2. PICK failing \in IF bot.primed THEN SUBSET Labels ELSE {{}} :
            bot' = [bot EXCEPT !.phase = "scan", !.primed = TRUE, !.failing = failing,
                      !.seen = IF bot.primed THEN bot.seen ELSE ActiveProposals \cup OpenAlerts]
      BY <2>5 DEF poll
    <3>3. failing \in SUBSET Labels
      BY <3>2
    <3> QED  BY <2>5, <3>1, <3>2, <3>3 DEF poll, inboxVars, IsBot, Phases
  <2>6. CASE List
    <3> DEFINE new == (({q \in Proposals : status[q] = Pending} \cup OpenAlerts) \ bot.seen)
                        \cup bot.failing
    <3>1. new \in SUBSET Entities
      BY DEF OpenAlerts, IsBot, Entities
    <3> QED  BY <2>6, <3>1 DEF List, inboxVars, IsBot, Phases
  <2>7. CASE NextCycle
    BY <2>7 DEF NextCycle, inboxVars, IsBot, Phases
  <2>8. ASSUME NEW e \in Entities, Announce(e)
        PROVE  act' = act /\ IsBot(bot')
    <3>1. act' = act
          /\ bot' = [bot EXCEPT !.listing = bot.listing \ {e}, !.seen = bot.seen \cup ({e} \ Labels),
                                !.notices = bot.notices \cup ({e} \ Labels)]
      BY <2>8, AnnounceStep DEF Shape
    <3>2. {e} \ Labels \in SUBSET (Proposals \cup Alerts)
      BY DEF Entities
    <3> QED  BY <3>1, <3>2 DEF IsBot
  <2>9. ASSUME NEW e \in Entities, Send(e)
        PROVE  act' = act /\ IsBot(bot')
    BY <2>9 DEF Send, inboxVars, IsBot
  <2> QED  BY <1>1, <2>1, <2>2, <2>3, <2>4, <2>5, <2>6, <2>7, <2>8, <2>9, <2>a DEF Loop
<1>2. CASE Crash
  BY <1>2, <1>0 DEF Crash, Fresh, IsBot, Phases
<1>3. CASE Operator
  BY <1>3 DEF Operator, inboxVars
<1>4. CASE HandledFailure
  BY <1>4, <1>0 DEF HandledFailure, ActionFails
<1>5. CASE Elsewhere
  BY <1>5 DEF Elsewhere, MoveProposal, RaiseAlert, TransitionAlert
<1>6. CASE UNCHANGED vars
  BY <1>6 DEF vars, inboxVars
<1> QED  BY <1>1, <1>2, <1>3, <1>4, <1>5, <1>6 DEF Next

\* Only the operator adds a press.
LEMMA PressesStep ==
  ASSUME Shape, [Next]_vars
  PROVE  \/ UNCHANGED presses
         \/ Operator
<1>1. CASE Loop
  <2>1. CASE handle_update
    BY <2>1, UpdateHandled DEF world
  <2>2. CASE ActionCommits \/ get_updates \/ Answer \/ AnswerFails \/ poll \/ List \/ NextCycle
    BY <2>2 DEF ActionCommits, get_updates, Answer, AnswerFails, poll, List, NextCycle, world
  <2>3. ASSUME NEW e \in Entities, Announce(e) \/ Send(e)
        PROVE  UNCHANGED presses
    BY <2>3 DEF Announce, Send, world
  <2> QED  BY <1>1, <2>1, <2>2, <2>3 DEF Loop
<1> QED  BY <1>1 DEF Next, Operator, Crash, HandledFailure, Elsewhere, vars, world

\* The counters stay counters.
LEMMA CountersStep ==
  ASSUME Shape, [Next]_vars
  PROVE  /\ records' \in [Requests -> Actions \cup {NoRecord}]
         /\ effects' \in [1 .. MaxPresses -> Nat]
         /\ confirmed' \in Nat /\ answered' \in Nat /\ failures' \in Nat
         /\ told' \in [Proposals \cup Alerts -> Nat]
<1> /\ records \in [Requests -> Actions \cup {NoRecord}]
    /\ effects \in [1 .. MaxPresses -> Nat]
    /\ confirmed \in Nat /\ answered \in Nat /\ failures \in Nat
    /\ told \in [Proposals \cup Alerts -> Nat]
    /\ bot.cursor \in Nat
    /\ Len(presses) \in Nat /\ Len(presses) <= MaxPresses
  BY DEF Shape, Types, IsBot
<1>1. CASE Loop
  <2>1. CASE handle_update
    BY <2>1, UpdateHandled DEF stored, world
  <2>2. CASE ActionCommits
    <3>1. UNCHANGED <<confirmed, answered, failures, told>>
      BY <2>2 DEF ActionCommits, world
    <3>2. CASE Decide
      <4>1. act.press \in 1 .. MaxPresses
        BY <3>2, BoundAssumption DEF Decide, Shape, ActFits, Working
      <4> QED  BY <3>1, <3>2, <4>1 DEF Decide
    <3>3. CASE RecordAction
      <4>1. act.action \in Actions
        BY DEF Shape, Types, IsAct
      <4>3. records' \in [Requests -> Actions \cup {NoRecord}]
        BY <3>3, <4>1 DEF RecordAction, record_action
      <4> QED  BY <3>1, <3>3, <4>3 DEF RecordAction
    <3>4. CASE SaveRequest
      BY <3>1, <3>4 DEF SaveRequest
    <3> QED  BY <2>2, <3>2, <3>3, <3>4 DEF ActionCommits
  <2>3. CASE get_updates
    BY <2>3 DEF get_updates, inboxVars, stored, world, Greater
  <2>6. CASE Answer
    <3>1. answered' \in Nat
      BY <2>6 DEF Answer, Greater
    <3> QED  BY <2>6, <3>1 DEF Answer, stored
  <2>7. CASE AnswerFails \/ poll \/ List \/ NextCycle
    BY <2>7 DEF AnswerFails, poll, List, NextCycle, inboxVars, stored, world
  <2>4. ASSUME NEW e \in Entities, Announce(e)
        PROVE  UNCHANGED <<records, effects, confirmed, answered, failures, told>>
    BY <2>4, AnnounceStep DEF Shape, world
  <2>5. ASSUME NEW e \in Entities, Send(e)
        PROVE  /\ UNCHANGED <<records, effects, confirmed, answered, failures>>
               /\ told' \in [Proposals \cup Alerts -> Nat]
    <3>1. UNCHANGED <<inboxVars, confirmed, answered, failures>> /\ told' = [told EXCEPT ![e] = @ + 1]
      BY <2>5 DEF Send
    <3>2. e \in Proposals \cup Alerts
      BY <2>5 DEF Send, Shape, Types, IsBot
    <3>3. told' \in [Proposals \cup Alerts -> Nat]
      BY <3>1, <3>2
    <3> QED  BY <3>1, <3>3 DEF inboxVars, stored
  <2> QED  BY <1>1, <2>1, <2>2, <2>3, <2>4, <2>5, <2>6, <2>7 DEF Loop
<1>2. CASE Operator \/ Crash \/ HandledFailure
  BY <1>2 DEF Operator, Crash, HandledFailure, ActionFails, inboxVars, stored
<1>3. CASE Elsewhere
  BY <1>3 DEF Elsewhere, MoveProposal, RaiseAlert, TransitionAlert, world
<1>4. CASE UNCHANGED vars
  BY <1>4 DEF vars, inboxVars, stored
<1> QED  BY <1>1, <1>2, <1>3, <1>4 DEF Next

\* A press is added at the end, and names a button there is.
LEMMA OperatorStep ==
  ASSUME Shape, Operator
  PROVE  /\ presses' \in Seq(Press) /\ Len(presses') <= MaxPresses
         /\ Len(presses') = Len(presses) + 1
         /\ \A k \in 1 .. Len(presses) : presses'[k] = presses[k]
         /\ \A k \in 1 .. Len(presses') : PressFits(k)'
         /\ bot.phase = "fetch" /\ UNCHANGED <<inboxVars, confirmed, answered, bot, told, failures>>
<1>1. PICK press \in Offered : presses' = Append(presses, press)
  BY DEF Operator
<1>2. presses \in Seq(Press) /\ Len(presses) < MaxPresses /\ Len(presses) \in Nat
  BY DEF Operator, Shape, Types
<1>3. /\ press \in Press
      /\ IF press.request \in Requests
         THEN press.action \in Buttons(press.request[1]) /\ requests[press.request].status # Absent
         ELSE press.action \in Decisions /\ status[press.request[1]] # Absent
  <2> DEFINE ByButton == UNION {[action : Buttons(r[1]), request : {r}] :
                                  r \in {s \in Requests : requests[s].status # Absent}}
             ByCommand == [action : Decisions,
                           request : {Command(q) : q \in {p \in Proposals : status[p] # Absent}}]
  <2>1. CASE press \in ByButton
    <3>1. PICK r \in Requests : requests[r].status # Absent
                                /\ press \in [action : Buttons(r[1]), request : {r}]
      BY <2>1
    <3>2. Buttons(r[1]) \subseteq Actions
      BY DEF Buttons, Actions, Decisions
    <3> QED  BY <3>1, <3>2 DEF Press
  <2>2. CASE press \in ByCommand
    <3>1. PICK q \in Proposals : status[q] # Absent /\ press.request = Command(q)
      BY <2>2
    <3>2. press.request \notin Requests /\ press.request[1] = q
      BY <3>1 DEF Command, Requests
    <3> QED  BY <2>2, <3>1, <3>2 DEF Press, Actions
  <2>3. Offered = ByButton \cup ByCommand
    BY DEF Offered
  <2> HIDE DEF ByButton, ByCommand
  <2> QED  BY <1>1, <2>1, <2>2, <2>3
<1>4. UNCHANGED <<inboxVars, confirmed, answered, bot, told, failures>> /\ bot.phase = "fetch"
  BY DEF Operator
<1>5. /\ presses' \in Seq(Press) /\ Len(presses') = Len(presses) + 1
      /\ \A k \in 1 .. Len(presses) : presses'[k] = presses[k]
      /\ presses'[Len(presses) + 1] = press
  BY <1>1, <1>2, <1>3
<1>6. ASSUME NEW k \in 1 .. Len(presses')
      PROVE  PressFits(k)'
  <2>1. UNCHANGED <<status, requests>>
    BY <1>4 DEF inboxVars, stored
  <2>2. CASE k = Len(presses) + 1
    <3>1. presses'[k] = press
      BY <1>5, <2>2
    <3> QED  BY <1>3, <2>1, <3>1 DEF PressFits
  <2>3. CASE k # Len(presses) + 1
    <3>1. k \in 1 .. Len(presses)
      BY <1>2, <1>5, <2>3
    <3>2. PressFits(k) /\ presses'[k] = presses[k]
      BY <1>5, <3>1 DEF Shape, BotFits
    <3> QED  BY <2>1, <3>2 DEF PressFits
  <2> QED  BY <2>2, <2>3
<1>7. Len(presses') <= MaxPresses
  BY <1>2, <1>5, BoundAssumption
<1> QED  BY <1>4, <1>5, <1>6, <1>7

\* Outside the handling of an update the process does not act.
LEMMA IdleElsewhere ==
  ASSUME Shape
  PROVE  (bot.phase # "updates" \/ bot.cursor = Len(presses)) => act.step = "idle"
<1>1. bot.cursor \in Nat /\ Len(presses) \in Nat
  BY DEF Shape, Types, IsBot
<1> QED  BY <1>1 DEF Shape, ActFits

\* An action in progress stays about the press it began with.
LEMMA ActFitsStep ==
  ASSUME Shape, [Next]_vars
  PROVE  ActFits'
<1> IsAct(act) /\ IsBot(bot) /\ ActFits /\ presses \in Seq(Press)
  BY DEF Shape, Types
<1>0. ASSUME act'.step = "idle"
      PROVE  ActFits'
  BY <1>0 DEF ActFits, Working
<1>1. ASSUME act' = Answering, UNCHANGED <<bot, presses>>, act.step # "idle"
      PROVE  ActFits'
  BY <1>1 DEF ActFits, Working, Answering, IdleAct
<1>2. CASE Loop
  <2>1. CASE handle_update
    <3>1. UNCHANGED <<bot, presses>> /\ bot.phase = "updates" /\ bot.cursor < Len(presses)
      BY <2>1, UpdateHandled DEF world
    <3>2. CASE act' = Answering
      BY <3>1, <3>2 DEF ActFits, Working, Answering, IdleAct
    <3>3. CASE Started(bot.cursor + 1, act')
      BY <3>1, <3>3 DEF ActFits, Working, Started, Decides, Done
    <3> QED  BY <2>1, <3>2, <3>3, UpdateHandled
  <2>2. CASE ActionCommits
    <3>1. UNCHANGED <<bot, presses>>
      BY <2>2 DEF ActionCommits, world
    <3>2. CASE Decide
      <4>1. act.step = "decide"
        BY <3>2 DEF Decide
      <4>2. CASE act' = Answering
        BY <3>1, <4>1, <4>2, <1>1
      <4>3. CASE act' = [act EXCEPT !.step = "request"] /\ act.request \in Requests
        BY <3>1, <4>1, <4>3 DEF ActFits, Working, IsAct
      <4> QED  BY <3>2, <4>2, <4>3 DEF Decide
    <3>3. CASE SaveRequest
      BY <3>1, <3>3 DEF SaveRequest, ActFits, Working, IsAct
    <3>4. CASE RecordAction
      BY <3>1, <3>4, <1>1 DEF RecordAction
    <3> QED  BY <2>2, <3>2, <3>3, <3>4 DEF ActionCommits
  <2>3. CASE Answer \/ AnswerFails
    BY <2>3, <1>0 DEF Answer, AnswerFails, IdleAct
  <2>4. CASE get_updates \/ poll \/ List \/ NextCycle
    BY <2>4, <1>0, IdleElsewhere DEF get_updates, poll, List, NextCycle, inboxVars
  <2>5. ASSUME NEW e \in Entities, Announce(e) \/ Send(e)
        PROVE  ActFits'
    BY <2>5, <1>0, IdleElsewhere, AnnounceStep DEF Send, inboxVars, Shape
  <2> QED  BY <1>2, <2>1, <2>2, <2>3, <2>4, <2>5 DEF Loop
<1>3. CASE Operator
  BY <1>3, <1>0, IdleElsewhere DEF Operator, inboxVars
<1>4. CASE Crash
  BY <1>4, <1>0 DEF Crash, IdleAct
<1>5. CASE HandledFailure
  BY <1>5, <1>1 DEF HandledFailure, ActionFails
<1>6. CASE Elsewhere
  BY <1>6 DEF Elsewhere, MoveProposal, RaiseAlert, TransitionAlert, world, ActFits, Working
<1>7. CASE UNCHANGED vars
  BY <1>7 DEF vars, inboxVars, ActFits, Working
<1> QED  BY <1>2, <1>3, <1>4, <1>5, <1>6, <1>7 DEF Next

\* A request is about a subject there is.
LEMMA RequestsAreKnown ==
  ASSUME Shape, [Next]_vars, NEW r \in Requests, requests'[r].status # Absent
  PROVE  Known(r[1])'
<1> requests \in [Requests -> Request] /\ r[1] \in Entities
  BY DEF Shape, Types, Requests
<1>1. CASE requests[r].status # Absent
  BY <1>1, SubjectsOnlyAdvance DEF Shape, BotFits
<1>2. CASE requests[r].status = Absent
  <2>1. CASE SaveRequest
    <3>1. /\ act.request \in Requests /\ requests[act.request].status # Absent
          /\ requests' = [requests EXCEPT ![act.request] = act.row]
      BY <2>1 DEF SaveRequest, Shape, ActFits, BotFits, PressFits, Working
    <3> QED  BY <1>2, <3>1
  <2>2. ASSUME NEW e \in Entities, Announce(e)
        PROVE  Known(r[1])'
    <3>1. Opens(e) /\ Known(e) /\ UNCHANGED <<status, alerts>>
      BY <2>2, <1>2, AnnounceStep DEF Shape, BotFits
    <3>2. r[1] = e
      <4>1. PICK n \in 1 .. MaxPresses + 1 : \A s \in Requests : s # <<e, n>> => requests'[s] = requests[s]
        BY <3>1, OpensOne DEF Shape
      <4> QED  BY <4>1, <1>2
    <3> QED  BY <3>1, <3>2 DEF Known
  <2> QED  BY <1>2, <2>1, <2>2, RequestSteps DEF RecordAction
<1> QED  BY <1>1, <1>2

\* What is listed is known, and announced only after the first poll.
LEMMA ListingStep ==
  ASSUME Shape, [Next]_vars
  PROVE  /\ \A e \in bot'.listing : Known(e)'
         /\ bot'.phase # "announce" => bot'.listing = {} /\ bot'.notices = {}
         /\ bot'.phase \in {"scan", "announce"} => bot'.primed
<1> /\ IsBot(bot) /\ BotFits
    /\ \A e \in bot.listing : Known(e)'
  BY SubjectsOnlyAdvance DEF Shape, Types, BotFits, IsBot
<1>0. ASSUME bot' = bot
      PROVE  /\ \A e \in bot'.listing : Known(e)'
             /\ bot'.phase # "announce" => bot'.listing = {} /\ bot'.notices = {}
             /\ bot'.phase \in {"scan", "announce"} => bot'.primed
  BY <1>0 DEF BotFits
<1>1. CASE Loop
  <2>1. CASE handle_update
    BY <2>1, <1>0, UpdateHandled
  <2>2. CASE ActionCommits
    BY <2>2, <1>0 DEF ActionCommits
  <2>3. CASE get_updates
    BY <2>3 DEF get_updates, BotFits, IsBot
  <2>4. CASE Answer \/ AnswerFails
    BY <2>4 DEF Answer, AnswerFails, Fresh, BotFits, IsBot
  <2>5. CASE poll
    BY <2>5 DEF poll, BotFits, IsBot
  <2>6. CASE List
    <3> DEFINE new == (({q \in Proposals : status[q] = Pending} \cup OpenAlerts) \ bot.seen)
                        \cup bot.failing
    <3>1. /\ bot'.phase = "announce" /\ bot'.listing = new /\ bot'.primed = bot.primed
          /\ bot.phase = "scan" /\ UNCHANGED <<status, alerts>>
      BY <2>6 DEF List, inboxVars, stored, IsBot
    <3>2. ASSUME NEW e \in new
          PROVE  Known(e)
      BY <3>2, DisjointAssumption DEF Known, OpenAlerts, Pending, Absent, IsBot
    <3>3. \A e \in new : Known(e)'
      BY <3>1, <3>2 DEF Known
    <3> QED  BY <3>1, <3>3 DEF BotFits
  <2>7. CASE NextCycle
    BY <2>7 DEF NextCycle, BotFits, IsBot
  <2>8. ASSUME NEW e \in Entities, Announce(e)
        PROVE  /\ bot'.listing \subseteq bot.listing /\ bot'.phase = "announce" /\ bot'.primed = bot.primed
               /\ bot.phase = "announce"
    <3>1. bot.phase = "announce"
          /\ bot' = [bot EXCEPT !.listing = bot.listing \ {e}, !.seen = bot.seen \cup ({e} \ Labels),
                                !.notices = bot.notices \cup ({e} \ Labels)]
      BY <2>8, AnnounceStep DEF Shape
    <3> QED  BY <3>1 DEF IsBot
  <2>9. ASSUME NEW e \in Entities, Send(e)
        PROVE  /\ bot'.listing \subseteq bot.listing /\ bot'.phase = "announce" /\ bot'.primed = bot.primed
               /\ bot.phase = "announce"
    BY <2>9 DEF Send, IsBot
  <2> QED  BY <1>1, <2>1, <2>2, <2>3, <2>4, <2>5, <2>6, <2>7, <2>8, <2>9 DEF Loop, BotFits
<1>2. CASE Crash
  BY <1>2 DEF Crash, Fresh
<1>3. CASE Operator \/ HandledFailure \/ Elsewhere \/ UNCHANGED vars
  BY <1>3, <1>0 DEF Operator, HandledFailure, Elsewhere, vars
<1> QED  BY <1>1, <1>2, <1>3 DEF Next

\* Every step keeps the shape of the bot's and the inbox's state.
LEMMA ShapeStep ==
  ASSUME Shape, [Next]_vars
  PROVE  Shape'
<1>1. presses' \in Seq(Press) /\ Len(presses') <= MaxPresses
  BY PressesStep, OperatorStep DEF Shape, Types
<1>2. Types'
  BY <1>1, SubjectsOnlyAdvance, RequestsStay, ActAndBotStep, CountersStep DEF Types
<1>3. ASSUME NEW k \in 1 .. Len(presses')
      PROVE  PressFits(k)'
  <2>1. CASE UNCHANGED presses
    <3>1. PressFits(k) /\ presses[k] \in Press
      BY <2>1 DEF Shape, BotFits, Types
    <3>2. presses[k].request \in Subjects
      BY <3>1 DEF Press, Subjects
    <3>3. CASE presses[k].request \in Requests
      BY <2>1, <3>1, <3>3, RequestsStay DEF PressFits
    <3>4. CASE presses[k].request \notin Requests
      <4>1. presses[k].request[1] \in Proposals
        BY <3>2, <3>4, SubjectsAreEntities
      <4>2. Known(presses[k].request[1])
        BY <3>1, <3>4, <4>1, DisjointAssumption DEF PressFits, Known
      <4>3. PICK e \in Proposals : e = presses[k].request[1]
        BY <4>1
      <4>4. status'[e] # Absent
        BY <4>2, <4>3, SubjectsOnlyAdvance DEF Known, Entities
      <4> QED  BY <2>1, <3>1, <3>4, <4>3, <4>4 DEF PressFits
    <3> QED  BY <3>3, <3>4
  <2>2. CASE Operator
    BY <2>2, OperatorStep
  <2> QED  BY <2>1, <2>2, PressesStep
<1>4. BotFits'
  BY <1>3, ListingStep, RequestsAreKnown DEF BotFits
<1> QED  BY <1>2, <1>4, ActFitsStep DEF Shape

\* It holds at the start.
LEMMA ShapeInit ==
  ASSUME Init
  PROVE  Shape
<1> USE DEF Init, InboxInit
<1>1. IsAct(act)
  BY DEF IsAct, IdleAct, Working, Actions, Blank, Request, RequestStates, Unchanged
<1>2. IsBot(bot)
  BY DEF Fresh, IsBot, Phases
<1>3. /\ status \in [Proposals -> Statuses] /\ alerts \in [Alerts -> AlertStates]
      /\ effects \in [1 .. MaxPresses -> Nat] /\ told \in [Proposals \cup Alerts -> Nat]
      /\ confirmed \in Nat /\ answered \in Nat /\ failures \in Nat
  BY DEF Statuses, AlertStates
<1>4. requests \in [Requests -> Request]
  BY DEF Blank, Request, RequestStates
<1>5. records \in [Requests -> Actions \cup {NoRecord}] /\ undone \in [Proposals -> Nat]
  OBVIOUS
<1>6. presses \in Seq(Press) /\ Len(presses) = 0
  OBVIOUS
<1>7. Types
  BY <1>1, <1>2, <1>3, <1>4, <1>5, <1>6, BoundAssumption DEF Types
<1>8. ActFits
  BY DEF ActFits, IdleAct, Working
<1>9. BotFits
  BY <1>6 DEF BotFits, Blank, Fresh
<1> QED  BY <1>7, <1>8, <1>9 DEF Shape

\* The state of bot and inbox keeps its shape, which every theorem below relies on.
THEOREM ShapeHolds == Spec => []Shape
<1>1. Init => Shape
  BY ShapeInit
<1>2. Shape /\ [Next]_vars => Shape'
  BY ShapeStep
<1> QED  BY <1>1, <1>2, PTL DEF Spec

(***************************************************************************)
(* An update is confirmed by the offset of the next getUpdates.            *)
(***************************************************************************)
OffsetInv == ConfirmedIsAnswered /\ bot.cursor <= answered

\* Every step keeps the confirmed updates among the answered ones.
LEMMA OffsetStep ==
  ASSUME Shape, OffsetInv, [Next]_vars
  PROVE  OffsetInv'
<1> USE DEF OffsetInv, ConfirmedIsAnswered
<1> /\ confirmed \in Nat /\ answered \in Nat /\ bot.cursor \in Nat
    /\ IsBot(bot)
  BY DEF Shape, Types, IsBot
<1>0. ASSUME UNCHANGED <<confirmed, answered>>, bot'.cursor = bot.cursor
      PROVE  OffsetInv'
  BY <1>0
<1>1. CASE Loop
  <2>1. CASE handle_update
    BY <2>1, UpdateHandled, <1>0 DEF world
  <2>2. CASE ActionCommits
    BY <2>2, <1>0 DEF ActionCommits, world
  <2>3. CASE get_updates
    BY <2>3 DEF get_updates, world, Greater, IsBot
  <2>4. CASE Answer
    <3>1. /\ bot'.cursor = bot.cursor + 1 /\ confirmed' = confirmed
          /\ answered' = Greater(answered, bot.cursor + 1)
      BY <2>4 DEF Answer, IsBot
    <3> QED  BY <3>1 DEF Greater
  <2>7. CASE AnswerFails
    BY <2>7 DEF AnswerFails, Fresh
  <2>5. CASE poll \/ List \/ NextCycle
    <3>1. UNCHANGED <<confirmed, answered>>
      BY <2>5 DEF poll, List, NextCycle, world
    <3>2. bot'.cursor = bot.cursor
      BY <2>5 DEF poll, List, NextCycle, IsBot
    <3> QED  BY <3>1, <3>2, <1>0
  <2>6. ASSUME NEW e \in Entities, Announce(e) \/ Send(e)
        PROVE  OffsetInv'
    <3>1. UNCHANGED <<confirmed, answered>>
      BY <2>6 DEF Announce, Send, world
    <3>2. bot'.cursor = bot.cursor
      BY <2>6 DEF Announce, Send, IsBot
    <3> QED  BY <3>1, <3>2, <1>0
  <2> QED  BY <1>1, <2>1, <2>2, <2>3, <2>4, <2>5, <2>6, <2>7 DEF Loop
<1>2. CASE Crash
  BY <1>2 DEF Crash, Fresh
<1>3. CASE Operator \/ HandledFailure \/ Elsewhere \/ UNCHANGED vars
  BY <1>3, <1>0 DEF Operator, HandledFailure, Elsewhere, vars, world
<1> QED  BY <1>1, <1>2, <1>3 DEF Next

(***************************************************************************)
(* Telegram never forgets an update that no process has answered, however  *)
(* often the process dies between the answer and the next getUpdates.      *)
(***************************************************************************)
THEOREM UpdatesAreNotLost == Spec => []ConfirmedIsAnswered
<1>1. Init => OffsetInv
  BY DEF Init, Fresh, OffsetInv, ConfirmedIsAnswered
<1>2. Shape /\ OffsetInv /\ [Next]_vars => OffsetInv'
  BY OffsetStep
<1>3. OffsetInv => ConfirmedIsAnswered
  BY DEF OffsetInv
<1> QED  BY <1>1, <1>2, <1>3, ShapeHolds, PTL DEF Spec

(***************************************************************************)
(* Decisions.  A request is actioned, and a press has had its effect, only *)
(* once what it is about is decided; an approval, a rejection and an       *)
(* acknowledgement start on something undecided.                           *)
(***************************************************************************)
RowsDecided ==
  \A r \in Requests :
    /\ requests[r].status = "actioned" => requests[r].actioned
    /\ requests[r].actioned => Decided(r[1])

ActDecided ==
  /\ (act.step \in {"decide", "request"} /\ act.request \in Requests) =>
       ((act.row.status = "actioned" \/ requests[act.request].actioned) => act.row.actioned)
  /\ (act.step = "request" /\ act.row.actioned) => Decided(act.request[1])

\* A press that had every effect it may have leaves a settled subject, after a
\* cancellation one that is not approved.  Only a cancellation can still follow it.
EffectFits(k, e) ==
  /\ effects[k] <= 1 + Undone(e)
  /\ effects[k] = 1 + Undone(e) =>
       /\ Settled(e)
       /\ (e \in Proposals /\ presses[k].action = "cancel") => status[e] # Approved
       /\ (act.step = "decide" /\ act.request[1] = e)
            => act.action = "cancel" /\ presses[k].action # "cancel"

EffectsDecided ==
  \A k \in 1 .. MaxPresses : effects[k] > 0 =>
    k <= Len(presses) /\ \A e \in Entities : e = presses[k].request[1] => EffectFits(k, e)

\* Every step keeps an actioned request with a decided subject.
LEMMA RowsDecidedStep ==
  ASSUME Shape, RowsDecided, ActDecided, [Next]_vars
  PROVE  RowsDecided'
<1> requests \in [Requests -> Request] /\ \A r \in Requests : r[1] \in Entities
  BY DEF Shape, Types, Requests
<1>0. ASSUME NEW r \in Requests, requests'[r] = requests[r]
      PROVE  /\ requests'[r].status = "actioned" => requests'[r].actioned
             /\ requests'[r].actioned => Decided(r[1])'
  BY <1>0, SubjectsOnlyAdvance DEF RowsDecided
<1>1. CASE UNCHANGED requests
  BY <1>0, <1>1 DEF RowsDecided
<1>2. CASE SaveRequest
  <2>1. /\ requests' = [requests EXCEPT ![act.request] = act.row] /\ act.request \in Requests
        /\ act.row.status = "actioned" => act.row.actioned
        /\ act.row.actioned => Decided(act.request[1])
    BY <1>2 DEF SaveRequest, Shape, ActFits, ActDecided
  <2>2. act.request[1] \in Entities
    BY <2>1
  <2>3. act.row.actioned => \A r \in Requests : r = act.request => Decided(r[1])'
    BY <2>1, <2>2, SubjectsOnlyAdvance
  <2>4. \A r \in Requests : requests'[r] = IF r = act.request THEN act.row ELSE requests[r]
    BY <2>1
  <2> QED  BY <1>0, <2>1, <2>3, <2>4 DEF RowsDecided
<1>3. ASSUME NEW e \in Entities, Opens(e)
      PROVE  RowsDecided'
  <2>1. PICK n \in 1 .. MaxPresses + 1 :
          /\ <<e, n>> \in Requests
          /\ requests'[<<e, n>>].status = "open"
          /\ requests'[<<e, n>>].actioned = requests[<<e, n>>].actioned
          /\ \A r \in Requests : r # <<e, n>> => requests'[r] = requests[r]
    BY <1>3, OpensOne DEF Shape
  <2>2. requests'[<<e, n>>].actioned => Decided(<<e, n>>[1])'
    BY <2>1, SubjectsOnlyAdvance DEF RowsDecided
  <2>3. ASSUME NEW r \in Requests
        PROVE  /\ requests'[r].status = "actioned" => requests'[r].actioned
               /\ requests'[r].actioned => Decided(r[1])'
    <3>1. CASE r = <<e, n>>
      BY <2>1, <2>2, <3>1
    <3> QED  BY <1>0, <2>1, <3>1
  <2> QED  BY <2>3 DEF RowsDecided
<1> QED  BY <1>1, <1>2, <1>3, RequestSteps, AnnounceStep DEF RecordAction, Shape

\* The steps that change the action in progress or its effects.
LEMMA ActSteps ==
  ASSUME Shape, [Next]_vars
  PROVE  \/ handle_update
         \/ Decide /\ UNCHANGED presses
         \/ act'.step \notin {"decide", "request"} /\ UNCHANGED effects
         \/ UNCHANGED <<act, requests, effects, presses>>
<1> IsAct(act)
  BY DEF Shape, Types
<1>0. UNCHANGED <<act, effects>> /\ act.step = "idle"
        => act'.step \notin {"decide", "request"} /\ UNCHANGED effects
  OBVIOUS
<1>1. CASE Loop
  <2>1. CASE ActionCommits
    BY <2>1 DEF ActionCommits, SaveRequest, RecordAction, IsAct, Answering, IdleAct, world
  <2>2. CASE Answer \/ AnswerFails
    BY <2>2 DEF Answer, AnswerFails, IdleAct
  <2>3. CASE get_updates \/ poll \/ List \/ NextCycle
    BY <2>3, <1>0, IdleElsewhere DEF get_updates, poll, List, NextCycle, inboxVars
  <2>4. ASSUME NEW e \in Entities, Announce(e) \/ Send(e)
        PROVE  act'.step \notin {"decide", "request"} /\ UNCHANGED effects
    BY <2>4, <1>0, IdleElsewhere, AnnounceStep DEF Send, inboxVars, Shape
  <2> QED  BY <1>1, <2>1, <2>2, <2>3, <2>4 DEF Loop
<1>2. CASE Operator
  BY <1>2, <1>0, IdleElsewhere DEF Operator, inboxVars
<1>3. CASE Crash \/ HandledFailure
  BY <1>3 DEF Crash, HandledFailure, ActionFails, IdleAct, Answering
<1>4. CASE Elsewhere
  BY <1>4 DEF Elsewhere, MoveProposal, RaiseAlert, TransitionAlert, world
<1>5. CASE UNCHANGED vars
  BY <1>5 DEF vars, inboxVars, stored
<1> QED  BY <1>1, <1>2, <1>3, <1>4, <1>5 DEF Next

\* The decision of an action decides the subject of its press.
LEMMA DecideStep ==
  ASSUME Shape, Decide
  PROVE  /\ act.press \in 1 .. Len(presses) /\ act.request \in Subjects
         /\ act.request = presses[act.press].request /\ act.action = presses[act.press].action
         /\ act.request[1] \in Entities
         /\ \A e \in Entities : e = act.request[1] => Settled(e)' /\ Decided(e)'
         /\ \A q \in Proposals : (q = act.request[1] /\ act.action = "cancel") => status'[q] # Approved
<1>1. act.press \in 1 .. Len(presses)
      /\ act.request = presses[act.press].request /\ act.action = presses[act.press].action
  BY DEF Decide, Shape, ActFits, Working
<1>2. act.request \in Subjects
  <2>1. presses[act.press] \in Press
    BY <1>1 DEF Shape, Types
  <2> QED  BY <1>1, <2>1 DEF Press, Subjects
<1>3. /\ \A e \in Entities : e = act.request[1] => Settled(e)'
      /\ \A q \in Proposals : (q = act.request[1] /\ act.action = "cancel") => status'[q] # Approved
  <2>1. \/ /\ act.request[1] \in Proposals /\ act.to \in Done
           /\ act.action = "cancel" => act.to = Cancelled
           /\ status' = [status EXCEPT ![act.request[1]] = act.to]
        \/ /\ act.request[1] \in Alerts /\ act.to = "acknowledged"
           /\ alerts' = [alerts EXCEPT ![act.request[1]] = act.to]
    BY DisjointAssumption DEF Decide, Shape, ActFits
  <2> QED  BY <2>1, DisjointAssumption DEF Settled, Shape, Types, Done, AlertStates, Absent,
             Approved, PolicyRejected, Cancelled
<1> QED  BY <1>1, <1>2, <1>3, SubjectsAreEntities DEF Decided

\* Every step keeps an action past its decision with a decided subject.
LEMMA ActDecidedStep ==
  ASSUME Shape, RowsDecided, ActDecided, [Next]_vars
  PROVE  ActDecided'
<1> IsAct(act)
  BY DEF Shape, Types
<1>1. CASE handle_update
  <2>1. UNCHANGED <<requests, status, alerts, undone>>
    BY <1>1, UpdateHandled DEF stored
  <2>2. CASE act' = Answering
    BY <2>2 DEF ActDecided, Answering, IdleAct
  <2>3. CASE Started(bot.cursor + 1, act')
    <3>1. act'.request \in Requests =>
            (act'.row.actioned <=> requests[act'.request].actioned \/ act'.row.status = "actioned")
      BY <2>3 DEF Started
    <3>2. ASSUME act'.step = "request", act'.row.actioned
          PROVE  Decided(act'.request[1])
      <4>1. /\ act'.request \in Requests /\ Leaves(act'.action, act'.request[1])
            /\ act'.row.status \in RequestStatus(act'.action)
        BY <2>3, <3>2 DEF Started
      <4>2. CASE act'.action \in {"skip", "analysis"}
        BY <3>1, <3>2, <4>1, <4>2 DEF RequestStatus, RowsDecided
      <4>3. CASE act'.request[1] \in Labels
        BY <4>3, DisjointAssumption DEF Decided, Settled
      <4> QED  BY <4>1, <4>2, <4>3 DEF Leaves
    <3>3. act'.step = "request" /\ act'.row.actioned => Decided(act.request[1])'
      BY <2>1, <3>2 DEF Decided, Settled, Undone
    <3> QED  BY <2>1, <3>1, <3>3 DEF ActDecided
  <2> QED  BY <1>1, <2>2, <2>3, UpdateHandled
<1>2. CASE Decide
  <2>1. CASE act' = Answering
    BY <2>1 DEF ActDecided, Answering, IdleAct
  <2>2. CASE act' = [act EXCEPT !.step = "request"] /\ act.request \in Requests
    <3>1. /\ act'.step = "request" /\ act'.request = act.request /\ act'.row = act.row
          /\ act.step = "decide" /\ requests' = requests
      BY <1>2, <2>2 DEF Decide, IsAct
    <3>2. Decided(act.request[1])'
      BY <1>2, <3>1, DecideStep DEF Decided, Settled, Undone
    <3> QED  BY <2>2, <3>1, <3>2 DEF ActDecided
  <2> QED  BY <1>2, <2>1, <2>2 DEF Decide
<1>3. CASE act'.step \notin {"decide", "request"}
  BY <1>3 DEF ActDecided
<1>4. CASE UNCHANGED <<act, requests>>
  <2>1. ASSUME act.step = "request", Decided(act.request[1])
        PROVE  Decided(act.request[1])'
    <3>1. act.request[1] \in Entities
      BY <2>1 DEF Shape, ActFits, Requests
    <3>2. PICK e \in Entities : e = act.request[1]
      BY <3>1
    <3>3. Decided(e)'
      BY <2>1, <3>2, SubjectsOnlyAdvance
    <3> QED  BY <1>4, <3>2, <3>3 DEF Decided, Settled, Undone
  <2> QED  BY <1>4, <2>1 DEF ActDecided
<1> QED  BY <1>1, <1>2, <1>3, <1>4, ActSteps

\* A press that was made stays what it was.
LEMMA PressesStay ==
  ASSUME Shape, [Next]_vars
  PROVE  \A k \in 1 .. MaxPresses : k <= Len(presses) =>
           /\ k <= Len(presses') /\ presses'[k] = presses[k]
           /\ presses[k].request[1] \in Entities
<1> presses \in Seq(Press) /\ Len(presses) \in Nat
  BY DEF Shape, Types
<1>1. ASSUME NEW k \in 1 .. MaxPresses, k <= Len(presses)
      PROVE  presses[k].request[1] \in Entities
  <2>1. presses[k] \in Press
    BY <1>1
  <2> QED  BY <2>1, SubjectsAreEntities DEF Press, Subjects
<1>2. ASSUME NEW k \in 1 .. MaxPresses, k <= Len(presses)
      PROVE  k <= Len(presses') /\ presses'[k] = presses[k]
  BY <1>2, PressesStep, OperatorStep
<1> QED  BY <1>1, <1>2

\* A proposal that is settled without being approved is approved only where that is
\* counted, or by the decision of the action under way.
LEMMA SettledIsFinal ==
  ASSUME Shape, [Next]_vars, NEW q \in Proposals, Settled(q), status[q] # Approved
  PROVE  status'[q] # Approved \/ undone[q] < undone'[q] \/ (Decide /\ act.request[1] = q)
<1> /\ status \in [Proposals -> Statuses] /\ undone \in [Proposals -> Nat]
    /\ status[q] \in {PolicyRejected, Cancelled}
  BY DEF Shape, Types, Settled, Done
<1>1. CASE UNCHANGED status
  BY <1>1
<1>2. CASE Decide
  BY <1>2 DEF Decide
<1>3. ASSUME NEW p \in Proposals, NEW to \in Statuses, MoveProposal(p, to)
      PROVE  status'[q] # Approved \/ undone[q] < undone'[q]
  <2>1. CASE p = q /\ to = Approved
    <3>1. undone' = [undone EXCEPT ![p] = @ + 1]
      BY <1>3, <2>1 DEF MoveProposal, Rank, Approved, Pending, PolicyRejected, Cancelled, Absent
    <3> QED  BY <2>1, <3>1
  <2>2. CASE ~(p = q /\ to = Approved)
    BY <1>3, <2>2 DEF MoveProposal
  <2> QED  BY <2>1, <2>2
<1>4. CASE Elsewhere
  BY <1>1, <1>3, <1>4 DEF Elsewhere, RaiseAlert, TransitionAlert
<1> QED  BY <1>1, <1>2, <1>4, SubjectSteps

\* Every step keeps the effects of a press within what was undone.
LEMMA EffectsDecidedStep ==
  ASSUME Shape, EffectsDecided, [Next]_vars
  PROVE  EffectsDecided'
<1> /\ effects \in [1 .. MaxPresses -> Nat] /\ MaxPresses \in Nat
    /\ Len(presses) \in Nat /\ Len(presses) <= MaxPresses
  BY BoundAssumption DEF Shape, Types
<1> SUFFICES ASSUME NEW k \in 1 .. MaxPresses, effects'[k] > 0
             PROVE  /\ k <= Len(presses')
                    /\ \A e \in Entities : e = presses'[k].request[1] => EffectFits(k, e)'
  BY DEF EffectsDecided
<1>1. CASE Decide /\ act.press = k
  <2>1. /\ k <= Len(presses) /\ act.request = presses[k].request /\ act.action = presses[k].action
        /\ effects'[k] = effects[k] + 1 /\ act.step = "decide" /\ undone' = undone
        /\ k <= Len(presses') /\ presses'[k] = presses[k]
    BY <1>1, DecideStep, PressesStay DEF Decide
  <2>2. act'.step # "decide"
    BY <1>1 DEF Decide, Answering, IdleAct, Shape, Types, IsAct
  <2>3. ASSUME NEW e \in Entities, e = presses'[k].request[1]
        PROVE  EffectFits(k, e)'
    <3>1. Undone(e)' = Undone(e) /\ Undone(e) \in Nat
      BY <2>1, SubjectsOnlyAdvance DEF Undone
    <3>2. effects[k] <= Undone(e)
      <4>1. CASE effects[k] = 0
        BY <3>1, <4>1
      <4>2. CASE effects[k] > 0
        <5>1. EffectFits(k, e)
          BY <2>1, <2>3, <4>2 DEF EffectsDecided
        <5>2. effects[k] # 1 + Undone(e)
          BY <2>1, <2>3, <5>1 DEF EffectFits
        <5> QED  BY <3>1, <5>1, <5>2 DEF EffectFits
      <4> QED  BY <4>1, <4>2
    <3>3. Settled(e)'
      BY <1>1, <2>1, <2>3, DecideStep
    <3>4. (e \in Proposals /\ presses'[k].action = "cancel") => status'[e] # Approved
      BY <1>1, <2>1, <2>3, DecideStep
    <3> QED  BY <2>1, <2>2, <3>1, <3>2, <3>3, <3>4 DEF EffectFits
  <2> QED  BY <2>1, <2>3
<1>2. CASE ~(Decide /\ act.press = k)
  <2>1. effects'[k] = effects[k]
    <3>1. CASE handle_update
      BY <3>1, UpdateHandled DEF stored
    <3>2. CASE Decide
      BY <1>2, <3>2, DecideStep DEF Decide
    <3> QED  BY <3>1, <3>2, ActSteps
  <2>2. /\ k <= Len(presses) /\ k <= Len(presses') /\ presses'[k] = presses[k]
        /\ \A e \in Entities : e = presses[k].request[1] => EffectFits(k, e)
    BY <2>1, PressesStay DEF EffectsDecided
  <2>3. ASSUME NEW e \in Entities, e = presses'[k].request[1]
        PROVE  EffectFits(k, e)'
    <3>1. EffectFits(k, e)
      BY <2>2, <2>3
    <3>2. Undone(e) <= Undone(e)' /\ Undone(e) \in Nat /\ Undone(e)' \in Nat
      BY SubjectsOnlyAdvance
    <3>3. effects'[k] <= 1 + Undone(e)'
      BY <2>1, <3>1, <3>2 DEF EffectFits
    <3>4. ASSUME effects'[k] = 1 + Undone(e)'
          PROVE  /\ Settled(e)'
                 /\ (e \in Proposals /\ presses'[k].action = "cancel") => status'[e] # Approved
                 /\ (act'.step = "decide" /\ act'.request[1] = e)
                      => act'.action = "cancel" /\ presses'[k].action # "cancel"
      <4>1. /\ Undone(e)' = Undone(e) /\ Settled(e)
            /\ (e \in Proposals /\ presses[k].action = "cancel") => status[e] # Approved
            /\ (act.step = "decide" /\ act.request[1] = e)
                 => act.action = "cancel" /\ presses[k].action # "cancel"
        BY <2>1, <3>1, <3>2, <3>4 DEF EffectFits
      <4>2. Settled(e)'
        BY <4>1, <3>2, SubjectsOnlyAdvance
      <4>3. ASSUME e \in Proposals, presses[k].action = "cancel"
            PROVE  status'[e] # Approved
        <5>1. undone'[e] = undone[e] /\ undone[e] \in Nat
          BY <4>1, <4>3 DEF Undone, Shape, Types
        <5>2. ~(Decide /\ act.request[1] = e)
          BY <4>1, <4>3 DEF Decide
        <5> QED  BY <4>1, <4>3, <5>1, <5>2, SettledIsFinal
      <4>4. ASSUME act'.step = "decide", act'.request[1] = e
            PROVE  act'.action = "cancel" /\ presses[k].action # "cancel"
        <5>1. CASE handle_update
          <6>1. act' # Answering
            BY <4>4 DEF Answering, IdleAct
          <6>2. Decides(act'.action, e, act'.to)
            BY <4>4, <5>1, <6>1, UpdateHandled DEF Started
          <6> QED  BY <4>1, <6>2, DisjointAssumption DEF Decides, Settled, Done, Pending, Approved,
                     PolicyRejected, Cancelled
        <5>2. CASE Decide
          BY <4>4, <5>2 DEF Decide, Answering, IdleAct, Shape, Types, IsAct
        <5>3. CASE UNCHANGED <<act, requests, effects, presses>>
          BY <4>1, <4>4, <5>3
        <5> QED  BY <4>4, <5>1, <5>2, <5>3, ActSteps
      <4> QED  BY <2>2, <4>2, <4>3, <4>4
    <3> QED  BY <3>3, <3>4 DEF EffectFits
  <2> QED  BY <2>2, <2>3
<1> QED  BY <1>1, <1>2

DecisionInv == RowsDecided /\ ActDecided /\ EffectsDecided

\* Actioned rows and actions past their decision stand for something that was decided,
\* and the effects of a press for no more than was undone.
THEOREM DecisionsHold == Spec => []DecisionInv
<1>1. Init => DecisionInv
  BY DEF Init, InboxInit, DecisionInv, RowsDecided, ActDecided, EffectsDecided, Blank, IdleAct, Absent
<1>2. Shape /\ DecisionInv /\ [Next]_vars => DecisionInv'
  BY RowsDecidedStep, ActDecidedStep, EffectsDecidedStep DEF DecisionInv
<1> QED  BY <1>1, <1>2, ShapeHolds, PTL DEF Spec

(***************************************************************************)
(* A request that counts as actioned is about something decided, although  *)
(* the decision and the request are two commits with room for a crash and  *)
(* for other processes in between; only a late save, which is counted, can *)
(* have undone the decision.                                               *)
(***************************************************************************)
THEOREM ActionedIsBacked == Spec => []ActionedIsDecided
<1>1. Shape /\ DecisionInv => ActionedIsDecided
  <2> SUFFICES ASSUME Shape, DecisionInv, NEW r \in Requests, requests[r].actioned
               PROVE  /\ r[1] \in Proposals => status[r[1]] # Pending \/ Undone(r[1]) > 0
                      /\ r[1] \in Alerts => alerts[r[1]] # "open"
    BY DEF ActionedIsDecided
  <2>1. Settled(r[1]) \/ Undone(r[1]) > 0
    BY DEF DecisionInv, RowsDecided, Decided
  <2> QED  BY <2>1, DisjointAssumption DEF Settled, Undone, Done, Pending, Approved, PolicyRejected,
             Cancelled
<1> QED  BY <1>1, DecisionsHold, ShapeHolds, PTL

(***************************************************************************)
(* However often the update of a press is delivered, and whoever decides   *)
(* in between, it takes effect at most once, and once more for every       *)
(* decision on its proposal that a late save undid.                        *)
(***************************************************************************)
THEOREM PressesDecideOnce == Spec => []DecidesOnce
<1>1. Shape /\ DecisionInv => DecidesOnce
  <2> SUFFICES ASSUME Shape, DecisionInv, NEW k \in 1 .. Len(presses)
               PROVE  effects[k] <= 1 + Undone(presses[k].request[1])
    BY DEF DecidesOnce
  <2>1. k \in 1 .. MaxPresses /\ effects[k] \in Nat /\ presses[k] \in Press
    BY BoundAssumption DEF Shape, Types
  <2>2. presses[k].request \in Subjects
    BY <2>1 DEF Press, Subjects
  <2>3. PICK e \in Entities : e = presses[k].request[1]
    BY <2>2, SubjectsAreEntities
  <2>4. Undone(e) \in Nat
    BY DEF Undone, Shape, Types
  <2>5. effects[k] <= 1 + Undone(e)
    BY <2>1, <2>3, <2>4 DEF DecisionInv, EffectsDecided, EffectFits
  <2> QED  BY <2>3, <2>5
<1> QED  BY <1>1, DecisionsHold, ShapeHolds, PTL

(***************************************************************************)
(* Announcements, those that wait to be sent with them.  Whatever was      *)
(* announced once more than decisions on it were undone is remembered as   *)
(* seen or is settled, and what is settled is not listed any more: the     *)
(* first poll of a process takes everything else that exists as seen.      *)
(***************************************************************************)
Heard(e) == told[e] + (IF e \in bot.notices THEN 1 ELSE 0)

ToldFits(e) ==
  /\ Heard(e) <= 1 + Undone(e)
  /\ Heard(e) = 1 + Undone(e) =>
       /\ Known(e) /\ e \notin bot.listing
       /\ bot.primed => e \in bot.seen \/ Settled(e)
  /\ e \in bot.notices => e \in bot.seen /\ Known(e)
  /\ e \in bot.listing => e \notin bot.seen

ToldInv == \A e \in Proposals \cup Alerts : ToldFits(e)

\* Every step keeps a subject told no oftener than was undone and once more.
LEMMA ToldStep ==
  ASSUME Shape, ToldInv, [Next]_vars, NEW e \in Proposals \cup Alerts
  PROVE  ToldFits(e)'
<1> /\ ToldFits(e) /\ e \in Entities /\ IsBot(bot)
    /\ told[e] \in Nat
    /\ told \in [Proposals \cup Alerts -> Nat]
  BY DEF ToldInv, Entities, Shape, Types
<1>a. /\ Known(e) => Known(e)'
      /\ Undone(e) <= Undone(e)' /\ Undone(e) \in Nat /\ Undone(e)' \in Nat
      /\ Settled(e) => Settled(e)' \/ Undone(e) < Undone(e)'
  BY SubjectsOnlyAdvance
<1>b. Known(e) /\ ~Settled(e) => e \in ActiveProposals \cup OpenAlerts
  BY DisjointAssumption DEF Known, Settled, ActiveProposals, OpenAlerts, Done, Shape, Types, Statuses,
       AlertStates, Pending, Approved, PolicyRejected, Cancelled, Absent
<1>0. ASSUME told' = told, bot'.primed = bot.primed, bot'.seen = bot.seen,
             bot'.listing = bot.listing, bot'.notices = bot.notices
      PROVE  ToldFits(e)'
  <2>1. Heard(e)' = Heard(e) /\ Heard(e) \in Nat
    BY <1>0 DEF Heard
  <2> QED  BY <1>0, <1>a, <2>1 DEF ToldFits
<1>d. ASSUME told' = told, bot' = Fresh
      PROVE  ToldFits(e)'
  <2>1. Heard(e)' <= Heard(e) /\ Heard(e) \in Nat /\ Heard(e)' \in Nat
    BY <1>d DEF Heard, Fresh
  <2> QED  BY <1>d, <1>a, <2>1 DEF ToldFits, Fresh
<1>1. CASE Loop
  <2>1. CASE handle_update
    BY <2>1, UpdateHandled, <1>0 DEF world
  <2>2. CASE ActionCommits
    BY <2>2, <1>0 DEF ActionCommits, world
  <2>3. CASE get_updates \/ Answer \/ NextCycle
    <3>1. told' = told
      BY <2>3 DEF get_updates, Answer, NextCycle, world
    <3>2. /\ bot'.primed = bot.primed /\ bot'.seen = bot.seen
          /\ bot'.listing = bot.listing /\ bot'.notices = bot.notices
      BY <2>3 DEF get_updates, Answer, NextCycle, IsBot
    <3> QED  BY <3>1, <3>2, <1>0
  <2>4. CASE poll
    <3>1. /\ told' = told /\ bot'.primed
          /\ bot'.seen = IF bot.primed THEN bot.seen ELSE ActiveProposals \cup OpenAlerts
          /\ bot'.listing = bot.listing /\ bot'.notices = bot.notices
          /\ bot.listing = {} /\ bot.notices = {}
      BY <2>4 DEF poll, world, IsBot, Shape, BotFits
    <3>2. Heard(e)' = Heard(e) /\ Heard(e) \in Nat
      BY <3>1 DEF Heard
    <3>3. UNCHANGED <<status, alerts, undone>>
      BY <2>4 DEF poll, inboxVars, stored
    <3>4. Settled(e)' = Settled(e) /\ Known(e)' = Known(e) /\ Undone(e)' = Undone(e)
      BY <3>3 DEF Settled, Known, Undone
    <3> QED  BY <3>1, <3>2, <3>4, <1>a, <1>b DEF ToldFits
  <2>5. CASE List
    <3>1. /\ told' = told /\ bot'.primed = bot.primed /\ bot.primed
          /\ bot'.seen = bot.seen /\ bot'.notices = bot.notices
          /\ bot'.listing = (({q \in Proposals : status[q] = Pending} \cup OpenAlerts) \ bot.seen)
                              \cup bot.failing
      BY <2>5 DEF List, world, IsBot, Shape, BotFits
    <3>2. e \notin bot.failing
      BY DisjointAssumption DEF IsBot
    <3>3. e \in bot'.listing => e \notin bot.seen /\ ~Settled(e)
      BY <3>1, <3>2, DisjointAssumption DEF Settled, Done, Pending, Approved, PolicyRejected, Cancelled,
           OpenAlerts
    <3>4. Heard(e)' = Heard(e) /\ Heard(e) \in Nat
      BY <3>1 DEF Heard
    <3> QED  BY <3>1, <3>3, <3>4, <1>a DEF ToldFits
  <2>6. ASSUME NEW f \in Entities, Announce(f)
        PROVE  ToldFits(e)'
    <3>1. /\ told' = told /\ f \in bot.listing
          /\ bot' = [bot EXCEPT !.listing = bot.listing \ {f}, !.seen = bot.seen \cup ({f} \ Labels),
                                !.notices = bot.notices \cup ({f} \ Labels)]
      BY <2>6, AnnounceStep DEF Shape, world
    <3>2. /\ bot'.primed = bot.primed /\ bot'.listing = bot.listing \ {f}
          /\ bot'.seen = bot.seen \cup ({f} \ Labels) /\ bot'.notices = bot.notices \cup ({f} \ Labels)
      BY <3>1 DEF IsBot
    <3>3. Known(f)
      BY <3>1 DEF Shape, BotFits
    <3>4. CASE e = f
      <4>1. e \notin bot.notices /\ e \notin Labels
        BY <3>1, <3>4, DisjointAssumption DEF ToldFits
      <4>2. Heard(e)' = Heard(e) + 1 /\ Heard(e) \in Nat
        BY <3>1, <3>2, <3>4, <4>1 DEF Heard
      <4>3. Heard(e)' <= 1 + Undone(e)
        BY <3>1, <3>4, <4>2, <1>a DEF ToldFits
      <4> QED  BY <3>1, <3>2, <3>3, <3>4, <4>1, <4>2, <4>3, <1>a DEF ToldFits
    <3>5. CASE e # f
      <4>1. Heard(e)' = Heard(e) /\ Heard(e) \in Nat
        BY <3>1, <3>2, <3>5 DEF Heard
      <4> QED  BY <3>1, <3>2, <3>5, <4>1, <1>a DEF ToldFits
    <3> QED  BY <3>4, <3>5
  <2>7. ASSUME NEW f \in Entities, Send(f)
        PROVE  ToldFits(e)'
    <3>1. /\ told' = [told EXCEPT ![f] = @ + 1] /\ f \in bot.notices /\ bot.listing = {}
          /\ bot'.primed = bot.primed /\ bot'.listing = bot.listing /\ bot'.seen = bot.seen
          /\ bot'.notices = bot.notices \ {f}
      BY <2>7 DEF Send, IsBot
    <3>2. Heard(e)' = Heard(e) /\ Heard(e) \in Nat
      <4>1. f \in Proposals \cup Alerts
        BY <3>1 DEF IsBot
      <4>2. CASE e = f
        BY <3>1, <4>1, <4>2 DEF Heard
      <4>3. CASE e # f
        BY <3>1, <4>1, <4>3 DEF Heard
      <4> QED  BY <4>2, <4>3
    <3> QED  BY <3>1, <3>2, <1>a DEF ToldFits
  <2>8. CASE AnswerFails
    BY <2>8, <1>d DEF AnswerFails
  <2> QED  BY <1>1, <2>1, <2>2, <2>3, <2>4, <2>5, <2>6, <2>7, <2>8 DEF Loop
<1>2. CASE Crash
  BY <1>2, <1>d DEF Crash
<1>3. CASE Operator \/ HandledFailure \/ Elsewhere \/ UNCHANGED vars
  BY <1>3, <1>0 DEF Operator, HandledFailure, Elsewhere, vars, world
<1> QED  BY <1>1, <1>2, <1>3 DEF Next

(***************************************************************************)
(* A proposal or an alert is announced at most once, and once more for     *)
(* every decision on it that a late save undid, whatever the process       *)
(* forgets when it dies and whatever other processes do to it meanwhile.   *)
(***************************************************************************)
THEOREM AnnouncementsAreNotRepeated == Spec => []AnnouncedOnce
<1>1. Init => ToldInv
  BY DEF Init, InboxInit, Fresh, ToldInv, ToldFits, Heard, Undone
<1>2. Shape /\ ToldInv /\ [Next]_vars => ToldInv'
  BY ToldStep DEF ToldInv
<1>3. Shape /\ ToldInv => AnnouncedOnce
  <2> SUFFICES ASSUME Shape, ToldInv, NEW e \in Proposals \cup Alerts
               PROVE  told[e] <= 1 + Undone(e)
    BY DEF AnnouncedOnce
  <2>1. Heard(e) <= 1 + Undone(e)
    BY DEF ToldInv, ToldFits
  <2> QED  BY <2>1 DEF Heard, Undone, Shape, Types
<1> QED  BY <1>1, <1>2, <1>3, ShapeHolds, PTL DEF Spec

(***************************************************************************)
(* Requests.  A second one about the same thing is opened only after the   *)
(* first was actioned, and nothing whose request was actioned is listed,   *)
(* unless a late save undid a decision on it.                              *)
(***************************************************************************)
Opened(r) == requests[r].status # Absent
Recurs(e) == e \in Labels \/ Undone(e) > 0

PairFits(r, s) ==
  (r # s /\ r[1] = s[1] /\ Opened(r) /\ Opened(s)) =>
    Recurs(r[1]) /\ (requests[r].actioned \/ requests[s].actioned)

SubjectInv ==
  /\ \A r, s \in Requests : PairFits(r, s)
  /\ \A r \in Requests : (r[1] \in bot.listing /\ requests[r].actioned) => Recurs(r[1])

\* What recurs keeps recurring.
LEMMA RecursStays ==
  ASSUME Shape, [Next]_vars, NEW e \in Entities, Recurs(e)
  PROVE  Recurs(e)'
  BY SubjectsOnlyAdvance DEF Recurs

\* Two requests of one subject, after any step: it recurs, and one of them was actioned.
LEMMA PairStep ==
  ASSUME Shape, DecisionInv, SubjectInv, [Next]_vars
  PROVE  \A r, s \in Requests : PairFits(r, s)'
<1> requests \in [Requests -> Request] /\ \A r \in Requests : r[1] \in Entities
  BY DEF Shape, Types, Requests
<1>0. ASSUME NEW r \in Requests, NEW s \in Requests, Opened(r)' => Opened(r), Opened(s)' => Opened(s),
             requests[r].actioned => requests'[r].actioned, requests[s].actioned => requests'[s].actioned
      PROVE  PairFits(r, s)'
  BY <1>0, RecursStays DEF SubjectInv, PairFits
<1>1. CASE UNCHANGED requests
  BY <1>0, <1>1 DEF Opened
<1>2. CASE SaveRequest
  <2>1. /\ requests' = [requests EXCEPT ![act.request] = act.row] /\ act.request \in Requests
        /\ act.step = "request"
        /\ Opened(act.request)
    BY <1>2 DEF SaveRequest, Shape, ActFits, BotFits, PressFits, Working, Opened
  <2>2. requests[act.request].actioned => act.row.actioned
    BY <2>1 DEF DecisionInv, ActDecided
  <2>3. \A r \in Requests : requests'[r] = IF r = act.request THEN act.row ELSE requests[r]
    BY <2>1
  <2>4. \A r \in Requests : (Opened(r)' => Opened(r))
                            /\ (requests[r].actioned => requests'[r].actioned)
    BY <2>1, <2>2, <2>3 DEF Opened
  <2> QED  BY <1>0, <2>4
<1>3. ASSUME NEW e \in Entities, Announce(e), Opens(e)
      PROVE  \A r, s \in Requests : PairFits(r, s)'
  <2>1. PICK n \in 1 .. MaxPresses + 1 :
          /\ <<e, n>> \in Requests
          /\ requests'[<<e, n>>].actioned = requests[<<e, n>>].actioned
          /\ \A r \in Requests : r # <<e, n>> => requests'[r] = requests[r]
    BY <1>3, OpensOne DEF Shape
  <2>2. e \in bot.listing
    BY <1>3, AnnounceStep DEF Shape
  <2>3. ASSUME NEW s \in Requests, s[1] = e, Opened(s)
        PROVE  requests[s].actioned /\ Recurs(e)
    <3>1. requests[s].status = "actioned"
      BY <1>3, <2>3 DEF Opens, ActiveFor, Opened, Request, RequestStates, ActiveStates
    <3>2. requests[s].actioned
      BY <3>1 DEF DecisionInv, RowsDecided
    <3> QED  BY <2>2, <2>3, <3>2 DEF SubjectInv
  <2>4. ASSUME NEW s \in Requests, s # <<e, n>>, s[1] = e, Opened(s)'
        PROVE  requests'[s].actioned /\ Recurs(e)'
    BY <2>1, <2>3, <2>4, RecursStays DEF Opened
  <2>5. ASSUME NEW r \in Requests, NEW s \in Requests
        PROVE  PairFits(r, s)'
    <3>1. CASE r = <<e, n>> \/ s = <<e, n>>
      <4>1. <<e, n>>[1] = e
        OBVIOUS
      <4>2. CASE r = <<e, n>>
        BY <2>4, <4>1, <4>2 DEF PairFits
      <4>3. CASE s = <<e, n>>
        <5>1. (r # s /\ r[1] = s[1] /\ Opened(r)') => requests'[r].actioned /\ Recurs(e)' /\ r[1] = e
          BY <2>4, <4>1, <4>3
        <5> QED  BY <5>1 DEF PairFits
      <4> QED  BY <3>1, <4>2, <4>3
    <3>2. CASE r # <<e, n>> /\ s # <<e, n>>
      BY <1>0, <2>1, <3>2 DEF Opened
    <3> QED  BY <3>1, <3>2
  <2> QED  BY <2>5
<1> QED  BY <1>1, <1>2, <1>3, RequestSteps, AnnounceStep DEF RecordAction, Shape

\* A subject that is listed for an announcement has no actioned request, unless it recurs.
LEMMA ListedStep ==
  ASSUME Shape, DecisionInv, SubjectInv, [Next]_vars
  PROVE  \A r \in Requests : (r[1] \in bot'.listing /\ requests'[r].actioned) => Recurs(r[1])'
<1> /\ requests \in [Requests -> Request] /\ IsBot(bot) /\ BotFits
    /\ \A r \in Requests : r[1] \in Entities
  BY DEF Shape, Types, Requests
<1>0. ASSUME bot'.listing \subseteq bot.listing,
             \A r \in Requests : requests'[r].actioned = requests[r].actioned
      PROVE  \A r \in Requests : (r[1] \in bot'.listing /\ requests'[r].actioned) => Recurs(r[1])'
  BY <1>0, RecursStays DEF SubjectInv
<1>1. CASE bot'.listing = {}
  BY <1>1
<1>2. ASSUME NEW e \in Entities, Announce(e)
      PROVE  \A r \in Requests : (r[1] \in bot'.listing /\ requests'[r].actioned) => Recurs(r[1])'
  <2>1. /\ UNCHANGED requests \/ Opens(e)
        /\ bot' = [bot EXCEPT !.listing = bot.listing \ {e}, !.seen = bot.seen \cup ({e} \ Labels),
                              !.notices = bot.notices \cup ({e} \ Labels)]
    BY <1>2, AnnounceStep DEF Shape
  <2>2. bot'.listing \subseteq bot.listing
    BY <2>1 DEF IsBot
  <2>3. \A r \in Requests : requests'[r].actioned = requests[r].actioned
    BY <2>1, OpensOne DEF Shape
  <2> QED  BY <1>0, <2>2, <2>3
<1>3. CASE List
  <2>1. /\ bot'.listing = (({q \in Proposals : status[q] = Pending} \cup OpenAlerts) \ bot.seen)
                            \cup bot.failing
        /\ requests' = requests
    BY <1>3 DEF List, inboxVars, stored, IsBot
  <2>2. ASSUME NEW r \in Requests, requests[r].actioned, r[1] \in bot'.listing
        PROVE  Recurs(r[1])'
    <3>1. Decided(r[1])
      BY <2>2 DEF DecisionInv, RowsDecided
    <3>2. Settled(r[1]) => r[1] \in Labels
      BY <2>1, <2>2, DisjointAssumption DEF Settled, Done, Pending, Approved, PolicyRejected, Cancelled,
           OpenAlerts, IsBot
    <3>3. Recurs(r[1])
      BY <3>1, <3>2 DEF Decided, Recurs
    <3> QED  BY <3>3, RecursStays
  <2> QED  BY <2>1, <2>2
<1>4. CASE handle_update
  BY <1>4, <1>0, UpdateHandled DEF stored
<1>5. CASE ActionCommits
  <2>1. bot' = bot
    BY <1>5 DEF ActionCommits
  <2>2. bot.phase = "updates"
    BY <1>5 DEF ActionCommits, Decide, SaveRequest, RecordAction, Shape, ActFits
  <2> QED  BY <2>1, <2>2, <1>1 DEF BotFits
<1>6. CASE get_updates \/ Answer \/ poll \/ NextCycle
  <2>1. requests' = requests
    BY <1>6 DEF get_updates, Answer, poll, NextCycle, inboxVars, stored
  <2>2. bot'.listing = bot.listing
    BY <1>6 DEF get_updates, Answer, poll, NextCycle, IsBot
  <2> QED  BY <1>0, <2>1, <2>2
<1>7. ASSUME NEW e \in Entities, Send(e)
      PROVE  requests' = requests /\ bot'.listing = bot.listing
  BY <1>7 DEF Send, inboxVars, stored, IsBot
<1>8. CASE Crash \/ AnswerFails
  BY <1>1, <1>8 DEF Crash, AnswerFails, Fresh
<1>9. CASE Operator \/ HandledFailure \/ Elsewhere \/ UNCHANGED vars
  BY <1>9, <1>0 DEF Operator, HandledFailure, ActionFails, Elsewhere, MoveProposal, RaiseAlert,
                    TransitionAlert, vars, inboxVars, stored
<1> QED  BY <1>0, <1>2, <1>3, <1>4, <1>5, <1>6, <1>7, <1>8, <1>9 DEF Next, Loop

\* A subject has two requests only if it recurs and one of them was actioned.
THEOREM SubjectsHold == Spec => []SubjectInv
<1>1. Init => SubjectInv
  BY DEF Init, InboxInit, SubjectInv, PairFits, Opened, Blank, Fresh
<1>2. Shape /\ DecisionInv /\ SubjectInv /\ [Next]_vars => SubjectInv'
  BY PairStep, ListedStep DEF SubjectInv
<1> QED  BY <1>1, <1>2, ShapeHolds, DecisionsHold, PTL DEF Spec

(***************************************************************************)
(* A proposal and an alert get one request in their life, although the bot *)
(* forgets at a restart what it has announced, unless a late save undid a  *)
(* decision on the proposal.  Two active requests about one thing are      *)
(* there only if one of them was actioned before.                          *)
(***************************************************************************)
THEOREM SubjectsGetOneRequest == Spec => []OneRequestPerSubject
<1>1. SubjectInv => OneRequestPerSubject
  BY DEF SubjectInv, PairFits, Opened, Recurs, OneRequestPerSubject
<1> QED  BY <1>1, SubjectsHold, PTL

(***************************************************************************)
(* Records.  Between the commit of a request and that of its record the    *)
(* action under way explains the request.                                  *)
(***************************************************************************)
Explained(r) ==
  requests[r].status \in IF records[r] = NoRecord THEN {Absent, "open"} ELSE RequestStatus(records[r])

RowExplained(r) ==
  IF act.step = "record" /\ act.request = r THEN requests[r].status \in RequestStatus(act.action)
  ELSE Explained(r)

RecordInv == failures = 0 => \A r \in Requests : RowExplained(r)

\* The steps that change requests and records, as long as nothing failed.
LEMMA RecordSteps ==
  ASSUME Shape, [Next]_vars
  PROVE  /\ failures' = 0 => failures = 0
         /\ \/ failures' # 0
            \/ SaveRequest
            \/ RecordAction
            \/ UNCHANGED <<requests, records>>
                 /\ (UNCHANGED act \/ (act.step # "record" /\ act'.step # "record"))
            \/ \E e \in Entities : Announce(e)
<1> failures \in Nat /\ IsAct(act)
  BY DEF Shape, Types
<1>1. CASE Loop
  <2>1. CASE handle_update
    BY <2>1, UpdateHandled DEF world, stored, Started, Answering, IdleAct
  <2>2. CASE ActionCommits
    <3>1. failures' = failures
      BY <2>2 DEF ActionCommits, world
    <3>2. CASE Decide
      BY <3>1, <3>2 DEF Decide, IsAct, Answering, IdleAct
    <3> QED  BY <2>2, <3>1, <3>2 DEF ActionCommits
  <2>3. CASE get_updates \/ poll \/ List \/ NextCycle
    BY <2>3 DEF get_updates, poll, List, NextCycle, inboxVars, stored, world
  <2>6. CASE Answer \/ AnswerFails
    <3>1. act.step # "record" /\ act'.step # "record" /\ failures' = failures
      BY <2>6 DEF Answer, AnswerFails, IdleAct
    <3> QED  BY <2>6, <3>1 DEF Answer, AnswerFails, stored
  <2>4. ASSUME NEW e \in Entities, Announce(e)
        PROVE  failures' = failures
    BY <2>4 DEF Announce, world
  <2>5. ASSUME NEW e \in Entities, Send(e)
        PROVE  failures' = failures /\ UNCHANGED <<requests, records, act>>
    BY <2>5 DEF Send, inboxVars, stored
  <2> QED  BY <1>1, <2>1, <2>2, <2>3, <2>4, <2>5, <2>6 DEF Loop
<1>2. CASE Crash \/ HandledFailure
  <2>1. failures' = failures + 1
    BY <1>2 DEF Crash, HandledFailure
  <2> QED  BY <2>1
<1>3. CASE Operator \/ Elsewhere \/ UNCHANGED vars
  BY <1>3 DEF Operator, Elsewhere, MoveProposal, RaiseAlert, TransitionAlert, vars, inboxVars, stored, world
<1> QED  BY <1>1, <1>2, <1>3 DEF Next

\* Every step keeps the records of a request in step with its status.
LEMMA RecordInvStep ==
  ASSUME Shape, RecordInv, [Next]_vars
  PROVE  RecordInv'
<1> /\ requests \in [Requests -> Request] /\ records \in [Requests -> Actions \cup {NoRecord}]
    /\ IsAct(act)
  BY DEF Shape, Types
<1> SUFFICES ASSUME failures' = 0, NEW r \in Requests
             PROVE  RowExplained(r)'
  BY DEF RecordInv
<1>1. RowExplained(r)
  BY RecordSteps DEF RecordInv
<1>2. CASE SaveRequest
  <2>1. /\ requests' = [requests EXCEPT ![act.request] = act.row] /\ records' = records
        /\ act.step = "request" /\ act'.step = "record" /\ act'.request = act.request
        /\ act'.action = act.action /\ act.row.status \in RequestStatus(act.action)
        /\ act.request \in Requests
    BY <1>2 DEF SaveRequest, IsAct, Shape, ActFits, Working
  <2>2. CASE r = act.request
    <3>1. requests'[r].status \in RequestStatus(act.action)
      BY <2>1, <2>2
    <3> QED  BY <2>1, <2>2, <3>1 DEF RowExplained, RequestStatus
  <2>3. CASE r # act.request
    <3>1. requests'[r] = requests[r] /\ Explained(r)
      BY <1>1, <2>1, <2>3 DEF RowExplained
    <3> QED  BY <2>1, <2>3, <3>1 DEF RowExplained, Explained
  <2> QED  BY <2>2, <2>3
<1>3. CASE RecordAction
  <2>1. /\ records' = [records EXCEPT ![act.request] = act.action] /\ requests' = requests
        /\ act.step = "record" /\ act'.step = "answer" /\ act.action \in Actions
    BY <1>3 DEF RecordAction, record_action, IsAct, Answering, IdleAct
  <2>2. CASE r = act.request
    <3>1. requests[r].status \in RequestStatus(act.action)
      BY <1>1, <2>1, <2>2 DEF RowExplained
    <3>2. records'[r] = act.action /\ act.action # NoRecord
      BY <2>1, <2>2 DEF NoRecord, Actions, Decisions
    <3> QED  BY <2>1, <3>1, <3>2 DEF RowExplained, Explained
  <2>3. CASE r # act.request
    <3>1. records'[r] = records[r] /\ Explained(r)
      BY <1>1, <2>1, <2>3 DEF RowExplained
    <3> QED  BY <2>1, <3>1 DEF RowExplained, Explained
  <2> QED  BY <2>2, <2>3
<1>4. CASE UNCHANGED <<requests, records>>
           /\ (UNCHANGED act \/ (act.step # "record" /\ act'.step # "record"))
  BY <1>1, <1>4 DEF RowExplained, Explained
<1>5. ASSUME NEW e \in Entities, Announce(e)
      PROVE  RowExplained(r)'
  <2>1. /\ UNCHANGED <<records, act>> /\ bot.phase = "announce"
        /\ UNCHANGED requests \/ Opens(e)
    BY <1>5, AnnounceStep DEF Shape
  <2>2. act.step = "idle"
    BY <2>1, IdleElsewhere
  <2>3. CASE UNCHANGED requests
    BY <1>1, <2>1, <2>3 DEF RowExplained, Explained
  <2>4. CASE Opens(e)
    <3>1. PICK n \in 1 .. MaxPresses + 1 :
            /\ <<e, n>> \in Requests /\ requests[<<e, n>>].status = Absent
            /\ requests'[<<e, n>>].status = "open"
            /\ \A s \in Requests : s # <<e, n>> => requests'[s] = requests[s]
      BY <2>4, OpensOne DEF Shape
    <3>2. CASE r = <<e, n>>
      <4>1. Explained(r) /\ requests[r].status = Absent
        BY <1>1, <2>2, <3>1, <3>2 DEF RowExplained
      <4>2. \A action : Absent \notin RequestStatus(action)
        BY DEF RequestStatus, Absent
      <4>3. records[r] = NoRecord
        BY <4>1, <4>2 DEF Explained
      <4> QED  BY <2>1, <2>2, <3>1, <3>2, <4>3 DEF RowExplained, Explained
    <3>3. CASE r # <<e, n>>
      BY <1>1, <2>1, <2>2, <3>1, <3>3 DEF RowExplained, Explained
    <3> QED  BY <3>2, <3>3
  <2> QED  BY <2>1, <2>3, <2>4
<1> QED  BY <1>2, <1>3, <1>4, <1>5, RecordSteps

(***************************************************************************)
(* As long as nothing failed and no action is under way, the newest record *)
(* of a request says how it got its status, although the two are written   *)
(* by separate commits.                                                    *)
(***************************************************************************)
THEOREM RecordsTellTheStatus == Spec => []RecordsExplainRequests
<1>1. Init => RecordInv
  BY DEF Init, InboxInit, RecordInv, RowExplained, Explained, IdleAct, Blank
<1>2. Shape /\ RecordInv /\ [Next]_vars => RecordInv'
  BY RecordInvStep
<1>3. RecordInv => RecordsExplainRequests
  BY DEF RecordInv, RowExplained, Explained, RecordsExplainRequests, RequestStatus
<1> QED  BY <1>1, <1>2, <1>3, ShapeHolds, PTL DEF Spec
===============================================================================
