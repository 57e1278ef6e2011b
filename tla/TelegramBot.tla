------------------------------ MODULE TelegramBot ------------------------------
(***************************************************************************)
(* The Telegram process: TelegramBotApp.run_cycle with the polling of      *)
(* TelegramOperatorService.  One thread repeats                            *)
(*                                                                         *)
(*   getUpdates -> handle and answer each -> poll -> announce -> send      *)
(*                                                                         *)
(* The offset of the next update, whether the first poll has been made and *)
(* what has been announced are in memory only.  An update is forgotten by  *)
(* Telegram when a getUpdates with a higher offset arrives.  An answer     *)
(* that cannot be sent ends the process, and its supervisor starts another *)
(* which is given the same update again.                                   *)
(***************************************************************************)
EXTENDS DecisionInbox

CONSTANTS
  MaxFailures   \* bound on crashes for no lasting reason and on failing actions

VARIABLES
  presses,     \* the updates an operator has sent; update_id is the index
  refused,     \* those whose answer Telegram will not take any more
  confirmed,   \* how many of them Telegram has forgotten
  answered,    \* how many of them some process has answered
  bot,         \* the memory of the process
  told,        \* how often each entity was announced
  failures

vars == <<inboxVars, presses, refused, confirmed, answered, bot, told, failures>>
world == <<presses, refused, answered, told, failures>>

ASSUME FailuresAssumption == MaxFailures \in Nat

Phases == {"fetch", "updates", "scan", "announce"}
Fresh == [phase |-> "fetch", cursor |-> 0, primed |-> FALSE, seen |-> {},
          failing |-> {}, listing |-> {}, notices |-> {}]

TypeOK ==
  /\ InboxTypeOK
  /\ presses \in Seq(Press) /\ Len(presses) <= MaxPresses
  /\ refused \subseteq 1 .. Len(presses)
  /\ confirmed \in 0 .. Len(presses) /\ answered \in 0 .. Len(presses)
  /\ bot.phase \in Phases
  /\ bot.cursor \in 0 .. Len(presses)
  /\ bot.seen \subseteq Proposals \cup Alerts
  /\ bot.listing \cup bot.notices \subseteq Entities
  /\ told \in [Proposals \cup Alerts -> Nat]
  /\ failures \in 0 .. MaxFailures

Init ==
  /\ InboxInit
  /\ presses = << >> /\ refused = {}
  /\ confirmed = 0 /\ answered = 0
  /\ bot = Fresh
  /\ told = [e \in Proposals \cup Alerts |-> 0]
  /\ failures = 0

(***************************************************************************)
(* Updates                                                                 *)
(***************************************************************************)
Greater(m, n) == IF m < n THEN n ELSE m

\* Mutant: a fresh process asks from the newest update on.
get_updates_Latest ==
  /\ bot.phase = "fetch"
  /\ confirmed' = IF bot.primed THEN Greater(confirmed, bot.cursor) ELSE Len(presses)
  /\ bot' = [bot EXCEPT !.phase = "updates", !.cursor = confirmed']
  /\ UNCHANGED <<inboxVars, world>>

\* get_updates(offset): what is below the offset is confirmed, the rest returned.
get_updates ==
  /\ bot.phase = "fetch"
  /\ confirmed' = Greater(confirmed, bot.cursor)
  /\ bot' = [bot EXCEPT !.phase = "updates", !.cursor = confirmed']
  /\ UNCHANGED <<inboxVars, world>>

\* A button of a request: the action, and what the next request is, a read.
handle_request_press(k, press) == press.request \in Requests /\ apply_action(k, press)

\* A button of a proposal's card: the same decision with no request to close.
handle_proposal_press(k, press) == press.request \notin Requests /\ apply_action(k, press)

handle_update ==
  /\ bot.phase = "updates" /\ bot.cursor < Len(presses)
  /\ LET k == bot.cursor + 1
     IN  handle_request_press(k, presses[k]) \/ handle_proposal_press(k, presses[k])
  /\ UNCHANGED <<confirmed, bot, world>>

ActionCommits ==
  /\ Decide \/ SaveRequest \/ RecordAction
  /\ UNCHANGED <<confirmed, bot, world>>

\* Mutant: the offset stays where it is.
Answer_NoOffset ==
  /\ act.step = "answer"
  /\ act' = IdleAct
  /\ bot' = [bot EXCEPT !.phase = "fetch"]
  /\ UNCHANGED <<stored, effects, confirmed, world>>

\* The answer is sent.
Answer ==
  /\ act.step = "answer" /\ bot.cursor + 1 \notin refused
  /\ act' = IdleAct
  /\ answered' = Greater(answered, bot.cursor + 1)
  /\ bot' = [bot EXCEPT !.cursor = bot.cursor + 1]
  /\ UNCHANGED <<stored, effects, confirmed, presses, refused, told, failures>>

\* Telegram refuses the answer for good: the query is too old, or the operator has
\* blocked the bot.  Nothing catches that: the process ends and another one starts,
\* as often as the update comes.
AnswerFails ==
  /\ act.step = "answer"
  /\ refused' = refused \cup {bot.cursor + 1}
  /\ act' = IdleAct
  /\ bot' = Fresh
  /\ UNCHANGED <<stored, effects, confirmed, presses, answered, told, failures>>

(***************************************************************************)
(* poll_notifications                                                      *)
(***************************************************************************)
ActiveProposals == {q \in Proposals : status[q] \in {Pending, Approved}}
OpenAlerts == {a \in Alerts : alerts[a] = "open"}

\* Mutant: every poll takes what is stored as announced.
poll_PrimesAlways ==
  /\ bot.phase = "updates" /\ bot.cursor = Len(presses)
  /\ \E failing \in IF bot.primed THEN SUBSET Labels ELSE {{}} :
       bot' = [bot EXCEPT !.phase = "scan", !.primed = TRUE, !.failing = failing,
                          !.seen = ActiveProposals \cup OpenAlerts]
  /\ UNCHANGED <<inboxVars, confirmed, world>>

\* The first poll of a process takes what is stored now as announced, and ignores
\* its diagnostics.  A later one runs them if they are due.
poll ==
  /\ bot.phase = "updates" /\ bot.cursor = Len(presses)
  /\ \E failing \in IF bot.primed THEN SUBSET Labels ELSE {{}} :
       bot' = [bot EXCEPT !.phase = "scan", !.primed = TRUE, !.failing = failing,
                 !.seen = IF bot.primed THEN bot.seen ELSE ActiveProposals \cup OpenAlerts]
  /\ UNCHANGED <<inboxVars, confirmed, world>>

\* The second listing; alerts the background scan raised in between are in it.
List ==
  /\ bot.phase = "scan"
  /\ bot' = [bot EXCEPT !.phase = "announce",
       !.listing = (({q \in Proposals : status[q] = Pending} \cup OpenAlerts) \ bot.seen)
                   \cup bot.failing]
  /\ UNCHANGED <<inboxVars, confirmed, world>>

\* Mutant: an announced entity is not remembered.
Announce_Forgets(e) ==
  /\ bot.phase = "announce" /\ e \in bot.listing
  /\ CreateOrUpdate(e)
  /\ bot' = [bot EXCEPT !.listing = bot.listing \ {e}, !.notices = bot.notices \cup ({e} \ Labels)]
  /\ UNCHANGED <<confirmed, world>>

\* Proposals first, then alerts, then the failing checks.  Whether the operator is
\* told of a failing check depends on the wording of the last one: left out.
Announce(e) ==
  /\ bot.phase = "announce" /\ e \in bot.listing
  /\ e \notin Proposals => bot.listing \cap Proposals = {}
  /\ e \in Labels => bot.listing \subseteq Labels
  /\ \/ create_proposal_review_request(e)
     \/ create_alert_request(e)
     \/ create_diagnostics_requests(e)
  /\ bot' = [bot EXCEPT !.listing = bot.listing \ {e}, !.seen = bot.seen \cup ({e} \ Labels),
                        !.notices = bot.notices \cup ({e} \ Labels)]
  /\ UNCHANGED <<confirmed, world>>

\* A message that cannot be sent is logged and forgotten.
Send(e) ==
  /\ bot.phase = "announce" /\ bot.listing = {} /\ e \in bot.notices
  /\ bot' = [bot EXCEPT !.notices = bot.notices \ {e}]
  /\ told' = [told EXCEPT ![e] = @ + 1]
  /\ UNCHANGED <<inboxVars, confirmed, answered, presses, refused, failures>>

NextCycle ==
  /\ bot.phase = "announce" /\ bot.listing = {} /\ bot.notices = {}
  /\ bot' = [bot EXCEPT !.phase = "fetch", !.failing = {}]
  /\ UNCHANGED <<inboxVars, confirmed, world>>

(***************************************************************************)
(* Environment                                                             *)
(***************************************************************************)
Buttons(e) ==
  {"skip"} \cup (IF e \in Proposals THEN Decisions \cup {"analysis"}
                ELSE IF e \in Alerts THEN {"acknowledge"} ELSE {"refresh"})

\* What an operator can press: the buttons of any request there ever was, and the
\* commands on any proposal.
Offered ==
  (UNION {[action : Buttons(r[1]), request : {r}] :
            r \in {s \in Requests : requests[s].status # Absent}})
  \cup [action : Decisions, request : {Command(q) : q \in {p \in Proposals : status[p] # Absent}}]

\* Whatever is pressed between two getUpdates is what the second one returns, so
\* it is enough to press before it.
Operator ==
  /\ bot.phase = "fetch"
  /\ Len(presses) < MaxPresses
  /\ \E press \in Offered : presses' = Append(presses, press)
  /\ UNCHANGED <<inboxVars, refused, confirmed, answered, bot, told, failures>>

\* The process dies or cannot reach Telegram for a while, and is started again.
Crash ==
  /\ bot # Fresh
  /\ failures < MaxFailures
  /\ failures' = failures + 1
  /\ bot' = Fresh
  /\ act' = IdleAct
  /\ UNCHANGED <<stored, effects, confirmed, answered, presses, refused, told>>

HandledFailure ==
  /\ failures < MaxFailures
  /\ failures' = failures + 1
  /\ ActionFails
  /\ UNCHANGED <<confirmed, answered, bot, presses, refused, told>>

Elsewhere ==
  /\ \/ \E q \in Proposals, to \in Statuses : MoveProposal(q, to)
     \/ \E a \in Alerts : RaiseAlert(a)
     \/ \E a \in Alerts, to \in AlertStates : TransitionAlert(a, to)
  /\ UNCHANGED <<confirmed, bot, world>>

Loop ==
  \/ get_updates \/ handle_update \/ ActionCommits \/ Answer \/ AnswerFails
  \/ poll \/ List \/ NextCycle
  \/ \E e \in Entities : Announce(e) \/ Send(e)

Next == Loop \/ Operator \/ Crash \/ HandledFailure \/ Elsewhere

Spec == Init /\ [][Next]_vars

\* The process keeps running, or is started again: one thread, and every request to
\* Telegram or to the market has a timeout.
FairSpec == Spec /\ WF_vars(Loop)

(***************************************************************************)
(* Properties                                                              *)
(***************************************************************************)
\* However often the update of a press is delivered, it decides at most once, and
\* once more for every decision on its proposal that a late save undid.
DecidesOnce ==
  \A k \in 1 .. Len(presses) : effects[k] <= 1 + Undone(presses[k].request[1])

\* Telegram forgets no update that no process has answered.
ConfirmedIsAnswered == confirmed <= answered

\* A proposal or an alert is announced at most once, and once more for every
\* decision a late save undid, whatever the bot forgets at a restart.
AnnouncedOnce == \A e \in Proposals \cup Alerts : told[e] <= 1 + Undone(e)

\* While nothing failed, the newest record of a request says how it got its status.
RecordsExplainRequests ==
  (failures = 0 /\ act.step = "idle") => \A r \in Requests :
    requests[r].status \in
      IF records[r] = NoRecord THEN {Absent, "open"} ELSE RequestStatus(records[r])

\* Every update is confirmed in the end, also if the process dies and if the action
\* fails, unless the answer to it or to one before it is refused: such an update is
\* delivered for ever, and those after it wait.
UpdatesAreHandled ==
  \A k \in 1 .. MaxPresses :
    (Len(presses) >= k) ~> (confirmed >= k \/ \E j \in refused : confirmed < j /\ j <= k)

\* A pending proposal the running bot has not seen gets a request, unless it is
\* decided before or the process dies.
PendingIsQueued ==
  \A q \in Proposals :
    (status[q] = Pending /\ bot.primed /\ q \notin bot.seen)
      ~> (\/ \E r \in Requests : requests[r].status # Absent /\ r[1] = q
          \/ status[q] # Pending
          \/ ~bot.primed)
==============================================================================
