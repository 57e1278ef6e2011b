-------------------------- MODULE ExecutionPipeline --------------------------
(***************************************************************************)
(* ExecutionPipelineService over the shared SQLite file: how an approved   *)
(* proposal becomes an order intent and a prepared intent a paper          *)
(* execution.  The proposals move on while the pipeline works: by the      *)
(* steps of ProposalContract, which one client at a time of                *)
(* ProposalLifecycle implements, and, with several clients, by late saves, *)
(* which write back a copy of an earlier version.  As there, an operation  *)
(* reads and checks once and then commits step by step:                    *)
(*                                                                         *)
(*   create:    [retire -> warn]* -> save -> review -> audit               *)
(*   prepare, submit:                save -> review -> audit               *)
(*   simulate:  save -> execution -> [fills] -> notify -> review -> audit  *)
(***************************************************************************)
EXTENDS Integers, Sequences, FiniteSets, PaperExecution

CONSTANTS
  Clients,      \* OS processes with a connection to the database
  Proposals,    \* proposal ids
  Intents,      \* intent ids
  Terms,        \* pairs <<size in cents, limit price in 1/10000>>
  Side,         \* "yes" or "no" for each proposal
  Expires,      \* when each proposal's TTL runs out
  Quotes,       \* pairs <<best bid, best ask>> an operator may pass
  SemiAuto,     \* settings.mode is semi_auto
  MaxTime,      \* bound on the clock
  MaxOps,       \* bound on the operations started
  MaxLate,      \* bound on the late saves of each proposal
  MaxCrashes    \* bound on the crashes

Time == 0 .. MaxTime

ASSUME TermsAssumption  == Terms \subseteq Nat \X Nat
ASSUME SideAssumption   == Side \in [Proposals -> {"yes", "no"}]
ASSUME QuotesAssumption == Quotes \subseteq (Nat \cup {Unquoted}) \X (Nat \cup {Unquoted})
ASSUME BoundsAssumption == {MaxTime, MaxOps, MaxLate, MaxCrashes} \subseteq Nat
ASSUME ExpiryAssumption == Expires \in [Proposals -> Nat]
ASSUME ModeAssumption   == SemiAuto \in BOOLEAN
ASSUME IdsAssumption    == Proposals # {} /\ Intents # {}

Absent    == "absent"
Created   == "created"
Prepared  == "prepared"
Superseded         == "superseded"
SubmissionRejected == "submission_rejected"
SubmissionDisabled == "submission_disabled"
Active    == {Created, Prepared}
Simulated == {SimulatedRejected, SimulatedCancelled, SimulatedExpired, SimulatedFilled}
Terminal  == {Superseded, SubmissionRejected, SubmissionDisabled} \cup Simulated
IntentStatuses == {Absent} \cup Active \cup Terminal

NoIntent == "none"

VARIABLES
  status, terms,  \* the proposals' statuses and terms, see ProposalContract
  versions,    \* history: the <<status, terms>> each live proposal's row ever had
  late,        \* history: how many late saves hit each proposal
  held,        \* the TradeProposal object each client has in hand
  intents,     \* order_intents
  executions,  \* simulated_executions, in insertion order
  timeline,    \* simulated_fill_events
  alerts,      \* operator_alerts: the open ones the pipeline raised
  reviews,     \* intent_reviews, in insertion order
  audits,      \* how many audit_events each intent has
  op,          \* the operation each client is executing
  clock,       \* utc_now()
  started,     \* operations started so far
  crashes      \* crashes so far

proposals == <<status, terms, versions, late>>
orders    == <<intents, executions, timeline, alerts, reviews, audits>>
vars      == <<proposals, held, orders, op, clock, started, crashes>>

Workflow == INSTANCE ProposalContract

ProposalStatuses == {"absent", Workflow!Pending, "policy_rejected", "approved", "cancelled"}

Proposal == [id : Proposals, status : ProposalStatuses, terms : Nat \X Nat]
Intent   == [status : IntentStatuses, proposal : Proposals, terms : Nat \X Nat,
             by : Intents \cup {NoIntent}]
Execution == [intent : Intents, stage : Simulated, filled : Nat]

NoProposal == [id |-> CHOOSE q \in Proposals : TRUE, status |-> "absent", terms |-> <<0, 0>>]
Blank   == [status |-> Absent, proposal |-> NoProposal.id, terms |-> <<0, 0>>, by |-> NoIntent]
NoResult == [stage |-> SimulatedRejected, filled |-> 0, fragments |-> {}]

Steps == {"idle", "retire", "warn", "save", "execution", "fills", "notify", "review", "audit"}
IdleOp == [step |-> "idle", action |-> "create", id |-> CHOOSE i \in Intents : TRUE,
           row |-> Blank, old |-> NoIntent, retiring |-> {}, result |-> NoResult, execution |-> 0]

TypeOK ==
  /\ status \in [Proposals -> ProposalStatuses] /\ terms \in [Proposals -> Nat \X Nat]
  /\ versions \in [Proposals -> SUBSET (ProposalStatuses \X (Nat \X Nat))]
  /\ late \in [Proposals -> 0 .. MaxLate]
  /\ held \in [Clients -> Proposal]
  /\ intents \in [Intents -> Intent]
  /\ executions \in Seq(Execution)
  /\ \A e \in timeline : e.execution \in DOMAIN executions
  /\ reviews \in [Intents -> Seq(IntentStatuses)]
  /\ audits \in [Intents -> Nat]
  /\ \A c \in Clients : /\ op[c].step \in Steps /\ op[c].id \in Intents
                        /\ op[c].row \in Intent /\ op[c].retiring \subseteq Intents
  /\ clock \in Time /\ started \in 0 .. MaxOps /\ crashes \in 0 .. MaxCrashes

Init ==
  /\ Workflow!Init
  /\ versions = [q \in Proposals |-> {}]
  /\ late = [q \in Proposals |-> 0]
  /\ held = [c \in Clients |-> NoProposal]
  /\ intents = [i \in Intents |-> Blank]
  /\ executions = << >>
  /\ timeline = {}
  /\ alerts = {}
  /\ reviews = [i \in Intents |-> << >>]
  /\ audits = [i \in Intents |-> 0]
  /\ op = [c \in Clients |-> IdleOp]
  /\ clock = 0 /\ started = 0 /\ crashes = 0

(***************************************************************************)
(* Operations: the read and the guards                                     *)
(***************************************************************************)
\* The caller gets a proposal from the repository or as approve()'s result,
\* and may use the object later.
fetch(c, q) ==
  /\ op[c].step = "idle"
  /\ held' = [held EXCEPT ![c] = [id |-> q, status |-> status[q], terms |-> terms[q]]]
  /\ UNCHANGED <<proposals, orders, op, clock, started, crashes>>

Begin(c, new) ==
  /\ op[c].step = "idle"
  /\ started < MaxOps
  /\ started' = started + 1
  /\ op' = [op EXCEPT ![c] = new]
  /\ UNCHANGED <<proposals, held, orders, clock, crashes>>

\* Mutant: a prepared intent does not count as active.
ActiveFor_CreatedOnly(q) == {i \in Intents : intents[i].status = Created /\ intents[i].proposal = q}

\* list_active_for_proposal
ActiveFor(q) == {i \in Intents : intents[i].status \in Active /\ intents[i].proposal = q}

\* Mutant: any stored proposal can become an intent.
create_order_intent_AnyStatus(c, i) ==
  /\ intents[i].status = Absent
  /\ \A d \in Clients : op[d].step # "idle" => op[d].id # i
  /\ \A j \in Intents : intents[j].by # i
  /\ held[c].status # "absent"
  /\ clock < Expires[held[c].id]
  /\ \E supersede \in BOOLEAN :
       /\ ActiveFor(held[c].id) = {} \/ supersede
       /\ Begin(c, [IdleOp EXCEPT
                      !.step = IF ActiveFor(held[c].id) = {} THEN "save" ELSE "retire",
                      !.action = "create", !.id = i,
                      !.row = [status |-> Created, proposal |-> held[c].id,
                               terms |-> held[c].terms, by |-> NoIntent],
                      !.retiring = ActiveFor(held[c].id)])

\* create_order_intent(held proposal, supersede_existing = supersede)
create_order_intent(c, i) ==
  /\ intents[i].status = Absent
  /\ \A d \in Clients : op[d].step # "idle" => op[d].id # i
  /\ \A j \in Intents : intents[j].by # i
  /\ held[c].status = "approved"
  /\ clock < Expires[held[c].id]
  /\ \E supersede \in BOOLEAN :
       /\ ActiveFor(held[c].id) = {} \/ supersede
       /\ Begin(c, [IdleOp EXCEPT
                      !.step = IF ActiveFor(held[c].id) = {} THEN "save" ELSE "retire",
                      !.action = "create", !.id = i,
                      !.row = [status |-> Created, proposal |-> held[c].id,
                               terms |-> held[c].terms, by |-> NoIntent],
                      !.retiring = ActiveFor(held[c].id)])

\* An operation on the stored intent i that will save it with another status.
Advance(c, i, action, new, result) ==
  Begin(c, [IdleOp EXCEPT !.step = "save", !.action = action, !.id = i,
                          !.row = [intents[i] EXCEPT !.status = new], !.result = result])

\* Both adapters accept every order for preparation.
prepare_submission(c, i) ==
  /\ intents[i].status = Created
  /\ Advance(c, i, "prepare", Prepared, NoResult)

\* Both adapters refuse to submit; semi_auto does not even ask them.
submit_intent(c, i) ==
  /\ intents[i].status = Prepared
  /\ Advance(c, i, "submit", IF SemiAuto THEN SubmissionDisabled ELSE SubmissionRejected,
             NoResult)

simulate_intent(c, i) ==
  /\ intents[i].status = Prepared
  /\ \E quote \in Quotes, ttl, cancel \in BOOLEAN :
       \E result \in simulate_order(
            [side |-> Side[intents[i].proposal], size |-> intents[i].terms[1],
             price |-> intents[i].terms[2], bid |-> quote[1], ask |-> quote[2],
             ttl |-> ttl, cancel |-> cancel]) :
         Advance(c, i, "simulate", result.stage, result)

(***************************************************************************)
(* The commits                                                             *)
(***************************************************************************)
Goto(c, step) == op' = [op EXCEPT ![c] = [op[c] EXCEPT !.step = step]]

\* One round of create_order_intent()'s loop over the active intents: the row
\* is a copy of the one listed at the start, which may have moved since.
Retire(c) ==
  /\ op[c].step = "retire"
  /\ \E i \in op[c].retiring :
       /\ intents' = [intents EXCEPT ![i] = [intents[i] EXCEPT !.status = Superseded,
                                                               !.by = op[c].id]]
       /\ op' = [op EXCEPT ![c] = [op[c] EXCEPT !.step = "warn", !.old = i,
                                                !.retiring = op[c].retiring \ {i}]]
  /\ UNCHANGED <<proposals, held, executions, timeline, alerts, reviews, audits,
                 clock, started, crashes>>

\* Mutant: the alert names the new intent.
Warn_NewIntent(c) ==
  /\ op[c].step = "warn"
  /\ alerts' = alerts \cup {[type |-> "active_intent_superseded", intent |-> op[c].id]}
  /\ Goto(c, IF op[c].retiring = {} THEN "save" ELSE "retire")
  /\ UNCHANGED <<proposals, held, intents, executions, timeline, reviews, audits,
                 clock, started, crashes>>

\* create_superseded_intent_alert
Warn(c) ==
  /\ op[c].step = "warn"
  /\ alerts' = alerts \cup {[type |-> "active_intent_superseded", intent |-> op[c].old]}
  /\ Goto(c, IF op[c].retiring = {} THEN "save" ELSE "retire")
  /\ UNCHANGED <<proposals, held, intents, executions, timeline, reviews, audits,
                 clock, started, crashes>>

\* Mutant: the fill events are saved before their execution.
SaveIntent_FillsFirst(c) ==
  /\ op[c].step = "save"
  /\ intents' = [intents EXCEPT ![op[c].id] = op[c].row]
  /\ Goto(c, IF op[c].action = "simulate" THEN "fills" ELSE "review")
  /\ UNCHANGED <<proposals, held, executions, timeline, alerts, reviews, audits,
                 clock, started, crashes>>

SaveIntent(c) ==
  /\ op[c].step = "save"
  /\ intents' = [intents EXCEPT ![op[c].id] = op[c].row]
  /\ Goto(c, IF op[c].action = "simulate" THEN "execution" ELSE "review")
  /\ UNCHANGED <<proposals, held, executions, timeline, alerts, reviews, audits,
                 clock, started, crashes>>

SaveExecution(c) ==
  /\ op[c].step = "execution"
  /\ executions' = Append(executions, [intent |-> op[c].id, stage |-> op[c].result.stage,
                                       filled |-> op[c].result.filled])
  /\ op' = [op EXCEPT ![c] = [op[c] EXCEPT
              !.step = IF op[c].result.fragments = {} THEN "notify" ELSE "fills",
              !.execution = Len(executions) + 1]]
  /\ UNCHANGED <<proposals, held, intents, timeline, alerts, reviews, audits,
                 clock, started, crashes>>

\* All fragments in one transaction.
SaveFills(c) ==
  /\ op[c].step = "fills"
  /\ timeline' = timeline \cup
       {[execution |-> op[c].execution, fragment |-> f] : f \in op[c].result.fragments}
  /\ Goto(c, "notify")
  /\ UNCHANGED <<proposals, held, intents, executions, alerts, reviews, audits,
                 clock, started, crashes>>

\* create_simulated_execution_alert
Notify(c) ==
  /\ op[c].step = "notify"
  /\ alerts' = alerts \cup {[type |-> "simulated_execution_recorded", intent |-> op[c].id]}
  /\ Goto(c, "review")
  /\ UNCHANGED <<proposals, held, intents, executions, timeline, reviews, audits,
                 clock, started, crashes>>

RecordReview(c) ==
  /\ op[c].step = "review"
  /\ reviews' = [reviews EXCEPT ![op[c].id] = Append(@, op[c].row.status)]
  /\ Goto(c, "audit")
  /\ UNCHANGED <<proposals, held, intents, executions, timeline, alerts, audits,
                 clock, started, crashes>>

RecordAudit(c) ==
  /\ op[c].step = "audit"
  /\ audits' = [audits EXCEPT ![op[c].id] = @ + 1]
  /\ op' = [op EXCEPT ![c] = IdleOp]
  /\ UNCHANGED <<proposals, held, intents, executions, timeline, alerts, reviews,
                 clock, started, crashes>>

(***************************************************************************)
(* Environment                                                             *)
(***************************************************************************)
Live == {Workflow!Pending, "approved"}

Remember(q) ==
  versions' = [versions EXCEPT ![q] =
                 @ \cup {v \in {<<status'[q], terms'[q]>>} : v[1] \in Live}]

\* The lifecycle saves a proposal it has just read, with the candidates for the terms.
LifecycleStep(q) ==
  /\ \E t \in Terms : terms' \in {terms, [terms EXCEPT ![q] = t]}
  /\ Workflow!Draft(q) \/ Workflow!Edit(q) \/ Workflow!Decide(q) \/ Workflow!Withdraw(q)
  /\ Remember(q)
  /\ UNCHANGED <<late, held, orders, op, clock, started, crashes>>

\* The whole row is replaced: whatever became of it, q gets the status and terms.
Overwrite(q, s, t) == status' = [status EXCEPT ![q] = s] /\ terms' = [terms EXCEPT ![q] = t]

\* The lifecycle saves what it made of a row that another process has changed
\* since: an edit, a decision or a withdrawal of an earlier version.
LateSave(q) ==
  /\ late[q] < MaxLate
  /\ \E version \in versions[q] \ {<<status[q], terms[q]>>} :
       \/ version[1] = Workflow!Pending /\ \E t \in Terms : Overwrite(q, Workflow!Pending, t)
       \/ /\ version[1] = Workflow!Pending
          /\ \E s \in {"approved", "policy_rejected", "cancelled"} : Overwrite(q, s, version[2])
       \/ version[1] = "approved" /\ Overwrite(q, "cancelled", version[2])
  /\ late' = [late EXCEPT ![q] = @ + 1]
  /\ Remember(q)
  /\ UNCHANGED <<held, orders, op, clock, started, crashes>>

\* The process dies, or an exception leaves the service.
Crash(c) ==
  /\ op[c].step # "idle"
  /\ crashes < MaxCrashes
  /\ crashes' = crashes + 1
  /\ op' = [op EXCEPT ![c] = IdleOp]
  /\ UNCHANGED <<proposals, held, orders, clock, started>>

Tick ==
  /\ clock < MaxTime
  /\ clock' = clock + 1
  /\ UNCHANGED <<proposals, held, orders, op, started, crashes>>

Proceed(c) ==
  \/ Retire(c) \/ Warn(c) \/ SaveIntent(c) \/ SaveExecution(c) \/ SaveFills(c)
  \/ Notify(c) \/ RecordReview(c) \/ RecordAudit(c)

Next ==
  \/ \E c \in Clients :
       \/ \E q \in Proposals : fetch(c, q)
       \/ \E i \in Intents :
            \/ create_order_intent(c, i) \/ prepare_submission(c, i)
            \/ submit_intent(c, i) \/ simulate_intent(c, i)
       \/ Proceed(c)
       \/ Crash(c)
  \/ \E q \in Proposals : LifecycleStep(q) \/ LateSave(q)
  \/ Tick

Spec == Init /\ [][Next]_vars

(***************************************************************************)
(* Properties of any number of clients                                     *)
(***************************************************************************)
\* However long a caller holds the proposal object and whatever happens to the
\* proposal meanwhile, an intent carries terms its proposal was approved with; and
\* unless a late save changed the approved proposal, they are still its terms.
IntentCarriesApprovedTerms ==
  \A i \in Intents : intents[i].status # Absent =>
    LET q == intents[i].proposal
    IN  /\ <<"approved", intents[i].terms>> \in versions[q]
        /\ late[q] = 0 => intents[i].terms = terms[q] /\ status[q] \in {"approved", "cancelled"}

FragmentsOf(n) == {e.fragment : e \in {x \in timeline : x.execution = n}}

\* The books of an execution balance: it never fills more than the order, says
\* filled exactly if nothing remains, and the fragments of its timeline count
\* down from the order's size to what the execution left open.
ExecutionsAddUp ==
  \A n \in DOMAIN executions :
    LET e == executions[n]
        size == intents[e.intent].terms[1]
    IN  /\ e.filled <= size
        /\ e.stage = SimulatedFilled <=> (e.filled = size /\ e.stage # SimulatedRejected)
        /\ FragmentsOf(n) # {} =>
             /\ \E f \in FragmentsOf(n) : f.remaining = size - e.filled
             /\ \A f \in FragmentsOf(n) :
                  \/ f.remaining = size - f.size
                  \/ \E g \in FragmentsOf(n) :
                       g.index = f.index - 1 /\ f.remaining = g.remaining - f.size

Quiet == crashes = 0 /\ \A c \in Clients : op[c].step = "idle"

\* Without crashes every status an operator finds is explained: a superseded
\* intent by its alert and the intent that replaced it, a simulated one by an
\* execution of that stage and its alert, any other by a review.
StatusIsExplained ==
  Quiet => \A i \in Intents :
    LET row == intents[i]
    IN  /\ row.status = Superseded =>
             /\ [type |-> "active_intent_superseded", intent |-> i] \in alerts
             /\ intents[row.by].status # Absent
        /\ row.status \in Simulated =>
             /\ [type |-> "simulated_execution_recorded", intent |-> i] \in alerts
             /\ \E n \in DOMAIN executions :
                  <<executions[n].intent, executions[n].stage>> = <<i, row.status>>
        /\ row.status \notin {Absent, Superseded} =>
             /\ \E k \in DOMAIN reviews[i] : reviews[i][k] = row.status
             /\ audits[i] = Len(reviews[i])

(***************************************************************************)
(* Properties of one client at a time                                      *)
(***************************************************************************)
Stage(i) == IF intents[i].status = Absent THEN "none"
            ELSE IF intents[i].status \in Active THEN "active" ELSE "terminal"

Orders == INSTANCE OrderContract WITH
  stage <- [i \in Intents |-> Stage(i)],
  owner <- [i \in Intents |-> intents[i].proposal],
  runs  <- [i \in Intents |-> Cardinality({n \in DOMAIN executions : executions[n].intent = i})]

\* Implementation: with one client at a time, and a crash anywhere in the
\* superseding loop or in a simulation, every commit is a step of the contract.
ImplementsOrderContract == Orders!Spec

(***************************************************************************)
(* What the documentation says and the code does not keep                  *)
(***************************************************************************)
\* "At most one active intent per proposal unless explicitly superseded."
OneActiveIntent ==
  \A i, j \in Intents :
    (i # j /\ {intents[i].status, intents[j].status} \subseteq Active)
      => intents[i].proposal # intents[j].proposal

\* "Stale proposal execution must be rejected": no intent is prepared or
\* simulated once the TTL of its proposal has run out.
NoStaleExecution ==
  [][\A c \in Clients :
       (op[c].step = "idle" /\ op'[c].action \in {"prepare", "simulate"})
         => clock < Expires[intents[op'[c].id].proposal]]_vars
==============================================================================
