----------------------- MODULE ExecutionPipelineProofs -----------------------
(***************************************************************************)
(* Theorems about ExecutionPipeline for any number of clients, proposals,  *)
(* intents and quotes: its types, the terms an intent carries, the books   *)
(* of an execution and what explains a status.                             *)
(***************************************************************************)
EXTENDS ExecutionPipeline, FiniteSetTheorems, TLAPS

USE DEF Absent, Created, Prepared, Superseded, SubmissionRejected, SubmissionDisabled,
        SimulatedRejected, SimulatedCancelled, SimulatedExpired, SimulatedFilled
USE TermsAssumption, QuotesAssumption, BoundsAssumption, IdsAssumption, SideAssumption

(***************************************************************************)
(* The dry run of an order                                                 *)
(***************************************************************************)
Order    == [side : {"yes", "no"}, size : Nat, price : Nat, bid : Nat \cup {Unquoted},
             ask : Nat \cup {Unquoted}, ttl : BOOLEAN, cancel : BOOLEAN]
Fragment == [index : Nat, size : Nat, price : Int, remaining : Int]
Result   == [stage : Simulated, filled : Nat, fragments : SUBSET Fragment]

\* The books of one execution balance: ExecutionsAddUp says it of them all.
Balances(stage, filled, fragments, size) ==
  /\ filled <= size
  /\ stage = SimulatedFilled <=> (filled = size /\ stage # SimulatedRejected)
  /\ fragments # {} =>
       /\ \E f \in fragments : f.remaining = size - filled
       /\ \A f \in fragments :
            \/ f.remaining = size - f.size
            \/ \E g \in fragments : g.index = f.index - 1 /\ f.remaining = g.remaining - f.size

\* A rounding stays within half a unit of the quotient.
LEMMA NearestRange ==
  ASSUME NEW num \in Nat, NEW den \in Nat \ {0}, NEW q \in Nearest(num, den)
  PROVE  q \in Nat /\ 2 * (q * den) <= 2 * num + den /\ 2 * num <= 2 * (q * den) + den
<1>1. num \div den \in Nat
  OBVIOUS
<1>2. q \in Nat /\ 2 * Distance(num, q * den) <= den
  BY <1>1 DEF Nearest
<1>3. q * den \in Int
  BY <1>2
<1> QED
  BY <1>2, <1>3 DEF Distance

\* A part of the size that rounds to p hundredths of it, 0 < p < 1.
LEMMA PartOfSize ==
  ASSUME NEW p \in {25, 40, 60}, NEW size \in Nat \ {0}, NEW f \in Nearest(p * size, 100),
         p = 60 => size > 5000
  PROVE  f \in Nat /\ f < size /\ (p = 60 => f > 0)
<1>1. p * size \in Nat
  OBVIOUS
<1>2. f \in Nat /\ 2 * (f * 100) <= 2 * (p * size) + 100 /\ 2 * (p * size) <= 2 * (f * 100) + 100
  BY <1>1, NearestRange
<1> QED
  BY <1>2

\* Slipping a price keeps it a number.
LEMMA FillPricesType ==
  ASSUME NEW r \in Order, NEW bps \in Nat, NEW paid \in FillPrices(r, bps)
  PROVE  paid \in Nat
<1>1. ReferencePrice(r) \in Int
  BY DEF ReferencePrice, Clipped, Order, Unquoted
<1> DEFINE direction == IF r.side = "yes" THEN 1 ELSE -1
           num == ReferencePrice(r) * (10000 + direction * bps)
<1>2. num \in Int
  BY <1>1
<1>3. \A q \in Nearest(num, 10000) : q \in Int
  BY <1>2 DEF Nearest
<1> QED
  BY <1>3 DEF FillPrices, Clipped

\* The order fills at most once, or in two parts that make up its size.
FillsOnce(r, s, f) ==
  /\ s.sizes = <<f>> /\ f <= r.size /\ s.stage \in Simulated \ {SimulatedRejected}
  /\ s.stage = SimulatedFilled <=> f = r.size

FillsTwice(r, s, f) ==
  s.sizes = <<f, r.size - f>> /\ 0 < f /\ f < r.size /\ s.stage = SimulatedFilled

\* A scenario fills an order once or twice, at a slippage that is a number.
LEMMA ScenarioShape ==
  ASSUME NEW r \in Order, r.size \in Nat \ {0}, NEW s \in Scenarios(r)
  PROVE  /\ s.bps \in Nat
         /\ \E f \in Nat : FillsOnce(r, s, f) \/ FillsTwice(r, s, f)
<1>1. CASE r.cancel
  <2>1. PICK f \in Nearest(25 * r.size, 100) :
          s = [stage |-> SimulatedCancelled, bps |-> 6, sizes |-> <<f>>]
    BY <1>1 DEF Scenarios
  <2>2. f \in Nat /\ f < r.size
    BY <2>1, PartOfSize
  <2> QED
    BY <2>1, <2>2 DEF FillsOnce, Simulated
<1>2. CASE ~r.cancel /\ (r.ttl \/ r.size > 10000)
  <2>1. PICK f \in Nearest(40 * r.size, 100) :
          s = [stage |-> SimulatedExpired, bps |-> 8, sizes |-> <<f>>]
    BY <1>2 DEF Scenarios
  <2>2. f \in Nat /\ f < r.size
    BY <2>1, PartOfSize
  <2> QED
    BY <2>1, <2>2 DEF FillsOnce, Simulated
<1>3. CASE ~r.cancel /\ ~(r.ttl \/ r.size > 10000) /\ r.size <= 5000
  <2>1. s = [stage |-> SimulatedFilled, bps |-> 4, sizes |-> <<r.size>>]
    BY <1>3 DEF Scenarios
  <2> QED
    BY <2>1 DEF FillsOnce, Simulated
<1>4. CASE ~r.cancel /\ ~(r.ttl \/ r.size > 10000) /\ r.size > 5000
  <2>1. PICK f \in Nearest(60 * r.size, 100) :
          s = [stage |-> SimulatedFilled, bps |-> 6, sizes |-> <<f, r.size - f>>]
    BY <1>4 DEF Scenarios
  <2>2. f \in Nat /\ f < r.size /\ 0 < f
    BY <1>4, <2>1, PartOfSize
  <2> QED
    BY <2>1, <2>2 DEF FillsTwice
<1> QED
  BY <1>1, <1>2, <1>3, <1>4 DEF Order

\* What simulate_order returns balances with the order it was given.
LEMMA SimulationAddsUp ==
  ASSUME NEW r \in Order, NEW result \in simulate_order(r)
  PROVE  result \in Result /\ Balances(result.stage, result.filled, result.fragments, r.size)
<1>1. CASE Invalid(r)
  <2>1. result = [stage |-> SimulatedRejected, filled |-> 0, fragments |-> {}]
    BY <1>1 DEF simulate_order
  <2> QED
    BY <2>1 DEF Result, Balances, Simulated, Order
<1>2. CASE ~Invalid(r)
  <2>1. r.size \in Nat \ {0}
    BY <1>2 DEF Invalid, Order
  <2>2. PICK s \in Scenarios(r) : \E price \in FillPrices(r, s.bps) :
          result = [stage |-> s.stage, filled |-> Filled(r, s.sizes),
                    fragments |-> Fragments(r, s.sizes, price)]
    BY <1>2 DEF simulate_order
  <2>3. PICK paid \in FillPrices(r, s.bps) :
          result = [stage |-> s.stage, filled |-> Filled(r, s.sizes),
                    fragments |-> Fragments(r, s.sizes, paid)]
    BY <2>2
  <2>4. paid \in Nat
    BY <2>1, <2>3, FillPricesType, ScenarioShape
  <2>5. CASE \E f \in Nat : FillsOnce(r, s, f)
    <3>1. PICK f \in Nat : FillsOnce(r, s, f)
      BY <2>5
    <3>2. Filled(r, s.sizes) = f
      BY <3>1 DEF FillsOnce, Filled
    <3>3. Fragments(r, s.sizes, paid) =
            {[index |-> i, size |-> f, price |-> paid, remaining |-> r.size - f] :
               i \in {k \in {1} : f > 0}}
      BY <3>1 DEF FillsOnce, Fragments
    <3>4. \A x \in Fragments(r, s.sizes, paid) :
             x = [index |-> 1, size |-> f, price |-> paid, remaining |-> r.size - f]
      BY <3>3
    <3>5. Fragments(r, s.sizes, paid) \in SUBSET Fragment
      BY <2>1, <2>4, <3>1, <3>4 DEF FillsOnce, Fragment
    <3> QED
      BY <2>1, <2>3, <3>1, <3>2, <3>4, <3>5 DEF FillsOnce, Result, Balances
  <2>6. CASE \E f \in Nat : FillsTwice(r, s, f)
    <3>1. PICK f \in Nat : FillsTwice(r, s, f)
      BY <2>6
    <3>2. Filled(r, s.sizes) = r.size
      BY <2>1, <3>1 DEF FillsTwice, Filled
    <3> DEFINE first == [index |-> 1, size |-> f, price |-> paid, remaining |-> r.size - f]
               rest == [index |-> 2, size |-> r.size - f, price |-> paid, remaining |-> 0]
    <3>3. {k \in DOMAIN s.sizes : s.sizes[k] > 0} = {1, 2}
      BY <2>1, <3>1 DEF FillsTwice
    <3>4. Fragments(r, s.sizes, paid) = {first, rest}
      BY <2>1, <3>1, <3>3 DEF FillsTwice, Fragments
    <3>5. first \in Fragment /\ rest \in Fragment
      BY <2>1, <2>4, <3>1 DEF FillsTwice, Fragment
    <3> QED
      BY <2>1, <2>3, <3>1, <3>2, <3>4, <3>5 DEF FillsTwice, Result, Balances, Simulated
  <2> QED
    BY <2>1, <2>2, <2>5, <2>6, ScenarioShape
<1> QED
  BY <1>1, <1>2

(***************************************************************************)
(* Types                                                                   *)
(***************************************************************************)
Actions == {"create", "prepare", "submit", "simulate"}

Op == [step : Steps, action : Actions, id : Intents, row : Intent,
       old : Intents \cup {NoIntent}, retiring : SUBSET Intents, result : Result,
       execution : Nat]

\* The fill events of an execution are written after it.
FillsNameExecutions ==
  \A c \in Clients : op[c].step = "fills" => op[c].execution \in DOMAIN executions

TypeInv == TypeOK /\ op \in [Clients -> Op] /\ FillsNameExecutions

\* The absent proposal and the absent intent are well formed.
LEMMA BlankType == NoProposal \in Proposal /\ Blank \in Intent
<1> DEFINE first == CHOOSE q \in Proposals : TRUE
<1>0. first \in Proposals
  BY Zenon
<1> HIDE DEF first
<1>1. NoProposal = [id |-> first, status |-> "absent", terms |-> <<0, 0>>]
  BY DEF first, NoProposal
<1>2. "absent" \in ProposalStatuses
  BY DEF ProposalStatuses
<1>3. NoProposal \in Proposal /\ NoProposal.id \in Proposals
  BY <1>0, <1>1, <1>2 DEF Proposal
<1>4. Blank \in Intent
  BY <1>3 DEF Blank, Intent, IntentStatuses
<1> QED
  BY <1>3, <1>4

\* So is the operation of a client that does nothing.
LEMMA IdleOpType == IdleOp \in Op
<1>1. (CHOOSE i \in Intents : TRUE) \in Intents
  BY Zenon
<1>2. NoResult \in Result
  BY DEF NoResult, Result, Simulated
<1> QED
  BY <1>1, <1>2, BlankType DEF IdleOp, Op, Steps, Actions

Busy(c) == op[c].step # "idle"

\* A create starts from an approved proposal in hand and an unused id.
Creates(c, new) ==
  /\ new.action = "create" /\ intents[new.id].status = Absent
  /\ \A d \in Clients : Busy(d) => op[d].id # new.id
  /\ held[c].status = "approved"
  /\ new.row = [status |-> Created, proposal |-> held[c].id, terms |-> held[c].terms,
                by |-> NoIntent]
  /\ new.retiring = ActiveFor(held[c].id)
  /\ new.step = IF new.retiring = {} THEN "save" ELSE "retire"

\* Any other operation saves a copy of an active intent with a later status.
Advances(new) ==
  /\ new.step = "save" /\ new.action \in Actions \ {"create"} /\ new.retiring = {}
  /\ intents[new.id].status \in Active
  /\ new.row = [intents[new.id] EXCEPT !.status = new.row.status]
  /\ IF new.action = "simulate"
     THEN /\ new.row.status = new.result.stage
          /\ Balances(new.result.stage, new.result.filled, new.result.fragments,
                      new.row.terms[1])
     ELSE new.row.status \in {Prepared, SubmissionDisabled, SubmissionRejected}

Request(c) ==
  \E i \in Intents : \/ create_order_intent(c, i) \/ prepare_submission(c, i)
                     \/ submit_intent(c, i) \/ simulate_intent(c, i)

\* A request fills op[c] with a new intent or with a moved one, and commits nothing.
LEMMA RequestStarts ==
  ASSUME TypeInv, NEW c \in Clients, Request(c)
  PROVE  \E new \in Op : Begin(c, new) /\ (Creates(c, new) \/ Advances(new))
<1>0. IdleOp \in Op /\ intents \in [Intents -> Intent] /\ held[c] \in Proposal
  BY IdleOpType DEF TypeInv, TypeOK
<1>1. PICK i \in Intents : \/ create_order_intent(c, i) \/ prepare_submission(c, i)
                          \/ submit_intent(c, i) \/ simulate_intent(c, i)
  BY DEF Request
<1>2. CASE create_order_intent(c, i)
  <2> DEFINE new == [IdleOp EXCEPT
                      !.step = IF ActiveFor(held[c].id) = {} THEN "save" ELSE "retire",
                      !.action = "create", !.id = i,
                      !.row = [status |-> Created, proposal |-> held[c].id,
                               terms |-> held[c].terms, by |-> NoIntent],
                      !.retiring = ActiveFor(held[c].id)]
  <2>1. new \in Op
    BY ZenonT(60), <1>0 DEF Op, Steps, Actions, Proposal, Intent, IntentStatuses, Active, ActiveFor
  <2>2. Begin(c, new)
    BY <1>2 DEF create_order_intent
  <2>3. Creates(c, new)
    BY <1>0, <1>2, <2>1 DEF create_order_intent, Creates, Op, Busy
  <2> QED
    BY SMTT(60), <2>1, <2>2, <2>3
<1>3. ASSUME NEW action \in Actions \ {"create"}, NEW s \in IntentStatuses,
             NEW result \in Result, intents[i].status \in Active,
             Advance(c, i, action, s, result),
             IF action = "simulate"
             THEN s = result.stage /\ Balances(result.stage, result.filled, result.fragments,
                                               intents[i].terms[1])
             ELSE s \in {Prepared, SubmissionDisabled, SubmissionRejected}
      PROVE  \E new \in Op : Begin(c, new) /\ Advances(new)
  <2> DEFINE new == [IdleOp EXCEPT !.step = "save", !.action = action, !.id = i,
                                   !.row = [intents[i] EXCEPT !.status = s], !.result = result]
  <2>1. new \in Op
    BY ZenonT(60), <1>0 DEF Op, Steps, Actions, Intent
  <2>2. Begin(c, new)
    BY <1>3 DEF Advance
  <2>3. /\ new.step = "save" /\ new.action = action /\ new.retiring = {} /\ new.id = i
        /\ new.row = [intents[i] EXCEPT !.status = s] /\ new.row.status = s
        /\ new.row.terms = intents[i].terms /\ new.result = result
    BY <1>0, <2>1 DEF Op, IdleOp, Intent
  <2> HIDE DEF new
  <2>4. Advances(new)
    BY <1>3, <2>3 DEF Advances
  <2> QED
    BY <2>1, <2>2, <2>4
<1>4. NoResult \in Result
  BY DEF NoResult, Result, Simulated
<1>5. CASE prepare_submission(c, i)
  BY <1>3, <1>4, <1>5 DEF prepare_submission, Active, Actions, IntentStatuses
<1>6. CASE submit_intent(c, i)
  BY <1>3, <1>4, <1>6 DEF submit_intent, Active, Actions, IntentStatuses, Terminal
<1>7. CASE simulate_intent(c, i)
  <2>1. PICK quote \in Quotes, ttl \in BOOLEAN, cancel \in BOOLEAN :
          \E result \in simulate_order(
            [side |-> Side[intents[i].proposal], size |-> intents[i].terms[1],
             price |-> intents[i].terms[2], bid |-> quote[1], ask |-> quote[2],
             ttl |-> ttl, cancel |-> cancel]) :
          Advance(c, i, "simulate", result.stage, result)
    BY <1>7 DEF simulate_intent
  <2> DEFINE order == [side |-> Side[intents[i].proposal], size |-> intents[i].terms[1],
                       price |-> intents[i].terms[2], bid |-> quote[1], ask |-> quote[2],
                       ttl |-> ttl, cancel |-> cancel]
  <2>2. PICK result \in simulate_order(order) :
          Advance(c, i, "simulate", result.stage, result)
    BY <2>1
  <2>3. order \in Order
    <3>1. intents[i].proposal \in Proposals /\ intents[i].terms \in Nat \X Nat
      BY <1>0 DEF Intent
    <3> QED
      BY <3>1 DEF Order
  <2>4. order.size = intents[i].terms[1]
    OBVIOUS
  <2> HIDE DEF order
  <2>5. result \in Result /\ Balances(result.stage, result.filled, result.fragments,
                                      intents[i].terms[1])
    BY <2>2, <2>3, <2>4, SimulationAddsUp
  <2>6. result.stage \in IntentStatuses
    BY <2>5 DEF Result, IntentStatuses, Terminal
  <2> QED
    BY <1>3, <1>7, <2>2, <2>5, <2>6 DEF simulate_intent, Active, Actions
<1> QED
  BY <1>1, <1>2, <1>3, <1>5, <1>6, <1>7

\* The copy a client works on stays the same until it is done.
SameWork(c) ==
  /\ op'[c].action = op[c].action /\ op'[c].id = op[c].id
  /\ op'[c].row = op[c].row /\ op'[c].result = op[c].result

Others(c) == \A d \in Clients \ {c} : op'[d] = op[d]

\* What op holds after a request began.
LEMMA BeginShape ==
  ASSUME TypeInv, NEW c \in Clients, NEW new \in Op, Begin(c, new)
  PROVE  op'[c] = new /\ Others(c) /\ op' \in [Clients -> Op]
BY DEF TypeInv, Begin, Others

\* A commit only moves its client to the next step.
LEMMA GotoShape ==
  ASSUME TypeInv, NEW c \in Clients, NEW s \in Steps, Goto(c, s)
  PROVE  /\ op' \in [Clients -> Op] /\ Others(c) /\ SameWork(c) /\ op'[c].step = s
         /\ op'[c].old = op[c].old /\ op'[c].retiring = op[c].retiring
         /\ op'[c].execution = op[c].execution
<1> DEFINE new == [op[c] EXCEPT !.step = s]
<1>0. op \in [Clients -> Op] /\ op[c] \in Op /\ op' = [op EXCEPT ![c] = new]
  BY DEF TypeInv, Goto
<1>1. /\ new \in Op /\ new.step = s /\ new.action = op[c].action /\ new.id = op[c].id
      /\ new.row = op[c].row /\ new.result = op[c].result /\ new.old = op[c].old
      /\ new.retiring = op[c].retiring /\ new.execution = op[c].execution
  BY <1>0 DEF Op
<1> HIDE DEF new
<1>2. op' \in [Clients -> Op] /\ op'[c] = new /\ Others(c)
  BY <1>0, <1>1 DEF Others
<1> QED
  BY <1>1, <1>2 DEF SameWork

\* A round of the superseding loop retires one listed intent in favor of the new one.
LEMMA RetireShape ==
  ASSUME TypeInv, NEW c \in Clients, Retire(c)
  PROVE  /\ op' \in [Clients -> Op] /\ Others(c) /\ SameWork(c) /\ op'[c].step = "warn"
         /\ op'[c].old \in op[c].retiring /\ op'[c].retiring = op[c].retiring \ {op'[c].old}
         /\ intents' = [intents EXCEPT ![op'[c].old] =
              [intents[op'[c].old] EXCEPT !.status = Superseded, !.by = op[c].id]]
<1>0. op \in [Clients -> Op] /\ op[c] \in Op
  BY DEF TypeInv
<1>1. PICK i \in op[c].retiring :
        /\ intents' = [intents EXCEPT ![i] = [intents[i] EXCEPT !.status = Superseded,
                                                                !.by = op[c].id]]
        /\ op' = [op EXCEPT ![c] = [op[c] EXCEPT !.step = "warn", !.old = i,
                                                 !.retiring = op[c].retiring \ {i}]]
  BY DEF Retire
<1> DEFINE new == [op[c] EXCEPT !.step = "warn", !.old = i, !.retiring = op[c].retiring \ {i}]
<1>2. /\ new \in Op /\ new.step = "warn" /\ new.action = op[c].action /\ new.id = op[c].id
      /\ new.row = op[c].row /\ new.result = op[c].result /\ new.old = i
      /\ new.retiring = op[c].retiring \ {i}
  BY <1>0, <1>1 DEF Op, Steps
<1>3. op' = [op EXCEPT ![c] = new]
  BY <1>1
<1> HIDE DEF new
<1>4. op' \in [Clients -> Op] /\ op'[c] = new /\ Others(c)
  BY <1>0, <1>2, <1>3 DEF Others
<1> QED
  BY <1>1, <1>2, <1>4 DEF SameWork

\* A saved execution is the last one, and its fills are next if it has any.
LEMMA ExecutionShape ==
  ASSUME TypeInv, NEW c \in Clients, SaveExecution(c)
  PROVE  /\ op' \in [Clients -> Op] /\ Others(c) /\ SameWork(c)
         /\ op'[c].step = (IF op[c].result.fragments = {} THEN "notify" ELSE "fills")
         /\ op'[c].execution = Len(executions) + 1 /\ op'[c].retiring = op[c].retiring
<1>0. op \in [Clients -> Op] /\ op[c] \in Op /\ executions \in Seq(Execution)
  BY DEF TypeInv, TypeOK
<1> DEFINE s == IF op[c].result.fragments = {} THEN "notify" ELSE "fills"
           new == [op[c] EXCEPT !.step = s, !.execution = Len(executions) + 1]
<1>1. op' = [op EXCEPT ![c] = new]
  BY DEF SaveExecution
<1>2. Len(executions) + 1 \in Nat /\ s \in Steps
  BY <1>0 DEF Steps
<1> HIDE DEF s
<1>3. /\ new \in Op /\ new.step = s /\ new.action = op[c].action /\ new.id = op[c].id
      /\ new.row = op[c].row /\ new.result = op[c].result
      /\ new.retiring = op[c].retiring /\ new.execution = Len(executions) + 1
  BY <1>0, <1>2 DEF Op
<1> HIDE DEF new
<1>4. op' \in [Clients -> Op] /\ op'[c] = new /\ Others(c)
  BY <1>0, <1>1, <1>3 DEF Others
<1> QED
  BY <1>3, <1>4 DEF SameWork, s

\* An operation ends with its audit event or with a crash.
LEMMA EndShape ==
  ASSUME TypeInv, NEW c \in Clients, RecordAudit(c) \/ Crash(c)
  PROVE  /\ op' \in [Clients -> Op] /\ Others(c) /\ op'[c] = IdleOp /\ op'[c].step = "idle"
<1>1. op' = [op EXCEPT ![c] = IdleOp] /\ IdleOp.step = "idle"
  BY DEF RecordAudit, Crash, IdleOp
<1> QED
  BY <1>1, IdleOpType DEF TypeInv, Others

\* The lifecycle moves a proposal, in time or late.
Moves == \E q \in Proposals : LifecycleStep(q) \/ LateSave(q)

\* The terms each proposal was ever approved with; unless a late save hit it, the
\* ones it still has.
Agreed ==
  [q \in Proposals |->
     {t \in Nat \X Nat :
        /\ <<"approved", t>> \in versions[q]
        /\ late[q] = 0 => t = terms[q] /\ status[q] \in {"approved", "cancelled"}}]

RowsAreVersions == \A q \in Proposals : status[q] = "approved" => terms[q] \in Agreed[q]

\* What the row becomes is remembered if it is live.
LEMMA RememberShape ==
  ASSUME TypeInv, NEW q \in Proposals, NEW s \in ProposalStatuses, NEW t \in Nat \X Nat,
         status'[q] = s, terms'[q] = t, Remember(q)
  PROVE  /\ versions' \in [Proposals -> SUBSET (ProposalStatuses \X (Nat \X Nat))]
         /\ \A p \in Proposals : versions[p] \subseteq versions'[p]
         /\ s = "approved" => <<s, t>> \in versions'[q]
<1>1. versions \in [Proposals -> SUBSET (ProposalStatuses \X (Nat \X Nat))]
  BY DEF TypeInv, TypeOK
<1> DEFINE new == {v \in {<<s, t>>} : v[1] \in Live}
<1>2. versions' = [versions EXCEPT ![q] = versions[q] \cup new]
  BY DEF Remember
<1>3. new \subseteq ProposalStatuses \X (Nat \X Nat) /\ (s = "approved" => <<s, t>> \in new)
  BY DEF Live
<1> HIDE DEF new
<1> QED
  BY <1>1, <1>2, <1>3

\* The lifecycle never takes back what a proposal was approved with: a step in time
\* never changes the terms of what is decided, a late one is counted.
LEMMA LifecycleKeepsTerms ==
  ASSUME TypeInv, Moves
  PROVE  /\ status' \in [Proposals -> ProposalStatuses] /\ terms' \in [Proposals -> Nat \X Nat]
         /\ versions' \in [Proposals -> SUBSET (ProposalStatuses \X (Nat \X Nat))]
         /\ late' \in [Proposals -> 0 .. MaxLate]
         /\ \A q \in Proposals : Agreed[q] \subseteq Agreed'[q]
         /\ RowsAreVersions => RowsAreVersions'
         /\ UNCHANGED <<held, orders, op, clock, started, crashes>>
<1>0. /\ status \in [Proposals -> ProposalStatuses] /\ terms \in [Proposals -> Nat \X Nat]
      /\ late \in [Proposals -> 0 .. MaxLate] /\ MaxLate \in Nat
      /\ versions \in [Proposals -> SUBSET (ProposalStatuses \X (Nat \X Nat))]
      /\ UNCHANGED <<held, orders, op, clock, started, crashes>>
  BY BoundsAssumption DEF TypeInv, TypeOK, Moves, LifecycleStep, LateSave
<1>1. PICK p \in Proposals : LifecycleStep(p) \/ LateSave(p)
  BY DEF Moves
\* What has to be said of the one row that moves.
<1>2. ASSUME NEW s \in ProposalStatuses, NEW t \in Nat \X Nat,
             status' = [status EXCEPT ![p] = s], terms' = [terms EXCEPT ![p] = t],
             \/ late' = [late EXCEPT ![p] = late[p] + 1] /\ late[p] < MaxLate
             \/ /\ late' = late
                /\ status[p] \in {"approved", "cancelled"} => t = terms[p] /\ s = "cancelled",
             Remember(p)
      PROVE  /\ status' \in [Proposals -> ProposalStatuses] /\ terms' \in [Proposals -> Nat \X Nat]
             /\ versions' \in [Proposals -> SUBSET (ProposalStatuses \X (Nat \X Nat))]
             /\ late' \in [Proposals -> 0 .. MaxLate]
             /\ \A q \in Proposals : Agreed[q] \subseteq Agreed'[q]
             /\ RowsAreVersions => RowsAreVersions'
  <2>0. late' \in [Proposals -> 0 .. MaxLate]
    BY SMTT(60), <1>0, <1>2
  <2>1. /\ status' \in [Proposals -> ProposalStatuses] /\ terms' \in [Proposals -> Nat \X Nat]
        /\ status'[p] = s /\ terms'[p] = t /\ late' \in [Proposals -> 0 .. MaxLate]
        /\ \A q \in Proposals \ {p} : status'[q] = status[q] /\ terms'[q] = terms[q] /\ late'[q] = late[q]
    BY <1>0, <1>2, <2>0
  <2>2. /\ versions' \in [Proposals -> SUBSET (ProposalStatuses \X (Nat \X Nat))]
        /\ \A q \in Proposals : versions[q] \subseteq versions'[q]
        /\ s = "approved" => <<s, t>> \in versions'[p]
    BY <1>2, <2>1, RememberShape
  <2>3. late'[p] # 0 \/ (late[p] = 0 /\ (status[p] \in {"approved", "cancelled"} =>
                                        t = terms[p] /\ s = "cancelled"))
    BY <1>0, <1>2
  <2>4. ASSUME NEW q \in Proposals, NEW u \in Agreed[q]  PROVE u \in Agreed'[q]
    <3>1. /\ u \in Nat \X Nat /\ <<"approved", u>> \in versions'[q]
          /\ late[q] = 0 => u = terms[q] /\ status[q] \in {"approved", "cancelled"}
      BY <2>2, <2>4 DEF Agreed
    <3>2. late'[q] = 0 => u = terms'[q] /\ status'[q] \in {"approved", "cancelled"}
      BY <2>1, <2>3, <3>1
    <3> QED
      BY <3>1, <3>2 DEF Agreed
  <2>5. RowsAreVersions => RowsAreVersions'
    <3> SUFFICES ASSUME RowsAreVersions, NEW q \in Proposals, status'[q] = "approved"
                 PROVE  terms'[q] \in Agreed'[q]
      BY DEF RowsAreVersions
    <3>1. CASE q = p
      BY <2>1, <2>2, <3>1 DEF Agreed
    <3>2. CASE q # p
      BY <2>1, <2>4, <3>2 DEF RowsAreVersions
    <3> QED
      BY <3>1, <3>2
  <2> QED
    BY <2>1, <2>2, <2>4, <2>5
<1>3. ASSUME Workflow!Rewrite(p)
      PROVE  \E t \in Nat \X Nat : terms' = [terms EXCEPT ![p] = t]
  BY <1>3, TermsAssumption DEF Workflow!Rewrite
<1>4. {Workflow!Pending, "approved", "policy_rejected", "cancelled"} \subseteq ProposalStatuses
  BY DEF ProposalStatuses
<1>5. CASE LifecycleStep(p)
  <2>1. late' = late /\ Remember(p)
    BY <1>5 DEF LifecycleStep
  <2>2. CASE Workflow!Draft(p)
    <3>1. PICK s \in {Workflow!Pending, "policy_rejected"} :
            status[p] = "absent" /\ status' = [status EXCEPT ![p] = s] /\ Workflow!Rewrite(p)
      BY <2>2 DEF Workflow!Draft
    <3> QED
      BY <1>0, <1>2, <1>3, <1>4, <2>1, <3>1
  <2>3. CASE Workflow!Edit(p)
    <3>1. status[p] = Workflow!Pending /\ status' = status /\ Workflow!Rewrite(p)
      BY <2>3 DEF Workflow!Edit
    <3>2. status' = [status EXCEPT ![p] = Workflow!Pending]
      BY <1>0, <3>1
    <3>3. status[p] \notin {"approved", "cancelled"}
      BY <3>1 DEF Workflow!Pending
    <3> QED
      BY <1>0, <1>2, <1>3, <1>4, <2>1, <3>1, <3>2, <3>3
  <2>4. CASE Workflow!Decide(p)
    <3>1. PICK s \in {"approved", "policy_rejected", "cancelled"} :
            status[p] = Workflow!Pending /\ status' = [status EXCEPT ![p] = s] /\ terms' = terms
      BY <2>4 DEF Workflow!Decide
    <3>2. terms' = [terms EXCEPT ![p] = terms[p]] /\ terms[p] \in Nat \X Nat
      BY <1>0, <3>1
    <3>3. status[p] \notin {"approved", "cancelled"}
      BY <3>1 DEF Workflow!Pending
    <3> QED
      BY <1>0, <1>2, <1>4, <2>1, <3>1, <3>2, <3>3
  <2>5. CASE Workflow!Withdraw(p)
    <3>1. status[p] = "approved" /\ status' = [status EXCEPT ![p] = "cancelled"] /\ terms' = terms
      BY <2>5 DEF Workflow!Withdraw
    <3>2. terms' = [terms EXCEPT ![p] = terms[p]] /\ terms[p] \in Nat \X Nat
      BY <1>0, <3>1
    <3> QED
      BY <1>0, <1>2, <1>4, <2>1, <3>1, <3>2
  <2> QED
    BY <1>5, <2>2, <2>3, <2>4, <2>5 DEF LifecycleStep
<1>6. CASE LateSave(p)
  <2>1. /\ late[p] < MaxLate /\ late' = [late EXCEPT ![p] = late[p] + 1] /\ Remember(p)
    BY <1>6 DEF LateSave
  <2>2. PICK version \in versions[p] :
          \/ version[1] = Workflow!Pending /\ \E t \in Terms : Overwrite(p, Workflow!Pending, t)
          \/ /\ version[1] = Workflow!Pending
             /\ \E s \in {"approved", "policy_rejected", "cancelled"} : Overwrite(p, s, version[2])
          \/ version[1] = "approved" /\ Overwrite(p, "cancelled", version[2])
    BY <1>6 DEF LateSave
  <2>3. version[2] \in Nat \X Nat
    BY <1>0, <2>2
  <2>4. PICK s \in ProposalStatuses, t \in Nat \X Nat : Overwrite(p, s, t)
    BY <1>4, <2>2, <2>3, TermsAssumption
  <2> QED
    BY <1>0, <1>2, <2>1, <2>4 DEF Overwrite
<1> QED
  BY <1>1, <1>5, <1>6

\* Every step keeps the types.
LEMMA TypeStep ==
  ASSUME TypeInv, [Next]_vars
  PROVE  TypeInv'
<1>0. /\ status \in [Proposals -> ProposalStatuses] /\ terms \in [Proposals -> Nat \X Nat]
      /\ versions \in [Proposals -> SUBSET (ProposalStatuses \X (Nat \X Nat))]
      /\ late \in [Proposals -> 0 .. MaxLate]
      /\ held \in [Clients -> Proposal] /\ intents \in [Intents -> Intent]
      /\ executions \in Seq(Execution)
      /\ \A e \in timeline : e.execution \in DOMAIN executions
      /\ reviews \in [Intents -> Seq(IntentStatuses)] /\ audits \in [Intents -> Nat]
      /\ clock \in Time /\ started \in 0 .. MaxOps /\ crashes \in 0 .. MaxCrashes
      /\ op \in [Clients -> Op] /\ FillsNameExecutions
  BY DEF TypeInv, TypeOK
<1>1. ASSUME op' \in [Clients -> Op]
      PROVE  \A c \in Clients : /\ op'[c].step \in Steps /\ op'[c].id \in Intents
                                /\ op'[c].row \in Intent /\ op'[c].retiring \subseteq Intents
  BY <1>1 DEF Op
<1>2. ASSUME NEW c \in Clients, NEW q \in Proposals, fetch(c, q)
      PROVE  TypeInv'
  <2>1. [id |-> q, status |-> status[q], terms |-> terms[q]] \in Proposal
    BY <1>0 DEF Proposal
  <2>2. held' \in [Clients -> Proposal]
    BY <1>0, <1>2, <2>1 DEF fetch
  <2> QED
    BY <1>0, <1>2, <2>2 DEF TypeInv, TypeOK, fetch, proposals, orders, FillsNameExecutions
<1>3. ASSUME NEW c \in Clients, Request(c)
      PROVE  TypeInv'
  <2>1. PICK new \in Op : Begin(c, new) /\ (Creates(c, new) \/ Advances(new))
    BY <1>3, RequestStarts
  <2>2. op'[c] = new /\ Others(c) /\ op' \in [Clients -> Op]
    BY <2>1, BeginShape
  <2>3. new.step # "fills"
    BY <2>1 DEF Creates, Advances
  <2>4. FillsNameExecutions'
    BY <1>0, <2>1, <2>2, <2>3 DEF FillsNameExecutions, Others, Begin, orders
  <2>5. started' \in 0 .. MaxOps
    BY <1>0, <2>1 DEF Begin
  <2> QED
    BY <1>0, <1>1, <2>1, <2>2, <2>4, <2>5 DEF TypeInv, TypeOK, Begin, proposals, orders
<1>4. ASSUME NEW c \in Clients, Retire(c)
      PROVE  TypeInv'
  <2>1. /\ op' \in [Clients -> Op] /\ Others(c) /\ op'[c].step = "warn"
        /\ op'[c].old \in Intents /\ op[c].id \in Intents
        /\ intents' = [intents EXCEPT ![op'[c].old] =
              [intents[op'[c].old] EXCEPT !.status = Superseded, !.by = op[c].id]]
    BY <1>0, <1>4, RetireShape DEF TypeInv, Op
  <2>2. PICK i \in Intents : i = op'[c].old
    BY <2>1
  <2>3. [intents[i] EXCEPT !.status = Superseded, !.by = op[c].id] \in Intent
    <3>1. intents[i] \in Intent /\ Superseded \in IntentStatuses
      BY <1>0 DEF IntentStatuses, Terminal
    <3> QED
      BY <2>1, <3>1 DEF Intent
  <2>4. intents' \in [Intents -> Intent]
    BY <1>0, <2>1, <2>2, <2>3
  <2>5. FillsNameExecutions'
    BY <1>0, <1>4, <2>1 DEF FillsNameExecutions, Others, Retire
  <2> QED
    BY <1>0, <1>1, <1>4, <2>1, <2>4, <2>5 DEF TypeInv, TypeOK, Retire, proposals
<1>5. ASSUME NEW c \in Clients, Warn(c) \/ Notify(c)
      PROVE  TypeInv'
  <2>1. PICK s \in {"save", "retire", "review"} : Goto(c, s)
    BY <1>5 DEF Warn, Notify
  <2>2. op' \in [Clients -> Op] /\ Others(c) /\ op'[c].step = s
    BY <2>1, GotoShape DEF Steps
  <2>3. FillsNameExecutions'
    BY <1>0, <1>5, <2>1, <2>2 DEF FillsNameExecutions, Others, Warn, Notify
  <2> QED
    BY <1>0, <1>1, <1>5, <2>2, <2>3 DEF TypeInv, TypeOK, Warn, Notify, proposals
<1>6. ASSUME NEW c \in Clients, SaveIntent(c)
      PROVE  TypeInv'
  <2>1. PICK s \in {"execution", "review"} : Goto(c, s)
    BY <1>6 DEF SaveIntent
  <2>2. op' \in [Clients -> Op] /\ Others(c) /\ op'[c].step = s
    BY <2>1, GotoShape DEF Steps
  <2>3. FillsNameExecutions'
    BY <1>0, <1>6, <2>1, <2>2 DEF FillsNameExecutions, Others, SaveIntent
  <2>4. intents' \in [Intents -> Intent]
    BY <1>0, <1>6 DEF SaveIntent, Op
  <2> QED
    BY <1>0, <1>1, <1>6, <2>2, <2>3, <2>4 DEF TypeInv, TypeOK, SaveIntent, proposals
<1>7. ASSUME NEW c \in Clients, SaveExecution(c)
      PROVE  TypeInv'
  <2>1. /\ op' \in [Clients -> Op] /\ Others(c) /\ op'[c].execution = Len(executions) + 1
    BY <1>7, ExecutionShape
  <2>2. [intent |-> op[c].id, stage |-> op[c].result.stage, filled |-> op[c].result.filled]
          \in Execution
    BY <1>0 DEF Op, Result, Execution
  <2>3. /\ executions' \in Seq(Execution) /\ DOMAIN executions' = 1 .. Len(executions) + 1
        /\ DOMAIN executions = 1 .. Len(executions) /\ Len(executions) \in Nat
    BY <1>0, <1>7, <2>2 DEF SaveExecution
  <2>4. FillsNameExecutions'
    <3> SUFFICES ASSUME NEW d \in Clients, op'[d].step = "fills"
                 PROVE  op'[d].execution \in 1 .. Len(executions) + 1
      BY <2>3 DEF FillsNameExecutions
    <3>1. CASE d = c
      BY <2>1, <2>3, <3>1
    <3>2. CASE d # c
      <4>1. op[d].step = "fills" /\ op'[d].execution = op[d].execution
        BY <2>1, <3>2 DEF Others
      <4>2. op[d].execution \in 1 .. Len(executions)
        BY <1>0, <2>3, <4>1 DEF FillsNameExecutions
      <4> QED
        BY <2>3, <4>1, <4>2
    <3> QED
      BY <3>1, <3>2
  <2>5. \A e \in timeline' : e.execution \in DOMAIN executions'
    BY <1>0, <1>7, <2>3 DEF SaveExecution
  <2> QED
    BY <1>0, <1>1, <1>7, <2>1, <2>3, <2>4, <2>5 DEF TypeInv, TypeOK, SaveExecution, proposals
<1>8. ASSUME NEW c \in Clients, SaveFills(c)
      PROVE  TypeInv'
  <2>1. op' \in [Clients -> Op] /\ Others(c) /\ op'[c].step = "notify"
    BY <1>8, GotoShape DEF Steps, SaveFills
  <2>2. FillsNameExecutions'
    BY <1>0, <1>8, <2>1 DEF FillsNameExecutions, Others, SaveFills
  <2>3. op[c].execution \in DOMAIN executions
    BY <1>0, <1>8 DEF FillsNameExecutions, SaveFills
  <2>4. \A e \in timeline' : e.execution \in DOMAIN executions
    BY <1>0, <1>8, <2>3 DEF SaveFills
  <2> QED
    BY <1>0, <1>1, <1>8, <2>1, <2>2, <2>4 DEF TypeInv, TypeOK, SaveFills, proposals
<1>9. ASSUME NEW c \in Clients, RecordReview(c)
      PROVE  TypeInv'
  <2>1. op' \in [Clients -> Op] /\ Others(c) /\ op'[c].step = "audit"
    BY <1>9, GotoShape DEF Steps, RecordReview
  <2>2. FillsNameExecutions'
    BY <1>0, <1>9, <2>1 DEF FillsNameExecutions, Others, RecordReview
  <2>3. op[c].row.status \in IntentStatuses /\ op[c].id \in Intents
    BY <1>0 DEF Op, Intent
  <2>4. reviews' \in [Intents -> Seq(IntentStatuses)]
    BY <1>0, <1>9, <2>3 DEF RecordReview
  <2> QED
    BY <1>0, <1>1, <1>9, <2>1, <2>2, <2>4 DEF TypeInv, TypeOK, RecordReview, proposals
<1>10. ASSUME NEW c \in Clients, RecordAudit(c) \/ Crash(c)
       PROVE  TypeInv'
  <2>1. op' \in [Clients -> Op] /\ Others(c) /\ op'[c].step = "idle"
    BY <1>10, EndShape
  <2>2. executions' = executions
    BY <1>10 DEF RecordAudit, Crash, orders
  <2>3. FillsNameExecutions'
    BY <1>0, <2>1, <2>2 DEF FillsNameExecutions, Others
  <2>4. audits' \in [Intents -> Nat]
    <3>1. CASE RecordAudit(c)
      <4>1. op[c].id \in Intents /\ audits' = [audits EXCEPT ![op[c].id] = @ + 1]
        BY <1>0, <3>1 DEF RecordAudit, Op
      <4> QED
        BY SMTT(60), <1>0, <4>1
    <3>2. CASE Crash(c)
      BY <1>0, <3>2 DEF Crash, orders
    <3> QED
      BY <1>10, <3>1, <3>2
  <2>5. crashes' \in 0 .. MaxCrashes
    <3>1. RecordAudit(c) => crashes' = crashes
      BY DEF RecordAudit
    <3>2. Crash(c) => crashes < MaxCrashes /\ crashes' = crashes + 1
      BY DEF Crash
    <3> QED
      BY <1>0, <1>10, <3>1, <3>2
  <2> QED
    BY <1>0, <1>1, <1>10, <2>1, <2>3, <2>4, <2>5
       DEF TypeInv, TypeOK, RecordAudit, Crash, proposals, orders
<1>11. CASE Moves
  BY <1>0, <1>1, <1>11, LifecycleKeepsTerms DEF TypeInv, TypeOK, orders, FillsNameExecutions
<1>12. CASE Tick
  BY SMTT(60), <1>0, <1>1, <1>12 DEF TypeInv, TypeOK, Tick, Time, proposals, orders, FillsNameExecutions
<1>13. CASE UNCHANGED vars
  BY <1>0, <1>1, <1>13 DEF TypeInv, TypeOK, vars, proposals, orders, FillsNameExecutions
<1> QED
  BY <1>2, <1>3, <1>4, <1>5, <1>6, <1>7, <1>8, <1>9, <1>10, <1>11, <1>12, <1>13
     DEF Next, Proceed, Request, Moves

\* The types hold at the start.
LEMMA TypeInit == Init => TypeInv
<1> SUFFICES ASSUME Init  PROVE TypeInv
  OBVIOUS
<1>1. /\ status \in [Proposals -> ProposalStatuses] /\ terms \in [Proposals -> Nat \X Nat]
      /\ versions \in [Proposals -> SUBSET (ProposalStatuses \X (Nat \X Nat))]
      /\ late \in [Proposals -> 0 .. MaxLate]
  BY DEF Init, Workflow!Init, Workflow!Blank, ProposalStatuses
<1>2. op \in [Clients -> Op] /\ \A c \in Clients : op[c].step = "idle"
  BY IdleOpType DEF Init, IdleOp
<1>3. \A c \in Clients : /\ op[c].step \in Steps /\ op[c].id \in Intents
                         /\ op[c].row \in Intent /\ op[c].retiring \subseteq Intents
  BY <1>2 DEF Op
<1>4. /\ held \in [Clients -> Proposal] /\ intents \in [Intents -> Intent]
      /\ executions \in Seq(Execution) /\ timeline = {}
      /\ reviews \in [Intents -> Seq(IntentStatuses)] /\ audits \in [Intents -> Nat]
      /\ clock \in Time /\ started \in 0 .. MaxOps /\ crashes \in 0 .. MaxCrashes
  BY BlankType DEF Init, Time
<1> QED
  BY <1>1, <1>2, <1>3, <1>4 DEF TypeInv, TypeOK, FillsNameExecutions

\* Every row, execution, fill event, review and audit event the pipeline stores is
\* well formed, and a fill event names an execution that is stored: no crash
\* between save_simulated_execution and save_simulated_fill_events leaves an orphan.
THEOREM PipelineTypes == Spec => []TypeOK
<1>1. TypeInv => TypeOK
  BY DEF TypeInv
<1>2. TypeInv /\ [Next]_vars => TypeInv'
  BY TypeStep
<1> QED
  BY <1>1, <1>2, TypeInit, PTL DEF Spec

(***************************************************************************)
(* What a client works on: an object in hand that says approved has terms  *)
(* its proposal was approved with, for good; a row in hand belongs to an   *)
(* approved proposal, and either its id is the client's own until it is    *)
(* saved or it agrees with the stored row on everything but the status.    *)
(***************************************************************************)
HeldIsDecided ==
  \A c \in Clients : held[c].status = "approved" =>
    held[c].terms \in Agreed[held[c].id]

NewRow(c) ==
  /\ intents[op[c].id].status = Absent
  /\ op[c].action = "create" /\ op[c].step \in {"retire", "warn", "save"}
  /\ \A d \in Clients \ {c} : Busy(d) => op[d].id # op[c].id

OldRow(c) ==
  /\ intents[op[c].id].status # Absent
  /\ op[c].step \in IF op[c].action = "create" THEN {"review", "audit"}
                     ELSE Steps \ {"idle", "retire", "warn"}
  /\ op[c].row.proposal = intents[op[c].id].proposal
  /\ op[c].row.terms = intents[op[c].id].terms

CopyFits(c) ==
  /\ op[c].row.status \notin {Absent, Superseded}
  /\ op[c].row.terms \in Agreed[op[c].row.proposal]
  /\ \A i \in op[c].retiring : intents[i].status # Absent
  /\ NewRow(c) \/ OldRow(c)

\* A result is only carried by a simulation, which also saves its stage.
ResultFits(c) ==
  IF op[c].action = "simulate"
  THEN /\ op[c].row.status = op[c].result.stage
       /\ Balances(op[c].result.stage, op[c].result.filled, op[c].result.fragments,
                   op[c].row.terms[1])
       /\ op[c].step = "fills" =>
            executions[op[c].execution] =
              [intent |-> op[c].id, stage |-> op[c].result.stage, filled |-> op[c].result.filled]
  ELSE op[c].row.status \notin Simulated /\ op[c].step \notin {"execution", "fills", "notify"}

CopiesFit == \A c \in Clients : Busy(c) => CopyFits(c) /\ ResultFits(c)

\* IntentCarriesApprovedTerms, said with Agreed.
StoredAsAgreed ==
  \A i \in Intents : intents[i].status # Absent =>
    intents[i].terms \in Agreed[intents[i].proposal]

TermsInv == TypeInv /\ RowsAreVersions /\ HeldIsDecided /\ CopiesFit /\ StoredAsAgreed

\* What no step takes back: a stored row's proposal and terms, a decision, an execution.
Steady ==
  /\ \A i \in Intents : intents[i].status # Absent =>
       /\ intents'[i].status # Absent
       /\ intents'[i].proposal = intents[i].proposal /\ intents'[i].terms = intents[i].terms
  /\ \A q \in Proposals : Agreed[q] \subseteq Agreed'[q]
  /\ \A n \in DOMAIN executions : n \in DOMAIN executions' /\ executions'[n] = executions[n]

\* No step of the system takes back a stored row, agreed terms or an execution.
LEMMA SteadyStep ==
  ASSUME TermsInv, [Next]_vars
  PROVE  Steady
<1>0. /\ TypeInv /\ intents \in [Intents -> Intent] /\ executions \in Seq(Execution)
      /\ op \in [Clients -> Op]
  BY DEF TermsInv, TypeInv, TypeOK
<1>9. UNCHANGED proposals => Agreed' = Agreed
  BY DEF Agreed, proposals
<1>1. ASSUME NEW c \in Clients, Request(c)  PROVE Steady
  BY <1>0, <1>1, <1>9, RequestStarts DEF Begin, Steady, orders
<1>2. ASSUME NEW c \in Clients, Retire(c)  PROVE Steady
  <2>1. PICK i \in Intents : intents' = [intents EXCEPT ![i] =
          [intents[i] EXCEPT !.status = Superseded, !.by = op[c].id]]
    BY <1>0, <1>2 DEF Retire, Op
  <2>2. /\ [intents[i] EXCEPT !.status = Superseded, !.by = op[c].id].status = Superseded
        /\ [intents[i] EXCEPT !.status = Superseded, !.by = op[c].id].proposal = intents[i].proposal
        /\ [intents[i] EXCEPT !.status = Superseded, !.by = op[c].id].terms = intents[i].terms
    BY <1>0 DEF Intent
  <2>3. \A j \in Intents : intents[j].status # Absent =>
         /\ intents'[j].status # Absent
         /\ intents'[j].proposal = intents[j].proposal /\ intents'[j].terms = intents[j].terms
    BY <1>0, <2>1, <2>2
  <2> QED
    BY <1>2, <1>9, <2>3 DEF Retire, Steady
<1>3. ASSUME NEW c \in Clients, SaveIntent(c)  PROVE Steady
  <2>1. op[c].id \in Intents /\ intents' = [intents EXCEPT ![op[c].id] = op[c].row] /\ Busy(c)
    BY <1>0, <1>3 DEF SaveIntent, Op, Busy
  <2>2. CopyFits(c)
    BY <2>1 DEF TermsInv, CopiesFit
  <2>3. \A j \in Intents : intents[j].status # Absent =>
         /\ intents'[j].status # Absent
         /\ intents'[j].proposal = intents[j].proposal /\ intents'[j].terms = intents[j].terms
    BY <1>0, <2>1, <2>2 DEF CopyFits, NewRow, OldRow
  <2> QED
    BY <1>3, <1>9, <2>3 DEF SaveIntent, Steady
<1>4. ASSUME NEW c \in Clients, SaveExecution(c)  PROVE Steady
  <2>1. \A n \in DOMAIN executions : n \in DOMAIN executions' /\ executions'[n] = executions[n]
    BY <1>0, <1>4 DEF SaveExecution
  <2> QED
    BY <1>4, <1>9, <2>1 DEF SaveExecution, Steady
<1>5. ASSUME NEW c \in Clients, Warn(c) \/ SaveFills(c) \/ Notify(c) \/ RecordReview(c)
                                \/ RecordAudit(c) \/ Crash(c)
      PROVE  Steady
  <2>1. UNCHANGED <<intents, executions, proposals>>
    BY <1>5 DEF Warn, SaveFills, Notify, RecordReview, RecordAudit, Crash, orders, proposals
  <2> QED
    BY <2>1, <1>9 DEF Steady, proposals
<1>6. CASE Moves
  BY <1>0, <1>6, LifecycleKeepsTerms DEF Steady, orders
<1>7. ASSUME NEW c \in Clients, NEW q \in Proposals, fetch(c, q)  PROVE Steady
  BY <1>7, <1>9 DEF fetch, Steady, orders
<1>8. CASE Tick \/ UNCHANGED vars
  BY <1>8, <1>9 DEF Tick, vars, Steady, orders
<1> QED
  BY <1>1, <1>2, <1>3, <1>4, <1>5, <1>6, <1>7, <1>8 DEF Next, Proceed, Request, Moves

\* Those who do not move keep what they have, if their new id stays theirs.
LEMMA OthersFit ==
  ASSUME TypeInv, Steady, NEW c \in Clients, CopyFits(c), ResultFits(c), op'[c] = op[c],
         NewRow(c) => NewRow(c)'
  PROVE  CopyFits(c)' /\ ResultFits(c)'
<1>0. /\ op[c].row.proposal \in Proposals /\ op[c].id \in Intents
      /\ op[c].retiring \subseteq Intents
      /\ op[c].step = "fills" => op[c].execution \in DOMAIN executions
  BY DEF TypeInv, FillsNameExecutions, Op, Intent
<1>1. op'[c].row.terms \in Agreed'[op'[c].row.proposal]
  BY <1>0 DEF CopyFits, Steady
<1>2. \A i \in op'[c].retiring : intents'[i].status # Absent
  BY <1>0 DEF CopyFits, Steady
<1>3. OldRow(c) => OldRow(c)'
  BY <1>0 DEF OldRow, Steady
<1>4. ResultFits(c)'
  BY <1>0 DEF ResultFits, Steady
<1> QED
  BY <1>1, <1>2, <1>3, <1>4 DEF CopyFits

\* A request copies a held proposal or a stored intent, both of which fit.
LEMMA RequestFits ==
  ASSUME TermsInv, Steady, NEW c \in Clients, Request(c)
  PROVE  CopiesFit'
<1>1. PICK new \in Op : Begin(c, new) /\ (Creates(c, new) \/ Advances(new))
  BY RequestStarts DEF TermsInv
<1>2. /\ op'[c] = new /\ Others(c) /\ ~Busy(c) /\ new.row \in Intent /\ new.id \in Intents
      /\ UNCHANGED <<intents, proposals, executions>>
      /\ intents \in [Intents -> Intent] /\ held[c] \in Proposal
  BY <1>1, BeginShape DEF TermsInv, TypeInv, TypeOK, Begin, Busy, Op, orders
<1>5. Agreed' = Agreed
  BY <1>2 DEF Agreed, proposals
<1>3. CopyFits(c)' /\ ResultFits(c)'
  <2>1. CASE Creates(c, new)
    <3>1. NewRow(c)'
      BY <1>2, <2>1 DEF Creates, NewRow, Others, Busy
    <3>2. new.row.terms \in Agreed[new.row.proposal] /\ new.row.status = Created
      BY <2>1 DEF Creates, TermsInv, HeldIsDecided
    <3>3. \A i \in new.retiring : intents[i].status # Absent
      BY <2>1 DEF Creates, ActiveFor, Active
    <3>4. CopyFits(c)'
      BY <1>2, <1>5, <3>1, <3>2, <3>3 DEF CopyFits
    <3>5. ResultFits(c)'
      BY <1>2, <2>1, <3>2 DEF ResultFits, Creates, Simulated
    <3> QED
      BY <3>4, <3>5
  <2>2. CASE Advances(new)
    <3>1. /\ new.row.proposal = intents[new.id].proposal /\ new.row.terms = intents[new.id].terms
          /\ intents[new.id].status # Absent
      BY <1>2, <2>2 DEF Advances, Intent, Active
    <3>2. new.row.status \notin {Absent, Superseded}
      BY <2>2, <1>1 DEF Advances, Op, Result, Simulated
    <3>3. new.row.terms \in Agreed[new.row.proposal]
      BY <1>2, <3>1 DEF TermsInv, StoredAsAgreed
    <3>4. CopyFits(c)'
      <4>1. OldRow(c)'
        BY <1>2, <2>2, <3>1 DEF OldRow, Advances, Steps
      <4>2. \A i \in op'[c].retiring : intents'[i].status # Absent
        BY <1>2, <2>2 DEF Advances
      <4> QED
        BY <1>2, <1>5, <3>2, <3>3, <4>1, <4>2 DEF CopyFits
    <3>5. ResultFits(c)'
      BY <1>2, <2>2 DEF ResultFits, Advances, Simulated
    <3> QED
      BY <3>4, <3>5
  <2> QED
    BY <1>1, <2>1, <2>2
<1>4. ASSUME NEW d \in Clients \ {c}, Busy(d)
      PROVE  CopyFits(d)' /\ ResultFits(d)'
  <2>1. op'[d] = op[d] /\ CopyFits(d) /\ ResultFits(d)
    BY <1>2, <1>4 DEF Others, TermsInv, CopiesFit
  <2>2. NewRow(d) => new.id # op[d].id
    BY <1>1, <1>4 DEF Creates, Advances, NewRow, Active
  <2>3. NewRow(d) => NewRow(d)'
    BY <1>2, <2>1, <2>2 DEF NewRow, Others, Busy
  <2> QED
    BY <1>4, <2>1, <2>3, OthersFit DEF TermsInv
<1> QED
  BY <1>2, <1>3, <1>4 DEF CopiesFit, Others, Busy

\* A commit stores a copy that fits, and the client goes on with it.
LEMMA ProceedFits ==
  ASSUME TermsInv, Steady, NEW c \in Clients, Proceed(c) \/ Crash(c)
  PROVE  CopiesFit'
<1>0. /\ TypeInv /\ op[c] \in Op /\ Busy(c) /\ CopyFits(c) /\ ResultFits(c)
      /\ intents \in [Intents -> Intent] /\ executions \in Seq(Execution)
  <2>1. Busy(c)
    BY ZenonT(60) DEF Proceed, Retire, Warn, SaveIntent, SaveExecution, SaveFills, Notify, RecordReview,
           RecordAudit, Crash, Busy
  <2> QED
    BY SMTT(60), <2>1 DEF TermsInv, CopiesFit, TypeInv, TypeOK
\* The ids that are new to the other clients stay so.
<1>1. ASSUME Others(c), op'[c].step # "idle" => op'[c].id = op[c].id, NEW d \in Clients \ {c}, Busy(d)
      PROVE  CopyFits(d)' /\ ResultFits(d)'
  <2>1. op'[d] = op[d] /\ CopyFits(d) /\ ResultFits(d)
    BY <1>1 DEF Others, TermsInv, CopiesFit
  <2>2. ASSUME NewRow(d)  PROVE NewRow(d)'
    <3>1. op[c].id # op[d].id
      BY <1>0, <1>1, <2>2 DEF NewRow
    <3>2. \A e \in Clients \ {d} : Busy(e)' => op'[e].id # op'[d].id
      BY <1>1, <2>1, <2>2, <3>1 DEF NewRow, Others, Busy
    <3>3. intents'[op[d].id].status = Absent
      <4>0. op[d].id \in Intents
        BY <1>0, <1>1 DEF TypeInv, Op
      <4>1. CASE Retire(c)
        <5>1. PICK i \in op[c].retiring : intents' = [intents EXCEPT ![i] =
                [intents[i] EXCEPT !.status = Superseded, !.by = op[c].id]]
          BY <4>1 DEF Retire
        <5>2. i # op[d].id
          BY <1>0, <2>2, <5>1 DEF CopyFits, NewRow
        <5> QED
          BY <1>0, <2>2, <4>0, <5>1, <5>2 DEF NewRow
      <4>2. CASE SaveIntent(c)
        BY <1>0, <2>2, <3>1, <4>0, <4>2 DEF NewRow, SaveIntent
      <4>3. CASE ~Retire(c) /\ ~SaveIntent(c)
        <5>1. intents' = intents
          BY <4>3 DEF Proceed, Warn, SaveExecution, SaveFills, Notify, RecordReview, RecordAudit,
                      Crash, orders
        <5> QED
          BY <2>2, <5>1 DEF NewRow
      <4> QED
        BY <4>1, <4>2, <4>3
    <3> QED
      BY <2>1, <2>2, <3>2, <3>3 DEF NewRow
  <2> QED
    BY <1>0, <1>1, <2>1, <2>2, OthersFit
\* A client that goes on keeps a row that fits.
<1>2. ASSUME Others(c), SameWork(c), op'[c].retiring \subseteq op[c].retiring,
             NewRow(c)' \/ OldRow(c)', ResultFits(c)'
      PROVE  CopiesFit'
  <2>1. op[c].row.proposal \in Proposals /\ op[c].retiring \subseteq Intents
    BY <1>0 DEF Op, Intent
  <2>2. /\ op'[c].row.status \notin {Absent, Superseded}
        /\ op'[c].row.terms \in Agreed'[op'[c].row.proposal]
        /\ \A i \in op'[c].retiring : intents'[i].status # Absent
    BY <1>0, <1>2, <2>1 DEF CopyFits, SameWork, Steady
  <2>3. CopyFits(c)'
    BY <1>2, <2>2 DEF CopyFits, SameWork
  <2> QED
    BY <1>1, <1>2, <2>3 DEF CopiesFit, SameWork, Others, Busy
\* Somebody's new id is still new for whoever owns it while others stand still.
<1>3. ASSUME Others(c), op'[c].id = op[c].id, op'[c].action = op[c].action,
             op'[c].step \in {"retire", "warn", "save"}, NewRow(c),
             intents'[op[c].id] = intents[op[c].id]
      PROVE  NewRow(c)'
  BY <1>3 DEF NewRow, Others, Busy
<1>4. ASSUME SameWork(c), OldRow(c),
             op'[c].step \in IF op[c].action = "create" THEN {"review", "audit"}
                             ELSE Steps \ {"idle", "retire", "warn"}
      PROVE  OldRow(c)'
  <2>1. op[c].id \in Intents
    BY <1>0 DEF Op
  <2> QED
    BY <1>4, <2>1 DEF OldRow, SameWork, Steady
<1>5. CASE Retire(c)
  <2>1. PICK i \in op[c].retiring : i = op'[c].old
    BY ZenonT(60), <1>0, <1>5, RetireShape
  <2>2. /\ Others(c) /\ SameWork(c) /\ op'[c].step = "warn"
        /\ op'[c].retiring = op[c].retiring \ {i}
        /\ intents' = [intents EXCEPT ![i] =
              [intents[i] EXCEPT !.status = Superseded, !.by = op[c].id]]
    BY <1>0, <1>5, <2>1, RetireShape
  <2>3. NewRow(c) /\ op[c].step = "retire"
    BY <1>0, <1>5 DEF Retire, CopyFits, OldRow
  <2>4. intents'[op[c].id] = intents[op[c].id]
    <3>1. i # op[c].id /\ op[c].id \in Intents
      BY <1>0, <2>1, <2>3 DEF CopyFits, NewRow, Op
    <3> QED
      BY <1>0, <2>2, <3>1
  <2>5. NewRow(c)'
    BY <1>3, <2>2, <2>3, <2>4 DEF SameWork
  <2>6. ResultFits(c)'
    BY <1>0, <2>2, <2>3 DEF ResultFits, NewRow, SameWork
  <2> QED
    BY <1>2, <2>2, <2>5, <2>6
<1>6. CASE Warn(c)
  <2>1. PICK s \in {"save", "retire"} : Goto(c, s)
    BY <1>6 DEF Warn
  <2>2. Others(c) /\ SameWork(c) /\ op'[c].step = s /\ op'[c].retiring = op[c].retiring
    BY <1>0, <2>1, GotoShape DEF Steps
  <2>3. NewRow(c) /\ op[c].step = "warn" /\ intents' = intents
    BY <1>0, <1>6 DEF Warn, CopyFits, OldRow
  <2>4. NewRow(c)'
    BY <1>3, <2>2, <2>3 DEF SameWork
  <2>5. ResultFits(c)'
    BY <1>0, <2>2, <2>3 DEF ResultFits, NewRow, SameWork
  <2> QED
    BY <1>2, <2>2, <2>4, <2>5
<1>7. CASE SaveIntent(c)
  <2>1. PICK s \in {"execution", "review"} :
          Goto(c, s) /\ s = (IF op[c].action = "simulate" THEN "execution" ELSE "review")
    BY <1>7 DEF SaveIntent
  <2>2. Others(c) /\ SameWork(c) /\ op'[c].step = s /\ op'[c].retiring = op[c].retiring
    BY <1>0, <2>1, GotoShape DEF Steps
  <2>3. OldRow(c)'
    <3>1. intents'[op[c].id] = op[c].row
      BY <1>0, <1>7 DEF SaveIntent, Op
    <3> QED
      BY <1>0, <2>1, <2>2, <3>1 DEF OldRow, SameWork, CopyFits, Steps
  <2>4. ResultFits(c)'
    BY <1>0, <2>1, <2>2 DEF ResultFits, SameWork
  <2> QED
    BY <1>2, <2>2, <2>3, <2>4
<1>8. CASE SaveExecution(c)
  <2>1. /\ Others(c) /\ SameWork(c) /\ op'[c].step \in {"notify", "fills"}
        /\ op'[c].retiring = op[c].retiring /\ op'[c].execution = Len(executions) + 1
    BY <1>0, <1>8, ExecutionShape
  <2>2. executions'[Len(executions) + 1] =
          [intent |-> op[c].id, stage |-> op[c].result.stage, filled |-> op[c].result.filled]
    BY <1>0, <1>8 DEF SaveExecution
  <2>3. op[c].action = "simulate" /\ OldRow(c)
    BY <1>0, <1>8 DEF SaveExecution, ResultFits, CopyFits, NewRow
  <2>4. ResultFits(c)'
    BY <1>0, <2>1, <2>2, <2>3 DEF ResultFits, SameWork
  <2>5. OldRow(c)'
    BY <1>4, <2>1, <2>3 DEF Steps
  <2> QED
    BY <1>2, <2>1, <2>4, <2>5
<1>9. CASE SaveFills(c) \/ Notify(c) \/ RecordReview(c)
  <2>1. PICK s \in {"notify", "review", "audit"} :
          /\ Goto(c, s) /\ op[c].step \in {"fills", "notify", "review"}
          /\ s # "audit" => op[c].action = "simulate"
    BY <1>0, <1>9 DEF SaveFills, Notify, RecordReview, ResultFits
  <2>2. Others(c) /\ SameWork(c) /\ op'[c].step = s /\ op'[c].retiring = op[c].retiring
    BY <1>0, <2>1, GotoShape DEF Steps
  <2>3. OldRow(c)
    BY <1>0, <2>1 DEF CopyFits, NewRow
  <2>4. ResultFits(c)'
    BY <1>0, <2>1, <2>2 DEF ResultFits, SameWork
  <2>5. OldRow(c)'
    BY <1>4, <2>1, <2>2, <2>3 DEF Steps
  <2> QED
    BY <1>2, <2>2, <2>4, <2>5
<1>10. CASE RecordAudit(c) \/ Crash(c)
  <2>1. Others(c) /\ op'[c].step = "idle"
    BY <1>0, <1>10, EndShape
  <2> QED
    BY <1>1, <2>1 DEF CopiesFit, Others, Busy
<1> QED
  BY <1>5, <1>6, <1>7, <1>8, <1>9, <1>10 DEF Proceed

\* So every step keeps the copies fitting.
LEMMA CopiesFitStep ==
  ASSUME TermsInv, Steady, [Next]_vars
  PROVE  CopiesFit'
<1>0. \A c \in Clients : Busy(c) => CopyFits(c) /\ ResultFits(c)
  BY DEF TermsInv, CopiesFit
<1>1. ASSUME UNCHANGED <<op, intents, executions>>
      PROVE  CopiesFit'
  <2> SUFFICES ASSUME NEW c \in Clients, Busy(c)  PROVE CopyFits(c)' /\ ResultFits(c)'
    BY <1>1 DEF CopiesFit, Busy
  <2>1. NewRow(c) => NewRow(c)'
    BY <1>1 DEF NewRow, Busy
  <2> QED
    BY <1>0, <1>1, <2>1, OthersFit DEF TermsInv
<1>2. ASSUME NEW c \in Clients, NEW q \in Proposals, fetch(c, q)  PROVE CopiesFit'
  BY <1>1, <1>2 DEF fetch, orders
<1>3. CASE Moves \/ Tick \/ UNCHANGED vars
  BY <1>1, <1>3 DEF Moves, LifecycleStep, LateSave, Tick, vars, orders
<1> QED
  BY <1>2, <1>3, RequestFits, ProceedFits DEF Next, Request, Moves

\* An approved row is one of the versions remembered.
LEMMA RowsStep ==
  ASSUME TermsInv, [Next]_vars
  PROVE  RowsAreVersions'
<1>1. CASE Moves
  BY <1>1, LifecycleKeepsTerms DEF TermsInv
<1>2. CASE ~Moves
  <2>1. \A c \in Clients : Request(c) => UNCHANGED proposals
    BY RequestStarts DEF Begin, TermsInv
  <2>2. UNCHANGED proposals
    BY ZenonT(60), <1>2, <2>1 DEF Next, Moves, Request, Proceed, fetch, Retire, Warn, SaveIntent, SaveExecution,
       SaveFills, Notify, RecordReview, RecordAudit, Crash, Tick, vars
  <2>3. Agreed' = Agreed /\ status' = status /\ terms' = terms
    BY <2>2 DEF Agreed, proposals
  <2> QED
    BY <2>3 DEF TermsInv, RowsAreVersions
<1> QED
  BY <1>1, <1>2

\* What a caller holds was approved with the terms in hand, whatever it is now.
LEMMA HeldStep ==
  ASSUME TermsInv, Steady, [Next]_vars
  PROVE  HeldIsDecided'
<1> SUFFICES ASSUME NEW c \in Clients, held'[c].status = "approved"
             PROVE  held'[c].terms \in Agreed'[held'[c].id]
  BY DEF HeldIsDecided
<1>0. held \in [Clients -> Proposal]
  BY DEF TermsInv, TypeInv, TypeOK
<1>1. CASE held'[c] = held[c]
  <2>1. held[c].id \in Proposals
    BY <1>0 DEF Proposal
  <2> QED
    BY <1>1, <2>1 DEF TermsInv, HeldIsDecided, Steady
<1>2. CASE held'[c] # held[c]
  <2>1. held' # held
    BY <1>2
  <2>2. PICK d \in Clients, q \in Proposals : fetch(d, q)
    <3>1. ASSUME NEW d \in Clients, Request(d) \/ Proceed(d) \/ Crash(d)  PROVE held' = held
      <4>1. Request(d) => held' = held
        BY RequestStarts DEF Begin, TermsInv
      <4> QED
        BY ZenonT(60), <3>1, <4>1 DEF Proceed, Retire, Warn, SaveIntent, SaveExecution, SaveFills, Notify,
                          RecordReview, RecordAudit, Crash
    <3> QED
      BY SMTT(60), <2>1, <3>1 DEF Next, Request, LifecycleStep, LateSave, Tick, vars
  <2>3. d = c /\ held'[c] = [id |-> q, status |-> status[q], terms |-> terms[q]]
        /\ UNCHANGED proposals
    BY <1>0, <1>2, <2>2 DEF fetch
  <2>4. terms[q] \in Agreed[q] /\ Agreed' = Agreed
    <3>1. status[q] = "approved"
      BY <2>3
    <3> QED
      BY <2>3, <3>1 DEF Agreed, proposals, TermsInv, RowsAreVersions
  <2> QED
    BY <2>3, <2>4
<1> QED
  BY <1>1, <1>2

\* Every step keeps what is stored, held and copied to the approved terms.
LEMMA TermsStep == TermsInv /\ [Next]_vars => TermsInv'
<1> SUFFICES ASSUME TermsInv, [Next]_vars  PROVE TermsInv'
  OBVIOUS
<1>0. TypeInv /\ TypeInv' /\ Steady /\ intents \in [Intents -> Intent]
  BY TypeStep, SteadyStep DEF TermsInv, TypeInv, TypeOK
<1>1. RowsAreVersions' /\ HeldIsDecided' /\ CopiesFit'
  BY <1>0, RowsStep, HeldStep, CopiesFitStep
<1>2. StoredAsAgreed'
  <2> SUFFICES ASSUME NEW i \in Intents, intents'[i].status # Absent
               PROVE  intents'[i].terms \in Agreed'[intents'[i].proposal]
    BY DEF StoredAsAgreed
  <2>1. CASE intents[i].status # Absent
    <3>1. intents[i].proposal \in Proposals
      BY <1>0 DEF Intent
    <3> QED
      BY <1>0, <2>1, <3>1 DEF TermsInv, StoredAsAgreed, Steady
  <2>2. CASE intents[i].status = Absent
    <3>1. PICK c \in Clients : SaveIntent(c) \/ Retire(c)
      <4>1. intents' # intents
        BY <2>2
      <4>2. ASSUME NEW c \in Clients, Request(c)  PROVE intents' = intents
        BY <1>0, <4>2, RequestStarts DEF Begin, orders
      <4> QED
        BY ZenonT(60), <4>1, <4>2 DEF Next, Request, Proceed, fetch, Warn, SaveExecution, SaveFills, Notify,
                          RecordReview, RecordAudit, Crash, LifecycleStep, LateSave, Tick, vars, orders
    <3>2. Busy(c) /\ CopyFits(c) /\ op[c] \in Op
      <4>1. Busy(c)
        BY ZenonT(60), <3>1 DEF SaveIntent, Retire, Busy
      <4> QED
        BY <4>1 DEF TermsInv, CopiesFit, TypeInv
    <3>3. ~Retire(c)
      BY <1>0, <2>2, <3>2 DEF Retire, CopyFits
    <3>4. intents'[i] = op[c].row /\ UNCHANGED proposals
      BY <1>0, <2>2, <3>1, <3>2, <3>3 DEF SaveIntent, Op
    <3>5. Agreed' = Agreed
      BY <3>4 DEF Agreed, proposals
    <3> QED
      BY <3>2, <3>4, <3>5 DEF CopyFits
  <2> QED
    BY <2>1, <2>2
<1> QED
  BY <1>0, <1>1, <1>2 DEF TermsInv

\* Nothing is stored, held or copied at the start.
LEMMA TermsInit == Init => TermsInv
<1> SUFFICES ASSUME Init  PROVE TermsInv
  OBVIOUS
<1>1. TypeInv
  BY TypeInit
<1>2. /\ \A c \in Clients : op[c].step = "idle" /\ held[c].status = "absent"
      /\ \A i \in Intents : intents[i].status = Absent
      /\ \A q \in Proposals : status[q] # "approved"
  BY DEF Init, IdleOp, NoProposal, Blank, Workflow!Init, Workflow!Blank
<1> QED
  BY <1>1, <1>2 DEF TermsInv, RowsAreVersions, HeldIsDecided, CopiesFit, Busy, StoredAsAgreed

\* However long a caller holds a proposal it once read as approved, and whatever
\* the lifecycle does to it meanwhile, late saves over the approval included, every
\* stored intent carries terms its proposal was approved with; and unless a late
\* save hit the proposal they are its terms, and it is approved or cancelled.
THEOREM IntentsCarryApprovedTerms == Spec => []IntentCarriesApprovedTerms
<1>1. TermsInv => IntentCarriesApprovedTerms
  BY DEF TermsInv, TypeInv, TypeOK, Intent, StoredAsAgreed, Agreed, IntentCarriesApprovedTerms
<1> QED
  BY <1>1, TermsInit, TermsStep, PTL DEF Spec

(***************************************************************************)
(* The books                                                               *)
(***************************************************************************)
\* An execution is of a stored intent, so the size it is measured by is fixed.
BooksInv ==
  /\ TermsInv /\ ExecutionsAddUp
  /\ \A n \in DOMAIN executions : intents[executions[n].intent].status # Absent

\* Every step keeps the books balanced.
LEMMA BooksStep == BooksInv /\ [Next]_vars => BooksInv'
<1> SUFFICES ASSUME BooksInv, [Next]_vars  PROVE BooksInv'
  OBVIOUS
<1>0. /\ TypeInv /\ TermsInv /\ TermsInv' /\ Steady /\ executions \in Seq(Execution)
      /\ \A e \in timeline : e.execution \in DOMAIN executions
  BY TermsStep, SteadyStep DEF BooksInv, TermsInv, TypeInv, TypeOK
<1> DEFINE Book(n) ==
      /\ intents[executions[n].intent].status # Absent
      /\ Balances(executions[n].stage, executions[n].filled, FragmentsOf(n),
                  intents[executions[n].intent].terms[1])
<1>1. \A n \in DOMAIN executions : Book(n) /\ executions[n] \in Execution
  BY <1>0 DEF BooksInv, ExecutionsAddUp, Balances
<1>2. SUFFICES ASSUME NEW n \in DOMAIN executions'  PROVE Book(n)'
  BY <1>0 DEF BooksInv, ExecutionsAddUp, Balances
<1> HIDE DEF Book
\* Nothing happens to the execution: its book stays.
<1>3. ASSUME n \in DOMAIN executions, FragmentsOf(n)' = FragmentsOf(n)
      PROVE  Book(n)'
  <2>1. /\ executions'[n] = executions[n] /\ executions[n].intent \in Intents /\ Book(n)
    BY <1>0, <1>1, <1>3 DEF Steady, Execution
  <2> QED
    BY <1>0, <1>3, <2>1 DEF Book, Steady
<1>4. CASE timeline' = timeline /\ executions' = executions
  BY <1>3, <1>4 DEF FragmentsOf
<1>5. ASSUME NEW c \in Clients, SaveExecution(c)
      PROVE  Book(n)'
  <2>1. /\ op[c] \in Op /\ Busy(c) /\ CopyFits(c) /\ ResultFits(c) /\ op[c].step = "execution"
    BY <1>0, <1>5 DEF SaveExecution, TermsInv, CopiesFit, Busy, TypeInv
  <2>2. FragmentsOf(n)' = FragmentsOf(n)
    BY <1>5 DEF SaveExecution, FragmentsOf
  <2>3. CASE n \in DOMAIN executions
    BY <1>3, <2>2, <2>3
  <2>4. CASE n \notin DOMAIN executions
    <3>1. FragmentsOf(n) = {}
      BY <1>0, <2>4 DEF FragmentsOf
    <3>2. executions'[n] =
            [intent |-> op[c].id, stage |-> op[c].result.stage, filled |-> op[c].result.filled]
      BY <1>0, <1>2, <1>5, <2>4 DEF SaveExecution
    <3>3. OldRow(c) /\ intents' = intents /\ op[c].action = "simulate"
      BY <1>5, <2>1 DEF CopyFits, NewRow, SaveExecution, ResultFits
    <3>4. /\ intents'[op[c].id].status # Absent
          /\ intents'[op[c].id].terms = op[c].row.terms
      BY <3>3 DEF OldRow
    <3>5. Balances(op[c].result.stage, op[c].result.filled, {}, op[c].row.terms[1])
      BY <2>1, <3>3 DEF ResultFits, Balances
    <3> QED
      BY <2>2, <3>1, <3>2, <3>4, <3>5 DEF Book
  <2> QED
    BY <2>3, <2>4
<1>6. ASSUME NEW c \in Clients, SaveFills(c)
      PROVE  Book(n)'
  <2>1. /\ op[c] \in Op /\ Busy(c) /\ CopyFits(c) /\ ResultFits(c) /\ op[c].step = "fills"
        /\ UNCHANGED <<executions, intents>>
    BY <1>0, <1>6 DEF SaveFills, TermsInv, CopiesFit, Busy, TypeInv
  <2>2. timeline' = timeline \cup
          {[execution |-> op[c].execution, fragment |-> f] : f \in op[c].result.fragments}
    BY <1>6 DEF SaveFills
  <2>3. CASE n # op[c].execution
    <3>1. FragmentsOf(n)' = FragmentsOf(n)
      BY <2>2, <2>3 DEF FragmentsOf
    <3> QED
      BY <1>2, <1>3, <2>1, <3>1
  <2>4. CASE n = op[c].execution
    <3>1. FragmentsOf(n)' = FragmentsOf(n) \cup op[c].result.fragments
      <4> DEFINE new == {[execution |-> n, fragment |-> f] : f \in op[c].result.fragments}
      <4>1. {x \in timeline' : x.execution = n} = {x \in timeline : x.execution = n} \cup new
        BY <2>2, <2>4
      <4>2. {e.fragment : e \in new} = op[c].result.fragments
        <5>1. \A f \in op[c].result.fragments :
                [execution |-> n, fragment |-> f] \in new
                  /\ [execution |-> n, fragment |-> f].fragment = f
          OBVIOUS
        <5>2. \A e \in new : e.fragment \in op[c].result.fragments
          OBVIOUS
        <5> HIDE DEF new
        <5> QED
          BY ZenonT(60), <5>1, <5>2
      <4> HIDE DEF new
      <4> QED
        BY <4>1, <4>2 DEF FragmentsOf
    <3>2. /\ op[c].action = "simulate" /\ OldRow(c)
          /\ executions[n] = [intent |-> op[c].id, stage |-> op[c].result.stage,
                              filled |-> op[c].result.filled]
      BY <2>1, <2>4 DEF CopyFits, NewRow, ResultFits
    <3> DEFINE size == op[c].row.terms[1]
               own  == op[c].result.fragments
    <3>3. /\ intents[op[c].id].status # Absent /\ intents[op[c].id].terms[1] = size
          /\ executions[n].intent = op[c].id
      BY <3>2 DEF OldRow
    <3>4. /\ Balances(executions[n].stage, executions[n].filled, own, size)
          /\ Balances(executions[n].stage, executions[n].filled, FragmentsOf(n), size)
      BY <1>1, <1>2, <2>1, <3>2, <3>3 DEF ResultFits, Book
    <3> HIDE DEF size, own
    <3>5. Balances(executions[n].stage, executions[n].filled, FragmentsOf(n) \cup own, size)
      BY <3>4 DEF Balances
    <3> QED
      BY <2>1, <3>1, <3>3, <3>5 DEF Book, own
  <2> QED
    BY <2>3, <2>4
<1>7. ASSUME NEW c \in Clients, Request(c)
      PROVE  timeline' = timeline /\ executions' = executions
  BY <1>0, <1>7, RequestStarts DEF Begin, orders
<1> QED
  BY ZenonT(60), <1>4, <1>5, <1>6, <1>7 DEF Next, Request, Proceed, fetch, Retire, Warn, SaveIntent, Notify,
     RecordReview, RecordAudit, Crash, LifecycleStep, LateSave, Tick, vars, orders

\* There are no books at the start.
LEMMA BooksInit == Init => BooksInv
BY TermsInit DEF Init, BooksInv, ExecutionsAddUp

\* The books of every execution balance for every size, price, quote and rounding:
\* it never fills more than the order, says filled exactly if nothing remains, and
\* its fragments count down from the order's size to what was left open.
THEOREM ExecutionsBalance == Spec => []ExecutionsAddUp
<1>1. BooksInv => ExecutionsAddUp
  BY DEF BooksInv
<1> QED
  BY <1>1, BooksInit, BooksStep, PTL DEF Spec

(***************************************************************************)
(* What explains a status.  As long as nothing crashed, an explanation is  *)
(* written or a client still has it to write.                              *)
(***************************************************************************)
Raised(type, i)  == [type |-> type, intent |-> i] \in alerts
Ran(i, stage)    == \E n \in DOMAIN executions :
                      <<executions[n].intent, executions[n].stage>> = <<i, stage>>
Reviewed(i, s)   == \E k \in DOMAIN reviews[i] : reviews[i][k] = s

Warns(c, i)      == op[c].step = "warn" /\ op[c].old = i
Opens(c, i)      == op[c].step \in {"retire", "warn", "save"} /\ op[c].id = i
Simulates(c, i)  == op[c].step \in {"execution", "fills", "notify"} /\ op[c].id = i
Runs(c, i, s)    == op[c].step = "execution" /\ op[c].id = i /\ op[c].result.stage = s
Reviews(c, i, s) == /\ op[c].step \in {"execution", "fills", "notify", "review"}
                    /\ op[c].id = i /\ op[c].row.status = s
AuditDue(i)      == {c \in Clients : op[c].step = "audit" /\ op[c].id = i}

SupersededExplained(i) ==
  intents[i].status = Superseded =>
    /\ Raised("active_intent_superseded", i) \/ \E c \in Clients : Warns(c, i)
    /\ intents[i].by \in Intents
    /\ intents[intents[i].by].status # Absent \/ \E c \in Clients : Opens(c, intents[i].by)

SimulatedExplained(i) ==
  intents[i].status \in Simulated =>
    /\ Raised("simulated_execution_recorded", i) \/ \E c \in Clients : Simulates(c, i)
    /\ Ran(i, intents[i].status) \/ \E c \in Clients : Runs(c, i, intents[i].status)

StatusReviewed(i) ==
  intents[i].status \notin {Absent, Superseded} =>
    Reviewed(i, intents[i].status) \/ \E c \in Clients : Reviews(c, i, intents[i].status)

AuditsFollow(i) ==
  IsFiniteSet(AuditDue(i)) /\ Len(reviews[i]) = audits[i] + Cardinality(AuditDue(i))

WorkInHand ==
  crashes = 0 => \A i \in Intents : /\ SupersededExplained(i) /\ SimulatedExplained(i)
                                    /\ StatusReviewed(i) /\ AuditsFollow(i)

ExplainInv == TermsInv /\ WorkInHand

\* Alerts, executions and reviews are only ever added.
LEMMA RecordsStay ==
  ASSUME TermsInv, Steady, [Next]_vars
  PROVE  /\ alerts \subseteq alerts'
         /\ \A i \in Intents, s \in IntentStatuses :
              (Ran(i, s) => Ran(i, s)') /\ (Reviewed(i, s) => Reviewed(i, s)')
<1>0. reviews \in [Intents -> Seq(IntentStatuses)] /\ op \in [Clients -> Op] /\ TypeInv
  BY DEF TermsInv, TypeInv, TypeOK
<1>1. \A i \in Intents, s \in IntentStatuses : Ran(i, s) => Ran(i, s)'
  BY DEF Ran, Steady
<1>2. ASSUME NEW c \in Clients, RecordReview(c), NEW i \in Intents, NEW s, Reviewed(i, s)
      PROVE  Reviewed(i, s)'
  <2>1. op[c].id \in Intents /\ reviews' = [reviews EXCEPT ![op[c].id] = Append(@, op[c].row.status)]
        /\ op[c].row.status \in IntentStatuses
    BY <1>0, <1>2 DEF RecordReview, Op, Intent
  <2>2. PICK k \in DOMAIN reviews[i] : reviews[i][k] = s
    BY <1>2 DEF Reviewed
  <2>3. k \in DOMAIN reviews'[i] /\ reviews'[i][k] = s
    BY <1>0, <2>1, <2>2
  <2> QED
    BY <2>3 DEF Reviewed
<1>3. ASSUME NEW c \in Clients, Request(c)  PROVE UNCHANGED <<alerts, reviews>>
  BY <1>0, <1>3, RequestStarts DEF Begin, orders
<1>4. ASSUME NEW c \in Clients, RecordReview(c)  PROVE alerts' = alerts
  BY <1>4 DEF RecordReview
<1>5. CASE \E c \in Clients : RecordReview(c)
  BY <1>1, <1>2, <1>4, <1>5
<1>6. CASE ~ \E c \in Clients : RecordReview(c)
  <2>1. reviews' = reviews /\ alerts \subseteq alerts'
    BY <1>3, <1>6 DEF Next, Request, Proceed, fetch, Retire, Warn, SaveIntent, SaveExecution,
       SaveFills, Notify, RecordAudit, Crash, LifecycleStep, LateSave, Tick, vars, orders
  <2> QED
    BY SMTT(60), <1>1, <2>1 DEF Reviewed
<1> QED
  BY <1>5, <1>6

\* What a request leaves alone.
LEMMA RequestOwesNothing ==
  ASSUME TypeInv, NEW c \in Clients, Request(c)
  PROVE  /\ Others(c) /\ op[c].step = "idle" /\ op'[c].step \in {"retire", "save"}
         /\ UNCHANGED <<orders, crashes>>
<1>1. PICK new \in Op : Begin(c, new) /\ (Creates(c, new) \/ Advances(new))
  BY RequestStarts
<1>2. op'[c] = new /\ Others(c)
  BY <1>1, BeginShape
<1> QED
  BY <1>1, <1>2 DEF Begin, Creates, Advances

\* A commit keeps a superseded intent explained by its alert, or its client on the way to it.
LEMMA SupersededStep ==
  ASSUME TermsInv, Steady, [Next]_vars, NEW c \in Clients, Request(c) \/ Proceed(c),
         NEW i \in Intents, SupersededExplained(i)
  PROVE  SupersededExplained(i)'
<1> SUFFICES ASSUME intents'[i].status = Superseded
             PROVE  /\ Raised("active_intent_superseded", i)' \/ \E d \in Clients : Warns(d, i)'
                    /\ intents'[i].by \in Intents
                    /\ \/ intents'[intents'[i].by].status # Absent
                       \/ \E d \in Clients : /\ op'[d].step \in {"retire", "warn", "save"}
                                             /\ op'[d].id = intents'[i].by
  BY DEF SupersededExplained, Opens
<1>0. /\ TypeInv /\ intents \in [Intents -> Intent] /\ op[c] \in Op
      /\ Raised("active_intent_superseded", i) => Raised("active_intent_superseded", i)'
  BY RecordsStay DEF TermsInv, TypeInv, TypeOK, Raised
<1>1. ASSUME intents'[i] = intents[i],
             ~Raised("active_intent_superseded", i)' => \A d \in Clients : Warns(d, i) => Warns(d, i)',
             \A d \in Clients, j \in Intents :
               Opens(d, j) => intents'[j].status # Absent \/ Opens(d, j)'
      PROVE  /\ Raised("active_intent_superseded", i)' \/ \E d \in Clients : Warns(d, i)'
             /\ intents'[i].by \in Intents
             /\ \/ intents'[intents'[i].by].status # Absent
                \/ \E d \in Clients : /\ op'[d].step \in {"retire", "warn", "save"}
                                      /\ op'[d].id = intents'[i].by
  <2>1. PICK j \in Intents : j = intents[i].by
    BY <1>1 DEF SupersededExplained
  <2>2. intents[j].status # Absent \/ \E d \in Clients : Opens(d, j)
    BY <1>1, <2>1 DEF SupersededExplained
  <2>3. intents'[j].status # Absent \/ \E d \in Clients : Opens(d, j)'
    BY <1>1, <2>2 DEF Steady
  <2>4. Raised("active_intent_superseded", i)' \/ \E d \in Clients : Warns(d, i)'
    BY <1>0, <1>1 DEF SupersededExplained
  <2> QED
    BY <1>1, <2>1, <2>3, <2>4 DEF Opens
<1>2. CASE Request(c) \/ SaveExecution(c) \/ SaveFills(c) \/ Notify(c) \/ RecordReview(c)
           \/ RecordAudit(c)
  <2>1. Others(c) /\ op[c].step \notin {"retire", "warn", "save"}
    <3>1. Request(c) => Others(c) /\ op[c].step = "idle"
      BY <1>0, RequestOwesNothing
    <3>2. SaveExecution(c) => Others(c) /\ op[c].step = "execution"
      BY <1>0, ExecutionShape DEF SaveExecution
    <3>3. RecordAudit(c) => Others(c) /\ op[c].step = "audit"
      BY <1>0, EndShape DEF RecordAudit
    <3>4. SaveFills(c) => Others(c) /\ op[c].step = "fills"
      BY <1>0, GotoShape DEF SaveFills, Steps
    <3>5. Notify(c) => Others(c) /\ op[c].step = "notify"
      BY <1>0, GotoShape DEF Notify, Steps
    <3>6. RecordReview(c) => Others(c) /\ op[c].step = "review"
      BY <1>0, GotoShape DEF RecordReview, Steps
    <3> QED
      BY <1>2, <3>1, <3>2, <3>3, <3>4, <3>5, <3>6
  <2>2. intents' = intents
    BY <1>0, <1>2, RequestOwesNothing DEF SaveExecution, SaveFills, Notify, RecordReview,
       RecordAudit, orders
  <2> QED
    BY <1>1, <2>1, <2>2 DEF Others, Warns, Opens
<1>3. CASE Retire(c)
  <2>1. PICK j \in op[c].retiring : j = op'[c].old
    BY <1>0, <1>3, RetireShape
  <2>2. /\ Others(c) /\ op'[c].id = op[c].id /\ op'[c].step = "warn" /\ op[c].step = "retire"
        /\ intents' = [intents EXCEPT ![j] =
             [intents[j] EXCEPT !.status = Superseded, !.by = op[c].id]]
    BY <1>0, <1>3, <2>1, RetireShape DEF SameWork, Retire
  <2>3. CASE i = j
    <3>1. intents'[i].by = op[c].id /\ op[c].id \in Intents
      BY <1>0, <2>2, <2>3 DEF Intent, Op
    <3> QED
      BY <2>1, <2>2, <2>3, <3>1 DEF Warns
  <2>4. CASE i # j
    <3>1. intents'[i] = intents[i]
      BY <1>0, <2>2, <2>4
    <3> QED
      BY <1>1, <2>2, <3>1 DEF Others, Warns, Opens
  <2> QED
    BY <2>3, <2>4
<1>4. CASE Warn(c)
  <2>1. PICK s \in {"save", "retire"} : Goto(c, s)
    BY <1>4 DEF Warn
  <2>2. Others(c) /\ op'[c].id = op[c].id /\ op'[c].step = s
    BY <1>0, <2>1, GotoShape DEF SameWork, Steps
  <2>3. intents' = intents /\ (op[c].old = i => Raised("active_intent_superseded", i)')
    BY <1>4 DEF Warn, Raised
  <2> QED
    BY <1>1, <2>2, <2>3 DEF Others, Warns, Opens
<1>5. CASE SaveIntent(c)
  <2>1. PICK s \in {"execution", "review"} : Goto(c, s)
    BY <1>5 DEF SaveIntent
  <2>2. Others(c) /\ op[c].step = "save" /\ op[c].id \in Intents
    BY <1>0, <1>5, <2>1, GotoShape DEF SaveIntent, Steps, Op
  <2>3. op[c].row.status \notin {Absent, Superseded}
    BY <2>2 DEF TermsInv, CopiesFit, CopyFits, Busy
  <2>4. i # op[c].id /\ intents'[i] = intents[i] /\ intents'[op[c].id].status # Absent
    BY <1>0, <1>5, <2>2, <2>3 DEF SaveIntent
  <2> QED
    BY <1>1, <2>2, <2>4 DEF Others, Warns, Opens
<1> QED
  BY <1>2, <1>3, <1>4, <1>5 DEF Proceed

\* A commit keeps a simulated intent explained by its alert and an execution of that stage.
LEMMA SimulatedStep ==
  ASSUME TermsInv, Steady, [Next]_vars, NEW c \in Clients, Request(c) \/ Proceed(c),
         NEW i \in Intents, SimulatedExplained(i)
  PROVE  SimulatedExplained(i)'
<1> SUFFICES ASSUME NEW s \in Simulated, intents'[i].status = s
             PROVE  /\ \/ Raised("simulated_execution_recorded", i)'
                       \/ \E d \in Clients : Simulates(d, i)'
                    /\ Ran(i, s)' \/ \E d \in Clients : Runs(d, i, s)'
  BY DEF SimulatedExplained, Ran, Runs
<1>0. /\ TypeInv /\ intents \in [Intents -> Intent] /\ op[c] \in Op
      /\ Raised("simulated_execution_recorded", i) => Raised("simulated_execution_recorded", i)'
      /\ Ran(i, s) => Ran(i, s)'
  BY RecordsStay DEF TermsInv, TypeInv, TypeOK, Raised, IntentStatuses, Terminal
<1>1. ASSUME intents'[i].status = intents[i].status,
             \A d \in Clients : Simulates(d, i) =>
               Raised("simulated_execution_recorded", i)' \/ Simulates(d, i)',
             \A d \in Clients : Runs(d, i, s) => Ran(i, s)' \/ Runs(d, i, s)'
      PROVE  /\ Raised("simulated_execution_recorded", i)' \/ \E d \in Clients : Simulates(d, i)'
             /\ Ran(i, s)' \/ \E d \in Clients : Runs(d, i, s)'
  BY <1>0, <1>1 DEF SimulatedExplained
<1>2. CASE Request(c) \/ Warn(c) \/ RecordReview(c) \/ RecordAudit(c)
  <2>1. Others(c) /\ op[c].step \notin {"execution", "fills", "notify"}
    <3>1. Request(c) => Others(c) /\ op[c].step = "idle"
      BY <1>0, RequestOwesNothing
    <3>2. RecordAudit(c) => Others(c) /\ op[c].step = "audit"
      BY <1>0, EndShape DEF RecordAudit
    <3>3. Warn(c) => Others(c) /\ op[c].step = "warn"
      BY <1>0, GotoShape DEF Warn, Steps
    <3>4. RecordReview(c) => Others(c) /\ op[c].step = "review"
      BY <1>0, GotoShape DEF RecordReview, Steps
    <3> QED
      BY <1>2, <3>1, <3>2, <3>3, <3>4
  <2>2. intents' = intents
    BY <1>0, <1>2, RequestOwesNothing DEF Warn, RecordReview, RecordAudit, orders
  <2> QED
    BY <1>1, <2>1, <2>2 DEF Others, Simulates, Runs
<1>3. CASE Retire(c)
  <2>1. PICK j \in op[c].retiring : j = op'[c].old
    BY <1>0, <1>3, RetireShape
  <2>2. /\ Others(c) /\ op[c].step = "retire"
        /\ intents' = [intents EXCEPT ![j] =
             [intents[j] EXCEPT !.status = Superseded, !.by = op[c].id]]
    BY <1>0, <1>3, <2>1, RetireShape DEF Retire
  <2>3. i # j
    BY <1>0, <2>2 DEF Simulated, Intent
  <2>4. intents'[i] = intents[i]
    BY <1>0, <2>2, <2>3
  <2> QED
    BY <1>1, <2>2, <2>4 DEF Others, Simulates, Runs
<1>4. CASE SaveIntent(c)
  <2>0. op[c].id \in Intents /\ op[c].step = "save" /\ ResultFits(c)
    BY <1>0, <1>4 DEF SaveIntent, Op, TermsInv, CopiesFit, Busy
  <2>1. PICK next \in {"execution", "review"} :
          Goto(c, next) /\ (op[c].action = "simulate" => next = "execution")
    BY <1>4 DEF SaveIntent
  <2>2. Others(c) /\ SameWork(c) /\ op'[c].step = next
    BY <1>0, <2>1, GotoShape DEF Steps
  <2>3. CASE i = op[c].id
    <3>1. op[c].row.status = s
      BY <1>0, <1>4, <2>0, <2>3 DEF SaveIntent
    <3>2. op[c].action = "simulate" /\ op[c].result.stage = s
      BY <2>0, <3>1 DEF ResultFits
    <3> QED
      BY <2>1, <2>2, <2>3, <3>2 DEF SameWork, Simulates, Runs
  <2>4. CASE i # op[c].id
    <3>1. intents'[i] = intents[i]
      BY <1>0, <1>4, <2>0, <2>4 DEF SaveIntent
    <3> QED
      BY <1>1, <2>0, <2>2, <3>1 DEF Others, Simulates, Runs
  <2> QED
    BY <2>3, <2>4
<1>5. CASE SaveExecution(c)
  <2>1. Others(c) /\ SameWork(c) /\ op'[c].step \in {"notify", "fills"} /\ op[c].step = "execution"
        /\ intents' = intents
    BY <1>0, <1>5, ExecutionShape DEF SaveExecution
  <2>2. Runs(c, i, s) => Ran(i, s)'
    <3>1. /\ Len(executions) + 1 \in DOMAIN executions'
          /\ executions'[Len(executions) + 1] =
               [intent |-> op[c].id, stage |-> op[c].result.stage, filled |-> op[c].result.filled]
      <4>1. executions \in Seq(Execution)
        BY <1>0 DEF TypeInv, TypeOK
      <4> QED
        BY <1>5, <4>1 DEF SaveExecution
    <3> QED
      BY <3>1 DEF Ran, Runs
  <2> QED
    BY <1>1, <2>1, <2>2 DEF Others, SameWork, Simulates, Runs
<1>6. CASE SaveFills(c)
  <2>1. Others(c) /\ SameWork(c) /\ op'[c].step = "notify" /\ op[c].step = "fills" /\ intents' = intents
    BY <1>0, <1>6, GotoShape DEF SaveFills, Steps
  <2> QED
    BY <1>1, <2>1 DEF Others, SameWork, Simulates, Runs
<1>7. CASE Notify(c)
  <2>1. /\ Others(c) /\ op[c].step = "notify" /\ intents' = intents
        /\ op[c].id = i => Raised("simulated_execution_recorded", i)'
    BY <1>0, <1>7, GotoShape DEF Notify, Steps, Raised
  <2> QED
    BY <1>1, <2>1 DEF Others, Simulates, Runs
<1> QED
  BY <1>2, <1>3, <1>4, <1>5, <1>6, <1>7 DEF Proceed

\* A commit keeps every other status explained by a review, or its client on the way to it.
LEMMA ReviewedStep ==
  ASSUME TermsInv, Steady, [Next]_vars, NEW c \in Clients, Request(c) \/ Proceed(c),
         NEW i \in Intents, StatusReviewed(i)
  PROVE  StatusReviewed(i)'
<1> SUFFICES ASSUME NEW s \in IntentStatuses \ {Absent, Superseded}, intents'[i].status = s
             PROVE  Reviewed(i, s)' \/ \E d \in Clients : Reviews(d, i, s)'
  <2>1. intents'[i].status \in IntentStatuses
    BY TermsStep DEF TermsInv, TypeInv, TypeOK, Intent
  <2> QED
    BY <2>1 DEF StatusReviewed, Reviewed, Reviews
<1>0. /\ TypeInv /\ intents \in [Intents -> Intent] /\ op[c] \in Op
      /\ Reviewed(i, s) => Reviewed(i, s)'
  BY RecordsStay DEF TermsInv, TypeInv, TypeOK
<1>1. ASSUME intents'[i].status = intents[i].status,
             \A d \in Clients : Reviews(d, i, s) => Reviewed(i, s)' \/ Reviews(d, i, s)'
      PROVE  Reviewed(i, s)' \/ \E d \in Clients : Reviews(d, i, s)'
  BY <1>0, <1>1 DEF StatusReviewed
<1>2. CASE Request(c) \/ Warn(c) \/ RecordAudit(c)
  <2>1. Others(c) /\ op[c].step \in {"idle", "warn", "audit"}
    <3>1. Request(c) => Others(c) /\ op[c].step = "idle"
      BY <1>0, RequestOwesNothing
    <3>2. RecordAudit(c) => Others(c) /\ op[c].step = "audit"
      BY <1>0, EndShape DEF RecordAudit
    <3>3. Warn(c) => Others(c) /\ op[c].step = "warn"
      BY <1>0, GotoShape DEF Warn, Steps
    <3> QED
      BY <1>2, <3>1, <3>2, <3>3
  <2>2. intents' = intents
    BY <1>0, <1>2, RequestOwesNothing DEF Warn, RecordAudit, orders
  <2> QED
    BY <1>1, <2>1, <2>2 DEF Others, Reviews
<1>3. CASE Retire(c)
  <2>1. PICK j \in op[c].retiring : j = op'[c].old
    BY <1>0, <1>3, RetireShape
  <2>2. /\ Others(c) /\ op[c].step = "retire"
        /\ intents' = [intents EXCEPT ![j] =
             [intents[j] EXCEPT !.status = Superseded, !.by = op[c].id]]
    BY <1>0, <1>3, <2>1, RetireShape DEF Retire
  <2>3. i # j
    BY <1>0, <2>2 DEF Intent
  <2>4. intents'[i] = intents[i]
    BY <1>0, <2>2, <2>3
  <2> QED
    BY <1>1, <2>2, <2>4 DEF Others, Reviews
<1>4. CASE SaveIntent(c)
  <2>0. op[c].id \in Intents /\ op[c].step = "save"
    BY <1>0, <1>4 DEF SaveIntent, Op
  <2>1. PICK next \in {"execution", "review"} : Goto(c, next)
    BY <1>4 DEF SaveIntent
  <2>2. Others(c) /\ SameWork(c) /\ op'[c].step = next
    BY <1>0, <2>1, GotoShape DEF Steps
  <2>3. CASE i = op[c].id
    <3>1. op[c].row.status = s
      BY <1>0, <1>4, <2>0, <2>3 DEF SaveIntent
    <3> QED
      BY <2>2, <2>3, <3>1 DEF SameWork, Reviews
  <2>4. CASE i # op[c].id
    <3>1. intents'[i] = intents[i]
      BY <1>0, <1>4, <2>0, <2>4 DEF SaveIntent
    <3> QED
      BY <1>1, <2>0, <2>2, <3>1 DEF Others, Reviews
  <2> QED
    BY <2>3, <2>4
<1>5. CASE SaveExecution(c) \/ SaveFills(c) \/ Notify(c)
  <2>1. Others(c) /\ SameWork(c) /\ op'[c].step \in {"fills", "notify", "review"}
    <3>1. SaveExecution(c) => Others(c) /\ SameWork(c) /\ op'[c].step \in {"fills", "notify"}
      BY <1>0, ExecutionShape
    <3>2. SaveFills(c) => Others(c) /\ SameWork(c) /\ op'[c].step = "notify"
      BY <1>0, GotoShape DEF SaveFills, Steps
    <3>3. Notify(c) => Others(c) /\ SameWork(c) /\ op'[c].step = "review"
      BY <1>0, GotoShape DEF Notify, Steps
    <3> QED
      BY <1>5, <3>1, <3>2, <3>3
  <2>2. intents' = intents
    BY <1>5 DEF SaveExecution, SaveFills, Notify
  <2> QED
    BY <1>1, <2>1, <2>2 DEF Others, SameWork, Reviews
<1>6. CASE RecordReview(c)
  <2>1. Others(c) /\ intents' = intents
    BY <1>0, <1>6, GotoShape DEF RecordReview, Steps
  <2>2. Reviews(c, i, s) => Reviewed(i, s)'
    <3>1. reviews \in [Intents -> Seq(IntentStatuses)]
      BY <1>0 DEF TypeInv, TypeOK
    <3>2. ASSUME Reviews(c, i, s)
          PROVE  /\ Len(reviews[i]) + 1 \in DOMAIN reviews'[i]
                 /\ reviews'[i][Len(reviews[i]) + 1] = s
      <4>1. reviews'[i] = Append(reviews[i], s) /\ reviews[i] \in Seq(IntentStatuses)
        BY <1>6, <3>1, <3>2 DEF RecordReview, Reviews
      <4> QED
        BY <4>1
    <3> QED
      BY <3>2 DEF Reviewed
  <2> QED
    BY <1>1, <2>1, <2>2 DEF Others, Reviews
<1> QED
  BY <1>2, <1>3, <1>4, <1>5, <1>6 DEF Proceed

\* A commit keeps the audit events after the reviews.
LEMMA AuditsStep ==
  ASSUME TypeInv, NEW c \in Clients, Request(c) \/ Proceed(c),
         NEW i \in Intents, AuditsFollow(i)
  PROVE  AuditsFollow(i)'
<1>0. /\ reviews \in [Intents -> Seq(IntentStatuses)] /\ audits \in [Intents -> Nat]
      /\ op[c] \in Op /\ op[c].id \in Intents
      /\ IsFiniteSet(AuditDue(i)) /\ Cardinality(AuditDue(i)) \in Nat
      /\ Len(reviews[i]) = audits[i] + Cardinality(AuditDue(i))
  BY FS_CardinalityType DEF TypeInv, TypeOK, AuditsFollow, Op
\* Nothing is written, and nobody starts or stops owing i an audit event.
<1>1. ASSUME reviews'[i] = reviews[i], audits'[i] = audits[i], AuditDue(i)' = AuditDue(i)
      PROVE  AuditsFollow(i)'
  BY <1>0, <1>1 DEF AuditsFollow
<1>2. ASSUME Others(c), op[c].step # "audit" \/ op[c].id # i, op'[c].step # "audit" \/ op'[c].id # i
      PROVE  AuditDue(i)' = AuditDue(i)
  BY <1>2 DEF AuditDue, Others
<1>3. CASE Request(c) \/ Retire(c) \/ Warn(c) \/ SaveIntent(c) \/ SaveExecution(c)
           \/ SaveFills(c) \/ Notify(c)
  <2>1. Others(c) /\ op[c].step # "audit" /\ op'[c].step # "audit"
    <3>1. Request(c) => Others(c) /\ op[c].step # "audit" /\ op'[c].step # "audit"
      BY RequestOwesNothing
    <3>2. Retire(c) => Others(c) /\ op[c].step # "audit" /\ op'[c].step # "audit"
      BY RetireShape DEF Retire
    <3>3. SaveExecution(c) => Others(c) /\ op[c].step # "audit" /\ op'[c].step # "audit"
      BY ExecutionShape DEF SaveExecution
    <3>4. Warn(c) => Others(c) /\ op[c].step # "audit" /\ op'[c].step # "audit"
      BY GotoShape DEF Warn, Steps
    <3>5. SaveIntent(c) => Others(c) /\ op[c].step # "audit" /\ op'[c].step # "audit"
      BY GotoShape DEF SaveIntent, Steps
    <3>6. SaveFills(c) \/ Notify(c) => Others(c) /\ op[c].step # "audit" /\ op'[c].step # "audit"
      BY SMTT(60), GotoShape DEF SaveFills, Notify, Steps
    <3> QED
      BY <1>3, <3>1, <3>2, <3>3, <3>4, <3>5, <3>6
  <2>2. reviews' = reviews /\ audits' = audits
    BY <1>3, RequestOwesNothing DEF Retire, Warn, SaveIntent, SaveExecution, SaveFills, Notify, orders
  <2> QED
    BY <1>1, <1>2, <2>1, <2>2
<1>4. CASE RecordReview(c)
  <2>1. /\ Others(c) /\ op[c].step = "review" /\ op'[c].step = "audit" /\ op'[c].id = op[c].id
        /\ audits' = audits
    BY <1>4, GotoShape DEF RecordReview, Steps, SameWork
  <2>2. CASE op[c].id = i
    <3>1. AuditDue(i)' = AuditDue(i) \cup {c} /\ c \notin AuditDue(i)
      BY <2>1, <2>2 DEF AuditDue, Others
    <3>2. Len(reviews'[i]) = Len(reviews[i]) + 1
      BY <1>0, <1>4, <2>2 DEF RecordReview
    <3> HIDE DEF AuditDue
    <3>3. /\ IsFiniteSet(AuditDue(i) \cup {c})
          /\ Cardinality(AuditDue(i) \cup {c}) = Cardinality(AuditDue(i)) + 1
      BY <1>0, <3>1, FS_AddElement
    <3> QED
      BY <1>0, <2>1, <3>1, <3>2, <3>3 DEF AuditsFollow
  <2>3. CASE op[c].id # i
    <3>1. reviews'[i] = reviews[i]
      BY <1>0, <1>4, <2>3 DEF RecordReview
    <3> QED
      BY <1>1, <1>2, <2>1, <2>3, <3>1
  <2> QED
    BY <2>2, <2>3
<1>5. CASE RecordAudit(c)
  <2>1. Others(c) /\ op[c].step = "audit" /\ op'[c].step = "idle" /\ reviews' = reviews
    BY <1>5, EndShape DEF RecordAudit
  <2>2. CASE op[c].id = i
    <3>1. AuditDue(i)' = AuditDue(i) \ {c} /\ c \in AuditDue(i)
      BY <2>1, <2>2 DEF AuditDue, Others
    <3>2. audits'[i] = audits[i] + 1
      BY <1>0, <1>5, <2>2 DEF RecordAudit
    <3> HIDE DEF AuditDue
    <3>3. /\ IsFiniteSet(AuditDue(i) \ {c})
          /\ Cardinality(AuditDue(i) \ {c}) = Cardinality(AuditDue(i)) - 1
      BY <1>0, <3>1, FS_RemoveElement
    <3>4. audits[i] \in Nat
      BY <1>0
    <3> QED
      BY <1>0, <2>1, <3>1, <3>2, <3>3, <3>4 DEF AuditsFollow
  <2>3. CASE op[c].id # i
    <3>1. audits'[i] = audits[i]
      BY <1>0, <1>5, <2>3 DEF RecordAudit
    <3> QED
      BY <1>1, <1>2, <2>1, <2>3, <3>1
  <2> QED
    BY <2>2, <2>3
<1> QED
  BY <1>3, <1>4, <1>5 DEF Proceed

\* Every step keeps the statuses explained.
LEMMA ExplainStep == ExplainInv /\ [Next]_vars => ExplainInv'
<1> SUFFICES ASSUME ExplainInv, [Next]_vars  PROVE ExplainInv'
  OBVIOUS
<1>0. TermsInv /\ TermsInv' /\ Steady /\ TypeInv /\ crashes \in Nat
  <2>1. TermsInv /\ TypeInv
    BY DEF ExplainInv, TermsInv
  <2>2. crashes \in Nat
    BY <2>1 DEF TypeInv, TypeOK
  <2> QED
    BY <2>1, <2>2, TermsStep, SteadyStep
<1> SUFFICES ASSUME crashes' = 0, NEW i \in Intents
             PROVE  /\ SupersededExplained(i)' /\ SimulatedExplained(i)'
                    /\ StatusReviewed(i)' /\ AuditsFollow(i)'
  BY <1>0 DEF ExplainInv, WorkInHand
\* A step that touches neither the orders nor the operations.
<1>1. ASSUME UNCHANGED <<orders, op, crashes>>
      PROVE  /\ SupersededExplained(i)' /\ SimulatedExplained(i)'
             /\ StatusReviewed(i)' /\ AuditsFollow(i)'
  <2>1. /\ SupersededExplained(i) /\ SimulatedExplained(i)
        /\ StatusReviewed(i) /\ AuditsFollow(i)
    BY <1>1 DEF ExplainInv, WorkInHand
  <2>2. AuditDue(i)' = AuditDue(i)
    BY <1>1 DEF AuditDue
  <2>3. AuditsFollow(i)'
    BY <1>1, <2>1, <2>2 DEF AuditsFollow, orders
  <2>4. SupersededExplained(i)'
    BY <1>1, <2>1 DEF SupersededExplained, Raised, Warns, Opens, orders
  <2>5. SimulatedExplained(i)'
    BY <1>1, <2>1 DEF SimulatedExplained, Raised, Ran, Simulates, Runs, orders
  <2>6. StatusReviewed(i)'
    BY <1>1, <2>1 DEF StatusReviewed, Reviewed, Reviews, orders
  <2> QED
    BY <2>3, <2>4, <2>5, <2>6
<1>2. ASSUME NEW c \in Clients, Request(c) \/ Proceed(c)
      PROVE  /\ SupersededExplained(i)' /\ SimulatedExplained(i)'
             /\ StatusReviewed(i)' /\ AuditsFollow(i)'
  <2>1. crashes = 0
    BY ZenonT(60), <1>0, <1>2, RequestOwesNothing DEF Proceed, Retire, Warn, SaveIntent, SaveExecution,
       SaveFills, Notify, RecordReview, RecordAudit
  <2>2. /\ SupersededExplained(i) /\ SimulatedExplained(i)
        /\ StatusReviewed(i) /\ AuditsFollow(i)
    BY <2>1 DEF ExplainInv, WorkInHand
  <2> QED
    BY SMTT(60), <1>0, <1>2, <2>2, SupersededStep, SimulatedStep, ReviewedStep, AuditsStep
<1>3. ASSUME NEW c \in Clients, Crash(c)  PROVE FALSE
  BY <1>0, <1>3 DEF Crash
<1>4. ASSUME NEW c \in Clients, NEW q \in Proposals, fetch(c, q)
      PROVE  UNCHANGED <<orders, op, crashes>>
  BY <1>4 DEF fetch
<1>5. CASE Moves \/ Tick \/ UNCHANGED vars
  BY <1>1, <1>5 DEF Moves, LifecycleStep, LateSave, Tick, vars
<1> QED
  BY <1>1, <1>2, <1>3, <1>4, <1>5 DEF Next, Request, Moves

\* There is nothing to explain at the start.
LEMMA ExplainInit == Init => ExplainInv
<1> SUFFICES ASSUME Init  PROVE ExplainInv
  OBVIOUS
<1>1. TermsInv
  BY TermsInit
<1>2. ASSUME NEW i \in Intents
      PROVE  /\ intents[i].status = Absent /\ AuditDue(i) = {}
             /\ Len(reviews[i]) = 0 /\ audits[i] = 0
  BY DEF Init, Blank, IdleOp, AuditDue
<1>3. ASSUME NEW i \in Intents  PROVE AuditsFollow(i)
  <2>1. IsFiniteSet(AuditDue(i)) /\ Cardinality(AuditDue(i)) = 0
    BY <1>2, FS_EmptySet
  <2> QED
    BY <1>2, <2>1 DEF AuditsFollow
<1>4. ASSUME NEW i \in Intents
      PROVE  SupersededExplained(i) /\ SimulatedExplained(i) /\ StatusReviewed(i)
  BY <1>2 DEF SupersededExplained, SimulatedExplained, StatusReviewed, Simulated
<1> QED
  BY <1>1, <1>3, <1>4 DEF ExplainInv, WorkInHand

\* Without crashes, and whenever all clients are done, every status an operator
\* finds is explained by what else is stored: a superseded intent by its alert and
\* the intent that replaced it, a simulated one by an execution of that stage and
\* its alert, any other by a review, and every review by an audit event.
THEOREM StatusesAreExplained == Spec => []StatusIsExplained
<1>1. ASSUME ExplainInv, Quiet  PROVE StatusIsExplained
  <2>1. /\ \A i \in Intents : /\ SupersededExplained(i) /\ SimulatedExplained(i)
                              /\ StatusReviewed(i) /\ AuditsFollow(i)
        /\ \A c \in Clients : op[c].step = "idle"
    BY <1>1 DEF ExplainInv, WorkInHand, Quiet
  <2>2. ASSUME NEW i \in Intents
        PROVE  audits[i] = Len(reviews[i])
    <3>1. AuditDue(i) = {}
      BY <2>1 DEF AuditDue
    <3>2. audits[i] \in Nat
      BY <1>1 DEF ExplainInv, TermsInv, TypeInv, TypeOK
    <3> QED
      BY <2>1, <3>1, <3>2, FS_EmptySet DEF AuditsFollow
  <2>3. ASSUME NEW i \in Intents, intents[i].status = Superseded
        PROVE  /\ [type |-> "active_intent_superseded", intent |-> i] \in alerts
               /\ intents[intents[i].by].status # Absent
    BY <2>1, <2>3 DEF SupersededExplained, Raised, Warns, Opens
  <2>4. ASSUME NEW i \in Intents, intents[i].status \in Simulated
        PROVE  /\ [type |-> "simulated_execution_recorded", intent |-> i] \in alerts
               /\ \E n \in DOMAIN executions :
                    <<executions[n].intent, executions[n].stage>> = <<i, intents[i].status>>
    BY <2>1, <2>4 DEF SimulatedExplained, Raised, Simulates, Runs, Ran
  <2>5. ASSUME NEW i \in Intents, intents[i].status \notin {Absent, Superseded}
        PROVE  \E k \in DOMAIN reviews[i] : reviews[i][k] = intents[i].status
    BY <2>1, <2>5 DEF StatusReviewed, Reviewed, Reviews
  <2> QED
    BY <2>2, <2>3, <2>4, <2>5 DEF StatusIsExplained
<1>2. ExplainInv => StatusIsExplained
  BY <1>1 DEF StatusIsExplained
<1> QED
  BY <1>2, ExplainInit, ExplainStep, PTL DEF Spec
===========================================================================
