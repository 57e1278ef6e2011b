------------------------- MODULE OrderContractProofs -------------------------
(***************************************************************************)
(* With one client at a time the execution pipeline implements             *)
(* OrderContract, whatever its crashes leave behind: at most one active    *)
(* intent per proposal, no way back from a terminal status, at most one    *)
(* execution per intent.  Two clients break it.                            *)
(***************************************************************************)
EXTENDS ExecutionPipelineProofs

USE DEF Absent, Created, Prepared, Superseded, SubmissionRejected, SubmissionDisabled,
        SimulatedRejected, SimulatedCancelled, SimulatedExpired, SimulatedFilled

AtMostOneClient == \A c, d \in Clients : c = d

(***************************************************************************)
(* The invariant: what the one client read is still so when it commits.    *)
(***************************************************************************)
WorkIsCurrent ==
  \A c \in Clients :
    /\ (op[c].action = "create" /\ op[c].step \in {"retire", "warn", "save"}) =>
         /\ ActiveFor(op[c].row.proposal) = op[c].retiring
         /\ op[c].step = "save" => op[c].retiring = {}
         /\ op[c].row.status = Created
    /\ (op[c].action # "create" /\ op[c].step = "save") => intents[op[c].id].status \in Active
    /\ op[c].step = "execution" =>
         /\ intents[op[c].id].status \in Terminal
         /\ \A n \in DOMAIN executions : executions[n].intent # op[c].id

ExecutedAreTerminal ==
  \A n \in DOMAIN executions : intents[executions[n].intent].status \in Terminal

AloneInv == TermsInv /\ WorkIsCurrent /\ ExecutedAreTerminal

\* What the client's own step has to establish, stated of the step alone.
LEMMA CurrentStep ==
  ASSUME AtMostOneClient, AloneInv, NEW c \in Clients, Request(c) \/ Proceed(c) \/ Crash(c)
  PROVE  WorkIsCurrent'
<1>0. /\ Clients = {c} /\ TypeInv /\ op[c] \in Op /\ intents \in [Intents -> Intent]
      /\ executions \in Seq(Execution)
      /\ Busy(c) => CopyFits(c) /\ ResultFits(c)
  BY DEF AtMostOneClient, AloneInv, TermsInv, CopiesFit, TypeInv, TypeOK
<1> SUFFICES /\ (op'[c].action = "create" /\ op'[c].step \in {"retire", "warn", "save"}) =>
                  /\ \A q \in Proposals :
                       q = op'[c].row.proposal => ActiveFor(q)' = op'[c].retiring
                  /\ op'[c].step = "save" => op'[c].retiring = {}
                  /\ op'[c].row.status = Created
             /\ (op'[c].action # "create" /\ op'[c].step = "save")
                  => intents'[op'[c].id].status \in Active
             /\ op'[c].step = "execution" =>
                  /\ intents'[op'[c].id].status \in Terminal
                  /\ \A n \in DOMAIN executions' : executions'[n].intent # op'[c].id
  <2>1. TermsInv /\ [Next]_vars => op'[c].row.proposal \in Proposals
    BY TypeStep DEF TermsInv, TypeInv, Op, Intent
  <2>2. [Next]_vars
    BY DEF Next, Request
  <2> QED
    BY <1>0, <2>1, <2>2 DEF WorkIsCurrent, ActiveFor, AloneInv
<1>1. ASSUME intents' = intents
      PROVE  \A q \in Proposals : ActiveFor(q)' = ActiveFor(q)
  BY <1>1 DEF ActiveFor
<1>2. CASE Request(c)
  <2>1. PICK new \in Op : Begin(c, new) /\ (Creates(c, new) \/ Advances(new))
    BY <1>0, <1>2, RequestStarts
  <2>2. op'[c] = new /\ intents' = intents
    BY <1>0, <2>1, BeginShape DEF Begin, orders
  <2>3. CASE Creates(c, new)
    BY <1>1, <2>2, <2>3 DEF Creates
  <2>4. CASE Advances(new)
    BY <2>2, <2>4 DEF Advances
  <2> QED
    BY <2>1, <2>3, <2>4
<1>3. CASE Retire(c)
  <2>1. PICK i \in op[c].retiring : i = op'[c].old
    BY <1>0, <1>3, RetireShape
  <2>2. /\ SameWork(c) /\ op'[c].step = "warn" /\ op[c].step = "retire"
        /\ op'[c].retiring = op[c].retiring \ {i} /\ i \in Intents
        /\ intents' = [intents EXCEPT ![i] =
             [intents[i] EXCEPT !.status = Superseded, !.by = op[c].id]]
    BY <1>0, <1>3, <2>1, RetireShape DEF Retire, Op
  <2>3. PICK p \in Proposals : p = op[c].row.proposal
    BY <1>0 DEF Op, Intent
  <2>4. op[c].action = "create" /\ ActiveFor(p) = op[c].retiring /\ op[c].row.status = Created
    BY <1>0, <2>2, <2>3 DEF Busy, CopyFits, OldRow, NewRow, AloneInv, WorkIsCurrent
  <2>5. ActiveFor(p)' = ActiveFor(p) \ {i}
    <3>1. intents'[i].status = Superseded /\ \A j \in Intents \ {i} : intents'[j] = intents[j]
      BY <1>0, <2>2 DEF Intent
    <3> QED
      BY <3>1 DEF ActiveFor, Active
  <2> QED
    BY <2>2, <2>3, <2>4, <2>5 DEF SameWork
<1>4. CASE Warn(c)
  <2>1. PICK s \in {"save", "retire"} :
          Goto(c, s) /\ (s = "save" => op[c].retiring = {}) /\ op[c].step = "warn"
    BY <1>4 DEF Warn
  <2>2. SameWork(c) /\ op'[c].step = s /\ op'[c].retiring = op[c].retiring /\ intents' = intents
    BY <1>0, <1>4, <2>1, GotoShape DEF Steps, Warn
  <2>3. /\ op[c].action = "create" /\ ActiveFor(op[c].row.proposal) = op[c].retiring
        /\ op[c].row.status = Created
    BY <1>0, <2>1 DEF Busy, CopyFits, OldRow, NewRow, AloneInv, WorkIsCurrent
  <2>4. PICK p \in Proposals : p = op[c].row.proposal
    BY <1>0 DEF Op, Intent
  <2> QED
    BY <1>1, <2>1, <2>2, <2>3, <2>4 DEF SameWork
<1>5. CASE SaveIntent(c)
  <2>1. PICK s \in {"execution", "review"} :
          Goto(c, s) /\ (s = "execution" => op[c].action = "simulate") /\ op[c].step = "save"
    BY <1>5 DEF SaveIntent
  <2>2. /\ SameWork(c) /\ op'[c].step = s /\ op[c].id \in Intents /\ executions' = executions
        /\ intents'[op[c].id] = op[c].row
    BY <1>0, <1>5, <2>1, GotoShape DEF Steps, SaveIntent, Op
  <2>3. CASE s = "execution"
    <3>1. op[c].row.status = op[c].result.stage /\ op[c].result.stage \in Simulated
      BY <1>0, <2>1, <2>3 DEF Busy, ResultFits, Op, Result
    <3>2. intents[op[c].id].status \in Active
      BY <1>0, <2>1, <2>3 DEF AloneInv, WorkIsCurrent
    <3>3. \A n \in DOMAIN executions : executions[n].intent # op[c].id
      BY <3>2 DEF AloneInv, ExecutedAreTerminal, Active, Terminal, Simulated
    <3> QED
      BY <2>2, <2>3, <3>1, <3>3 DEF SameWork, Terminal
  <2> QED
    BY <2>1, <2>2, <2>3
<1>6. CASE SaveExecution(c)
  <2>1. op'[c].step \in {"notify", "fills"}
    BY <1>0, <1>6, ExecutionShape
  <2> QED
    BY <2>1
<1>7. CASE SaveFills(c) \/ Notify(c) \/ RecordReview(c)
  <2>1. op'[c].step \in {"notify", "review", "audit"}
    BY <1>0, <1>7, GotoShape DEF Steps, SaveFills, Notify, RecordReview
  <2> QED
    BY <2>1
<1>8. CASE RecordAudit(c) \/ Crash(c)
  BY <1>0, <1>8, EndShape
<1> QED
  BY <1>2, <1>3, <1>4, <1>5, <1>6, <1>7, <1>8 DEF Proceed

\* A commit leaves every execution with an intent that is terminal, or is about to be.
LEMMA ExecutedStep ==
  ASSUME AloneInv, Steady, NEW c \in Clients, Proceed(c)
  PROVE  ExecutedAreTerminal'
<1>0. /\ TypeInv /\ op[c] \in Op /\ intents \in [Intents -> Intent]
      /\ executions \in Seq(Execution) /\ Busy(c) /\ CopyFits(c) /\ ResultFits(c)
  <2>1. Busy(c)
    BY ZenonT(60) DEF Proceed, Retire, Warn, SaveIntent, SaveExecution, SaveFills, Notify, RecordReview,
           RecordAudit, Busy
  <2> QED
    BY SMTT(60), <2>1 DEF AloneInv, TermsInv, CopiesFit, TypeInv, TypeOK
<1>1. \A n \in DOMAIN executions : /\ intents[executions[n].intent].status \in Terminal
                                   /\ executions[n].intent \in Intents
  <2>1. \A n \in DOMAIN executions : executions[n] \in Execution
    BY <1>0
  <2> QED
    BY <2>1 DEF AloneInv, ExecutedAreTerminal, Execution
<1>2. CASE Retire(c)
  <2>1. PICK i \in Intents : intents' = [intents EXCEPT ![i] =
          [intents[i] EXCEPT !.status = Superseded, !.by = op[c].id]]
    BY <1>0, <1>2 DEF Retire, Op
  <2>2. \A j \in Intents : intents'[j] = intents[j] \/ intents'[j].status = Superseded
    BY <1>0, <2>1 DEF Intent
  <2>3. executions' = executions
    BY <1>2 DEF Retire
  <2> QED
    BY <1>1, <2>2, <2>3 DEF ExecutedAreTerminal, Terminal
<1>3. CASE SaveIntent(c)
  <2>1. intents[op[c].id].status \notin Terminal /\ op[c].id \in Intents
    BY <1>0, <1>3 DEF SaveIntent, CopyFits, NewRow, OldRow, AloneInv, WorkIsCurrent, Op,
       Active, Terminal, Simulated
  <2>2. \A n \in DOMAIN executions : intents'[executions[n].intent] = intents[executions[n].intent]
    BY <1>0, <1>1, <1>3, <2>1 DEF SaveIntent
  <2> QED
    BY SMTT(60), <1>1, <1>3, <2>2 DEF ExecutedAreTerminal, SaveIntent
<1>4. CASE SaveExecution(c)
  <2>1. intents[op[c].id].status \in Terminal
    BY <1>4 DEF SaveExecution, AloneInv, WorkIsCurrent
  <2>2. \A n \in DOMAIN executions' :
          \/ n \in DOMAIN executions /\ executions'[n] = executions[n]
          \/ executions'[n].intent = op[c].id
    BY <1>0, <1>4 DEF SaveExecution
  <2> QED
    BY <1>1, <1>4, <2>1, <2>2 DEF ExecutedAreTerminal, SaveExecution
<1>5. CASE Warn(c) \/ SaveFills(c) \/ Notify(c) \/ RecordReview(c) \/ RecordAudit(c)
  BY <1>1, <1>5 DEF Warn, SaveFills, Notify, RecordReview, RecordAudit, ExecutedAreTerminal
<1> QED
  BY <1>2, <1>3, <1>4, <1>5 DEF Proceed

\* Every step keeps what one client alone relies on.
LEMMA AloneStep ==
  ASSUME AtMostOneClient
  PROVE  AloneInv /\ [Next]_vars => AloneInv'
<1> SUFFICES ASSUME AloneInv, [Next]_vars  PROVE AloneInv'
  OBVIOUS
<1>0. TermsInv' /\ Steady /\ TypeInv
  BY TermsStep, SteadyStep DEF AloneInv, TermsInv
<1>1. ASSUME UNCHANGED <<op, intents, executions>>
      PROVE  WorkIsCurrent' /\ ExecutedAreTerminal'
  <2>1. \A c \in Clients : ActiveFor(op[c].row.proposal)' = ActiveFor(op[c].row.proposal)
    BY <1>1 DEF ActiveFor
  <2> QED
    BY <1>1, <2>1 DEF AloneInv, WorkIsCurrent, ExecutedAreTerminal
<1>2. ASSUME NEW c \in Clients, Request(c) \/ Proceed(c) \/ Crash(c)
      PROVE  WorkIsCurrent' /\ ExecutedAreTerminal'
  <2>1. ExecutedAreTerminal'
    <3>1. Request(c) \/ Crash(c) => UNCHANGED <<intents, executions>>
      BY <1>0, RequestOwesNothing DEF Crash, orders
    <3> QED
      BY <1>0, <1>2, <3>1, ExecutedStep DEF AloneInv, ExecutedAreTerminal
  <2> QED
    BY <1>2, <2>1, CurrentStep
<1>3. ASSUME NEW c \in Clients, NEW q \in Proposals, fetch(c, q)
      PROVE  UNCHANGED <<op, intents, executions>>
  BY <1>3 DEF fetch, orders
<1>4. CASE Moves \/ Tick \/ UNCHANGED vars
  BY <1>0, <1>1, <1>4 DEF Moves, LifecycleStep, LateSave, Tick, vars, orders, AloneInv
<1> QED
  BY <1>0, <1>1, <1>2, <1>3, <1>4 DEF Next, Request, Moves, AloneInv

\* It holds at the start.
LEMMA AloneInit == Init => AloneInv
BY TermsInit DEF Init, AloneInv, WorkIsCurrent, ExecutedAreTerminal, IdleOp

(***************************************************************************)
(* Implementation                                                          *)
(***************************************************************************)
\* One row changes: the contract sees its stage and its proposal.
LEMMA RowChange ==
  ASSUME TypeInv, NEW i \in Intents, NEW row \in Intent, intents' = [intents EXCEPT ![i] = row],
         executions' = executions, row.status # Absent,
         NEW s, s = IF row.status \in Active THEN "active" ELSE "terminal"
  PROVE  /\ [j \in Intents |-> Stage(j)]' = [[j \in Intents |-> Stage(j)] EXCEPT ![i] = s]
         /\ [j \in Intents |-> intents[j].proposal]' =
              [[j \in Intents |-> intents[j].proposal] EXCEPT ![i] = row.proposal]
         /\ UNCHANGED [j \in Intents |-> Cardinality({n \in DOMAIN executions : executions[n].intent = j})]
<1>1. intents \in [Intents -> Intent]
  BY DEF TypeInv, TypeOK
<1>2. intents'[i] = row /\ \A j \in Intents \ {i} : intents'[j] = intents[j]
  BY <1>1
<1>3. Stage(i)' = s /\ \A j \in Intents \ {i} : Stage(j)' = Stage(j)
  BY <1>2 DEF Stage
<1>4. [j \in Intents |-> Stage(j)]' = [[j \in Intents |-> Stage(j)] EXCEPT ![i] = s]
  BY <1>3
<1>5. [j \in Intents |-> intents[j].proposal]' =
        [[j \in Intents |-> intents[j].proposal] EXCEPT ![i] = row.proposal]
  <2>1. \A j \in Intents :
          intents'[j].proposal = IF j = i THEN row.proposal ELSE intents[j].proposal
    BY <1>2
  <2> QED
    BY <2>1
<1> QED
  BY <1>4, <1>5

\* The commit of an intent is a step of the contract.
LEMMA SaveImplements ==
  ASSUME AloneInv, NEW c \in Clients, SaveIntent(c)
  PROVE  [Orders!Next]_<<[i \in Intents |-> Stage(i)], [i \in Intents |-> intents[i].proposal],
           [i \in Intents |-> Cardinality({n \in DOMAIN executions : executions[n].intent = i})]>>
<1>0. /\ TypeInv /\ intents \in [Intents -> Intent] /\ op[c] \in Op /\ op[c].step = "save"
      /\ CopyFits(c) /\ ResultFits(c)
  BY DEF AloneInv, TermsInv, CopiesFit, TypeInv, TypeOK, SaveIntent, Busy
<1>1. PICK i \in Intents, row \in Intent : i = op[c].id /\ row = op[c].row
  BY <1>0 DEF Op
<1>2. /\ intents' = [intents EXCEPT ![i] = row] /\ executions' = executions
      /\ row.status \notin {Absent, Superseded}
  BY <1>0, <1>1 DEF SaveIntent, CopyFits
<1> DEFINE stage == [j \in Intents |-> Stage(j)]
           owner == [j \in Intents |-> intents[j].proposal]
           runs  == [j \in Intents |-> Cardinality({n \in DOMAIN executions : executions[n].intent = j})]
           s     == IF row.status \in Active THEN "active" ELSE "terminal"
<1>3. stage' = [stage EXCEPT ![i] = s] /\ owner' = [owner EXCEPT ![i] = row.proposal] /\ runs' = runs
  BY ZenonT(60), <1>0, <1>2, RowChange
<1>4. CASE NewRow(c)
  <2>1. PICK q \in Proposals : q = row.proposal
    BY DEF Intent
  <2>2. stage[i] = "none"
    BY <1>1, <1>4 DEF NewRow, Stage
  <2>3. \A j \in Intents : stage[j] = "active" => owner[j] # q
    <3>1. ActiveFor(q) = {}
      BY <1>0, <1>1, <1>4, <2>1 DEF NewRow, AloneInv, WorkIsCurrent
    <3> QED
      BY <3>1 DEF ActiveFor, Stage
  <2>4. s = "active"
    BY <1>0, <1>1, <1>4 DEF NewRow, AloneInv, WorkIsCurrent, Active
  <2> HIDE DEF stage, owner, runs, s
  <2>5. Orders!Open(i, q)
    BY <1>3, <2>1, <2>2, <2>3, <2>4 DEF Orders!Open, stage, owner, runs
  <2> QED
    BY <2>5 DEF Orders!Next
<1>5. CASE OldRow(c)
  <2>1. op[c].action # "create" /\ intents[i].status \in Active /\ row.proposal = intents[i].proposal
    BY <1>0, <1>1, <1>5 DEF OldRow, AloneInv, WorkIsCurrent
  <2>2. stage[i] = "active" /\ owner' = owner
    BY <1>3, <2>1 DEF Stage, Active
  <2>3. CASE s = "active"
    BY <1>3, <2>2, <2>3
  <2>4. CASE s = "terminal"
    <3>1. Orders!Close(i)
      BY <1>3, <2>2, <2>4 DEF Orders!Close
    <3> QED
      BY <3>1 DEF Orders!Next
  <2> QED
    BY <2>3, <2>4
<1> QED
  BY <1>0, <1>4, <1>5 DEF CopyFits

\* The commit that supersedes an intent is a step of the contract.
LEMMA RetireImplements ==
  ASSUME AloneInv, NEW c \in Clients, Retire(c)
  PROVE  Orders!Next
<1>0. /\ TypeInv /\ intents \in [Intents -> Intent] /\ op[c] \in Op /\ op[c].step = "retire"
      /\ CopyFits(c)
  BY DEF AloneInv, TermsInv, CopiesFit, TypeInv, TypeOK, Retire, Busy
<1>1. PICK i \in op[c].retiring : intents' = [intents EXCEPT ![i] =
        [intents[i] EXCEPT !.status = Superseded, !.by = op[c].id]]
  BY DEF Retire
<1>2. i \in Intents /\ executions' = executions /\ intents[i].status \in Active
  BY <1>0, <1>1 DEF Retire, Op, CopyFits, NewRow, OldRow, AloneInv, WorkIsCurrent, ActiveFor
<1> DEFINE row   == [intents[i] EXCEPT !.status = Superseded, !.by = op[c].id]
           stage == [j \in Intents |-> Stage(j)]
           owner == [j \in Intents |-> intents[j].proposal]
           runs  == [j \in Intents |-> Cardinality({n \in DOMAIN executions : executions[n].intent = j})]
<1>3. row \in Intent /\ row.status = Superseded /\ row.proposal = intents[i].proposal
  <2>1. intents[i] \in Intent /\ Superseded \in IntentStatuses /\ op[c].id \in Intents
    BY <1>0, <1>2 DEF Op, IntentStatuses, Terminal
  <2> QED
    BY <2>1 DEF Intent
<1>4. intents' = [intents EXCEPT ![i] = row]
  BY <1>1
<1> HIDE DEF row
<1>5. /\ stage' = [stage EXCEPT ![i] = "terminal"] /\ owner' = [owner EXCEPT ![i] = row.proposal]
      /\ runs' = runs
  BY ZenonT(60), <1>0, <1>2, <1>3, <1>4, RowChange DEF Active
<1>6. owner' = owner /\ stage[i] = "active"
  BY ZenonT(60), <1>2, <1>3, <1>5 DEF Stage, Active
<1>7. Orders!Close(i)
  BY <1>5, <1>6 DEF Orders!Close
<1> QED
  BY <1>2, <1>7 DEF Orders!Next

\* The commit of an execution is a step of the contract.
LEMMA ExecutionImplements ==
  ASSUME AloneInv, NEW c \in Clients, SaveExecution(c)
  PROVE  Orders!Next
<1>0. /\ executions \in Seq(Execution) /\ intents' = intents /\ op[c] \in Op
      /\ intents[op[c].id].status \in Terminal
      /\ \A n \in DOMAIN executions : executions[n].intent # op[c].id
  BY DEF AloneInv, TermsInv, TypeInv, TypeOK, SaveExecution, WorkIsCurrent
<1>1. PICK i \in Intents : i = op[c].id
  BY <1>0 DEF Op
<1> DEFINE RunsOf(j) == {n \in DOMAIN executions : executions[n].intent = j}
           stage == [j \in Intents |-> Stage(j)]
           owner == [j \in Intents |-> intents[j].proposal]
           runs  == [j \in Intents |-> Cardinality(RunsOf(j))]
<1>2. /\ DOMAIN executions = 1 .. Len(executions) /\ Len(executions) \in Nat
      /\ DOMAIN executions' = 1 .. Len(executions) + 1
      /\ \A n \in DOMAIN executions : executions'[n] = executions[n]
      /\ executions'[Len(executions) + 1].intent = i
  BY <1>0, <1>1 DEF SaveExecution
<1>3. RunsOf(i) = {} /\ RunsOf(i)' = {Len(executions) + 1}
  BY <1>0, <1>1, <1>2
<1>4. \A j \in Intents \ {i} : RunsOf(j)' = RunsOf(j)
  BY <1>2
<1> HIDE DEF RunsOf
<1>5. Cardinality(RunsOf(i)) = 0 /\ Cardinality(RunsOf(i)') = 1
  BY <1>3, FS_EmptySet, FS_Singleton
<1>6. runs[i] = 0 /\ runs' = [runs EXCEPT ![i] = 1]
  <2>1. \A j \in Intents : Cardinality(RunsOf(j)') = IF j = i THEN 1 ELSE Cardinality(RunsOf(j))
    BY <1>4, <1>5
  <2> QED
    BY <1>5, <2>1
<1>7. stage' = stage /\ owner' = owner
  BY <1>0 DEF Stage
<1>8. stage[i] = "terminal"
  BY <1>0, <1>1 DEF Stage, Active, Terminal, Simulated
<1>9. Orders!Execute(i)
  BY <1>6, <1>7, <1>8 DEF Orders!Execute, RunsOf
<1> QED
  BY <1>9 DEF Orders!Next

\* Every step is one of the contract's, or none of its variables changes.
LEMMA OrderStep ==
  ASSUME AloneInv, [Next]_vars
  PROVE  [Orders!Next]_<<[i \in Intents |-> Stage(i)], [i \in Intents |-> intents[i].proposal],
           [i \in Intents |-> Cardinality({n \in DOMAIN executions : executions[n].intent = i})]>>
<1>1. ASSUME UNCHANGED <<intents, executions>>
      PROVE  UNCHANGED <<[i \in Intents |-> Stage(i)], [i \in Intents |-> intents[i].proposal],
               [i \in Intents |-> Cardinality({n \in DOMAIN executions : executions[n].intent = i})]>>
  BY <1>1 DEF Stage
<1>2. ASSUME NEW c \in Clients, Request(c)
      PROVE  UNCHANGED <<intents, executions>>
  BY <1>2, RequestOwesNothing DEF orders, AloneInv, TermsInv
<1>3. ASSUME NEW c \in Clients, Warn(c) \/ SaveFills(c) \/ Notify(c) \/ RecordReview(c)
                                \/ RecordAudit(c) \/ Crash(c)
      PROVE  UNCHANGED <<intents, executions>>
  BY <1>3 DEF Warn, SaveFills, Notify, RecordReview, RecordAudit, Crash, orders
<1>4. ASSUME NEW c \in Clients, NEW q \in Proposals, fetch(c, q)
      PROVE  UNCHANGED <<intents, executions>>
  BY <1>4 DEF fetch, orders
<1>5. Moves \/ Tick \/ UNCHANGED vars => UNCHANGED <<intents, executions>>
  BY DEF Moves, LifecycleStep, LateSave, Tick, vars, orders
<1> QED
  BY <1>1, <1>2, <1>3, <1>4, <1>5, SaveImplements, RetireImplements, ExecutionImplements
     DEF Next, Proceed, Request, Moves

\* With one client at a time, and a crash anywhere in the superseding loop or in a
\* simulation, every commit is a step of the contract: at most one active intent
\* per proposal, terminal statuses are final, and an intent is executed once.
THEOREM PipelineImplementsContract ==
  ASSUME AtMostOneClient  PROVE Spec => ImplementsOrderContract
<1>1. Init => Orders!Init
  <2> SUFFICES ASSUME Init  PROVE Orders!Init
    OBVIOUS
  <2>1. NoProposal.id \in Proposals
    BY BlankType DEF Proposal
  <2>2. \A i \in Intents : Stage(i) = "none" /\ intents[i].proposal = NoProposal.id
    BY DEF Init, Blank, Stage
  <2>3. \A i \in Intents : {n \in DOMAIN executions : executions[n].intent = i} = {}
    BY DEF Init
  <2>4. [i \in Intents |-> Cardinality({n \in DOMAIN executions : executions[n].intent = i})]
          = [i \in Intents |-> 0]
    BY <2>3, FS_EmptySet
  <2> QED
    BY <2>1, <2>2, <2>4 DEF Orders!Init
<1> QED
  BY <1>1, AloneInit, AloneStep, OrderStep, PTL DEF Spec, ImplementsOrderContract, Orders!Spec
=============================================================================
