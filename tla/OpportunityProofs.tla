--------------------------- MODULE OpportunityProofs ---------------------------
(***************************************************************************)
(* Theorems about what the operator is shown: the alerts, the drafts, the  *)
(* settings they are made under and the execution previews.  Each part has *)
(* a specification of its own.                                             *)
(***************************************************************************)
EXTENDS OpportunityAlerts, OpportunityDrafts, PolicyDesk, ExecutionPreviews, Signals, TLAPS

(***************************************************************************)
(* Alerts.  A row that is spent is no reason against another one of its    *)
(* kind: it is of a proposal or an intent, and it was closed or a          *)
(* transition was saved over another one.                                  *)
(***************************************************************************)
AlertStates == {"open", "acknowledged"} \cup Closed

IsRow(row) ==
  row \in [type : {row.type}, entity : {row.entity}, state : AlertStates, looked : Nat,
           overwrote : BOOLEAN]

IsAlertOp(o) ==
  o \in [at : {o.at}, wants : {o.wants}, looked : Nat, row : {o.row}, state : AlertStates,
         fresh : BOOLEAN]

Alike(a, b) == a.type = b.type /\ a.entity = b.entity

Spent(row) == row.type \notin Range(MarketAlertTypes) /\ (row.state \in Closed \/ row.overwrote)

\* What a process relies on when it is about to save.
OpFits(o, rows) ==
  /\ o.at = "save" =>
       /\ o.looked <= Len(rows)
       /\ \A i \in 1 .. o.looked : Alike(rows[i], Head(o.wants)) => Spent(rows[i])
  /\ o.at = "transition" =>
       /\ o.row \in DOMAIN rows
       /\ o.fresh => rows[o.row].state \notin Closed

LaterLooked(rows) ==
  \A i, j \in DOMAIN rows :
    i < j /\ Alike(rows[i], rows[j]) => rows[j].looked < i \/ Spent(rows[i])

AlertsInv ==
  /\ \E S : operator_alerts \in Seq(S)
  /\ \A i \in DOMAIN operator_alerts : IsRow(operator_alerts[i])
  /\ alertOp = [w \in AlertWriters |-> alertOp[w]]
  /\ \A w \in AlertWriters : IsAlertOp(alertOp[w]) /\ OpFits(alertOp[w], operator_alerts)
  /\ LaterLooked(operator_alerts)

\* A table with one row more.
LEMMA AppendedRows ==
  ASSUME NEW S, NEW rows \in Seq(S), NEW row, NEW new, new = Append(rows, row)
  PROVE  /\ \E T : new \in Seq(T)
         /\ Len(rows) \in Nat /\ DOMAIN rows = 1 .. Len(rows)
         /\ Len(new) = Len(rows) + 1 /\ DOMAIN new = 1 .. Len(rows) + 1
         /\ \A i \in DOMAIN rows : new[i] = rows[i]
         /\ new[Len(rows) + 1] = row
<1>1. rows \in Seq(S \cup {row}) /\ row \in S \cup {row}
  <2>1. Len(rows) \in Nat /\ rows \in [1 .. Len(rows) -> S]
    OBVIOUS
  <2>2. rows \in [1 .. Len(rows) -> S \cup {row}]
    BY <2>1
  <2> QED
    BY <2>1, <2>2
<1>2. Append(rows, row) \in Seq(S \cup {row})
  BY <1>1
<1> QED
  BY <1>1, <1>2

\* A table with one row replaced.
LEMMA ReplacedRow ==
  ASSUME NEW S, NEW rows \in Seq(S), NEW i \in DOMAIN rows, NEW row
  PROVE  /\ \E T : [rows EXCEPT ![i] = row] \in Seq(T)
         /\ DOMAIN [rows EXCEPT ![i] = row] = DOMAIN rows
         /\ Len([rows EXCEPT ![i] = row]) = Len(rows)
         /\ \A j \in DOMAIN rows : [rows EXCEPT ![i] = row][j] = IF j = i THEN row ELSE rows[j]
<1>1. Len(rows) \in Nat /\ rows \in [1 .. Len(rows) -> S] /\ DOMAIN rows = 1 .. Len(rows)
  OBVIOUS
<1>2. [rows EXCEPT ![i] = row] \in [1 .. Len(rows) -> S \cup {row}]
  BY <1>1
<1>3. [rows EXCEPT ![i] = row] \in Seq(S \cup {row})
  BY <1>1, <1>2
<1>4. Len([rows EXCEPT ![i] = row]) = Len(rows)
  BY <1>1, <1>3
<1> QED
  BY <1>1, <1>3, <1>4

\* One process goes on, the rows stay.
LEMMA AlertOpChanges ==
  ASSUME AlertsInv, NEW w \in AlertWriters, NEW o, alertOp' = [alertOp EXCEPT ![w] = o],
         IsAlertOp(o), OpFits(o, operator_alerts), operator_alerts' = operator_alerts
  PROVE  AlertsInv'
<1>1. /\ \A v \in AlertWriters : alertOp'[v] = IF v = w THEN o ELSE alertOp[v]
      /\ alertOp' = [v \in AlertWriters |-> alertOp'[v]]
  BY DEF AlertsInv
<1> QED
  BY <1>1 DEF AlertsInv

\* Every step keeps what the scans know and what the alerts' histories say.
LEMMA AlertsStep == AlertsInv /\ [AlertsNext]_alertVars => AlertsInv'
<1> SUFFICES ASSUME AlertsInv, [AlertsNext]_alertVars  PROVE AlertsInv'
  OBVIOUS
<1>0. PICK S : operator_alerts \in Seq(S)
  BY DEF AlertsInv
<1>1. /\ DOMAIN operator_alerts = 1 .. Len(operator_alerts) /\ Len(operator_alerts) \in Nat
      /\ IsAlertOp(Resting) /\ Resting.at = "idle"
  BY <1>0 DEF Resting, IsAlertOp, AlertStates
<1>2. ASSUME NEW w \in AlertWriters, NEW wants,
             alertOp' = [alertOp EXCEPT ![w] = [Resting EXCEPT !.at = "find", !.wants = wants]],
             operator_alerts' = operator_alerts
      PROVE  AlertsInv'
  <2> DEFINE o == [Resting EXCEPT !.at = "find", !.wants = wants]
  <2>1. IsAlertOp(o) /\ o.at = "find"
    BY DEF Resting, IsAlertOp, AlertStates
  <2>2. OpFits(o, operator_alerts)
    BY <2>1 DEF OpFits
  <2> HIDE DEF o
  <2> QED
    BY <1>2, <2>1, <2>2, AlertOpChanges DEF o
<1>3. ASSUME NEW w \in AlertWriters, scan_markets(w) \/ scan_proposals(w)
      PROVE  AlertsInv'
  BY <1>2, <1>3 DEF scan_markets, scan_proposals
<1>4. ASSUME NEW w \in AlertWriters, find_alert(w)
      PROVE  AlertsInv'
  <2> DEFINE old == alertOp[w]
             skip == [old EXCEPT !.wants = Tail(@)]
             go == [old EXCEPT !.at = "save", !.looked = Len(operator_alerts)]
  <2>1. IsAlertOp(old) /\ old.at = "find"
    BY <1>4 DEF find_alert, AlertsInv
  <2>2. IsAlertOp(skip) /\ skip.at = "find"
    BY <2>1 DEF IsAlertOp
  <2>3. /\ IsAlertOp(go) /\ go.at = "save" /\ go.looked = Len(operator_alerts)
        /\ go.wants = old.wants
    BY <1>1, <2>1 DEF IsAlertOp
  <2>4. OpFits(skip, operator_alerts)
    BY <2>2 DEF OpFits
  <2>5. ASSUME SameAlert(Head(old.wants)) = {}
        PROVE  OpFits(go, operator_alerts)
    BY <1>1, <2>3, <2>5 DEF OpFits, SameAlert, Alike, Spent
  <2>6. CASE SameAlert(Head(old.wants)) # {}
    <3>1. alertOp' = [alertOp EXCEPT ![w] = skip] /\ operator_alerts' = operator_alerts
      BY <1>4, <2>6 DEF find_alert
    <3> HIDE DEF old, skip
    <3> QED
      BY <2>2, <2>4, <3>1, AlertOpChanges
  <2>7. CASE SameAlert(Head(old.wants)) = {}
    <3>1. alertOp' = [alertOp EXCEPT ![w] = go] /\ operator_alerts' = operator_alerts
      BY <1>4, <2>7 DEF find_alert
    <3> HIDE DEF old, go
    <3> QED
      BY <2>3, <2>5, <2>7, <3>1, AlertOpChanges
  <2> QED
    BY <2>6, <2>7
<1>5. ASSUME NEW w \in AlertWriters, begin_transition(w)
      PROVE  AlertsInv'
  <2>1. PICK i \in DOMAIN operator_alerts :
          \E goal \in NextStates(operator_alerts[i].state) :
            alertOp' = [alertOp EXCEPT ![w] = [Resting EXCEPT
              !.at = "transition", !.row = i, !.state = goal]]
    BY <1>5 DEF begin_transition
  <2>9. PICK goal \in NextStates(operator_alerts[i].state) :
          alertOp' = [alertOp EXCEPT ![w] = [Resting EXCEPT
            !.at = "transition", !.row = i, !.state = goal]]
    BY <2>1
  <2> DEFINE o == [Resting EXCEPT !.at = "transition", !.row = i, !.state = goal]
  <2>2. operator_alerts[i].state \in AlertStates
    BY DEF AlertsInv, IsRow
  <2>3. goal \in AlertStates /\ operator_alerts[i].state \notin Closed
    BY <2>2 DEF NextStates, VALID_TRANSITIONS, AlertStates, Closed
  <2>4. IsAlertOp(o) /\ o.at = "transition" /\ o.row = i
    BY <2>3 DEF Resting, IsAlertOp
  <2>5. OpFits(o, operator_alerts)
    BY <2>3, <2>4 DEF OpFits
  <2> HIDE DEF o
  <2> QED
    BY <1>5, <2>9, <2>4, <2>5, AlertOpChanges DEF begin_transition, o
<1>6. ASSUME NEW w \in AlertWriters, save_alert(w)
      PROVE  AlertsInv'
  <2> DEFINE old == alertOp[w]
             wanted == Head(old.wants)
             row == [type |-> wanted.type, entity |-> wanted.entity, state |-> "open",
                     looked |-> old.looked, overwrote |-> FALSE]
             o == [old EXCEPT !.at = "find", !.wants = Tail(@), !.looked = 0]
             n == Len(operator_alerts)
  <2>1. IsAlertOp(old) /\ old.at = "save" /\ OpFits(old, operator_alerts)
    BY <1>6 DEF save_alert, AlertsInv
  <2>2. IsAlertOp(o) /\ o.at = "find"
    BY <2>1 DEF IsAlertOp
  <2>3. IsRow(row)
    BY <2>1 DEF IsRow, IsAlertOp, AlertStates
  <2>4. operator_alerts' = Append(operator_alerts, row) /\ alertOp' = [alertOp EXCEPT ![w] = o]
    BY <1>6 DEF save_alert, save_row
  <2>5. /\ row.looked = old.looked /\ \A r : Alike(r, row) <=> Alike(r, wanted)
    BY DEF Alike
  <2> HIDE DEF row, o, wanted, old
  <2>6. /\ \E T : operator_alerts' \in Seq(T)
        /\ Len(operator_alerts') = n + 1 /\ DOMAIN operator_alerts' = 1 .. n + 1
        /\ \A i \in DOMAIN operator_alerts : operator_alerts'[i] = operator_alerts[i]
        /\ operator_alerts'[n + 1] = row /\ n \in Nat
    BY <1>0, <2>4, AppendedRows
  <2>7. \A i \in DOMAIN operator_alerts' : IsRow(operator_alerts'[i])
    BY <1>1, <2>3, <2>6 DEF AlertsInv
  <2>8. /\ alertOp' = [v \in AlertWriters |-> alertOp'[v]]
        /\ \A v \in AlertWriters : alertOp'[v] = IF v = w THEN o ELSE alertOp[v]
    BY <2>4 DEF AlertsInv
  <2>9. \A v \in AlertWriters : IsAlertOp(alertOp'[v]) /\ OpFits(alertOp'[v], operator_alerts')
    <3> SUFFICES ASSUME NEW v \in AlertWriters, v # w
                 PROVE  OpFits(alertOp[v], operator_alerts')
      BY <2>2, <2>8 DEF AlertsInv, OpFits
    <3>1. OpFits(alertOp[v], operator_alerts) /\ IsAlertOp(alertOp[v])
      BY DEF AlertsInv
    <3> QED
      BY <1>1, <2>6, <3>1 DEF OpFits, IsAlertOp
  <2>10. LaterLooked(operator_alerts')
    <3> SUFFICES ASSUME NEW i \in DOMAIN operator_alerts', NEW j \in DOMAIN operator_alerts',
                        i < j, Alike(operator_alerts'[i], operator_alerts'[j])
                 PROVE  operator_alerts'[j].looked < i \/ Spent(operator_alerts'[i])
      BY DEF LaterLooked
    <3>1. CASE j \in DOMAIN operator_alerts
      <4>1. i \in DOMAIN operator_alerts
        BY <1>1, <2>6, <3>1
      <4> QED
        BY <2>6, <3>1, <4>1 DEF AlertsInv, LaterLooked
    <3>2. CASE j = n + 1
      <4>1. i \in 1 .. n /\ operator_alerts'[i] = operator_alerts[i]
        BY <1>1, <2>6, <3>2
      <4>2. Alike(operator_alerts[i], wanted) /\ operator_alerts'[j].looked = old.looked
        BY <2>5, <2>6, <3>2, <4>1
      <4>3. old.looked \in Nat /\ (i \in 1 .. old.looked => Spent(operator_alerts[i]))
        BY <2>1, <4>2 DEF OpFits, IsAlertOp, wanted
      <4> QED
        BY <4>1, <4>2, <4>3
    <3> QED
      BY <1>1, <2>6, <3>1, <3>2
  <2> QED
    BY <2>6, <2>7, <2>8, <2>9, <2>10 DEF AlertsInv
<1>7. ASSUME NEW w \in AlertWriters, save_transition(w)
      PROVE  AlertsInv'
  <2> DEFINE old == alertOp[w]
             k == old.row
             row == operator_alerts[k]
             new == [row EXCEPT !.state = old.state, !.overwrote = @ \/ ~old.fresh]
  <2>1. /\ IsAlertOp(old) /\ k \in DOMAIN operator_alerts /\ IsRow(row)
        /\ old.fresh => row.state \notin Closed
    BY <1>7 DEF save_transition, AlertsInv, OpFits
  <2>2. operator_alerts' = [operator_alerts EXCEPT ![k] = new]
    BY <1>7 DEF save_transition
  <2>3. /\ IsRow(new) /\ Alike(new, row) /\ \A r : (Alike(new, r) <=> Alike(row, r))
        /\ \A r : (Alike(r, new) <=> Alike(r, row))
        /\ new.looked = row.looked /\ (Spent(row) => Spent(new))
    BY <2>1 DEF IsRow, IsAlertOp, Alike, Spent
  <2>4. /\ alertOp' = [v \in AlertWriters |-> alertOp'[v]]
        /\ \A v \in AlertWriters : alertOp'[v] =
             IF v = w THEN Resting
             ELSE [alertOp[v] EXCEPT !.fresh = @ /\ alertOp[v].row # k]
    BY <1>7 DEF save_transition
  <2> HIDE DEF new, row, k, old
  <2>5. /\ \E T : operator_alerts' \in Seq(T)
        /\ DOMAIN operator_alerts' = DOMAIN operator_alerts
        /\ Len(operator_alerts') = Len(operator_alerts)
        /\ \A i \in DOMAIN operator_alerts :
             operator_alerts'[i] = IF i = k THEN new ELSE operator_alerts[i]
    BY <1>0, <2>1, <2>2, ReplacedRow
  <2>6. \A i \in DOMAIN operator_alerts :
          /\ IsRow(operator_alerts'[i]) /\ operator_alerts'[i].looked = operator_alerts[i].looked
          /\ Spent(operator_alerts[i]) => Spent(operator_alerts'[i])
          /\ \A r : /\ Alike(operator_alerts'[i], r) <=> Alike(operator_alerts[i], r)
                    /\ Alike(r, operator_alerts'[i]) <=> Alike(r, operator_alerts[i])
    BY <2>3, <2>5 DEF AlertsInv, row
  <2>7. LaterLooked(operator_alerts')
    BY <2>5, <2>6 DEF AlertsInv, LaterLooked
  <2>8. \A v \in AlertWriters : IsAlertOp(alertOp'[v]) /\ OpFits(alertOp'[v], operator_alerts')
    <3> SUFFICES ASSUME NEW v \in AlertWriters
                 PROVE  IsAlertOp(alertOp'[v]) /\ OpFits(alertOp'[v], operator_alerts')
      OBVIOUS
    <3>1. CASE v = w
      BY <1>1, <2>4, <3>1 DEF OpFits
    <3>2. CASE v # w
      <4> DEFINE o == alertOp[v]
                 p == [o EXCEPT !.fresh = @ /\ o.row # k]
      <4>1. IsAlertOp(o) /\ OpFits(o, operator_alerts) /\ alertOp'[v] = p
        BY <2>4, <3>2 DEF AlertsInv
      <4>2. /\ IsAlertOp(p) /\ p.at = o.at /\ p.wants = o.wants /\ p.looked = o.looked
            /\ p.row = o.row /\ (p.fresh => o.fresh /\ o.row # k)
        BY <4>1 DEF IsAlertOp
      <4> HIDE DEF o, p
      <4>3. p.looked \in Nat
        BY <4>2 DEF IsAlertOp
      <4>4. OpFits(p, operator_alerts')
        BY <1>1, <2>5, <2>6, <4>1, <4>2, <4>3 DEF OpFits
      <4> QED
        BY <4>1, <4>2, <4>4
    <3> QED
      BY <3>1, <3>2
  <2> QED
    BY <2>4, <2>5, <2>6, <2>7, <2>8 DEF AlertsInv
<1>8. ASSUME NEW w \in AlertWriters, end_alert_op(w)
      PROVE  AlertsInv'
  <2>1. OpFits(Resting, operator_alerts)
    BY <1>1 DEF OpFits
  <2> QED
    BY <1>1, <1>8, <2>1, AlertOpChanges DEF end_alert_op
<1>9. CASE UNCHANGED alertVars
  BY <1>9 DEF alertVars, AlertsInv
<1> QED
  BY <1>3, <1>4, <1>5, <1>6, <1>7, <1>8, <1>9 DEF AlertsNext

\* There are no alerts at the start.
LEMMA AlertsBegin == AlertsInit => AlertsInv
<1> SUFFICES ASSUME AlertsInit  PROVE AlertsInv
  OBVIOUS
<1>1. operator_alerts \in Seq({}) /\ DOMAIN operator_alerts = {}
  BY DEF AlertsInit
<1>2. IsAlertOp(Resting) /\ Resting.at = "idle"
  BY DEF Resting, IsAlertOp, AlertStates
<1> QED
  BY <1>1, <1>2 DEF AlertsInit, AlertsInv, OpFits, LaterLooked

\* Scans, operators and crashes interleave as they may: a second alert of a kind
\* is raised only by a scan that looked before the first one was saved, or after
\* a transition was saved over another one.
THEOREM AlertsAreRaisedOnce == AlertsSpec => []MarketAlertedOnce
<1>1. AlertsInv => MarketAlertedOnce
  <2> SUFFICES ASSUME AlertsInv, NEW i \in DOMAIN operator_alerts,
                      NEW j \in DOMAIN operator_alerts, i < j,
                      Alike(operator_alerts[i], operator_alerts[j]),
                      \/ operator_alerts[i].type \in Range(MarketAlertTypes)
                      \/ {operator_alerts[i].state, operator_alerts[j].state} \cap Closed = {}
               PROVE  operator_alerts[j].looked < i \/ operator_alerts[i].overwrote
    BY DEF MarketAlertedOnce, Alike
  <2> QED
    BY DEF AlertsInv, LaterLooked, Spent
<1> QED
  BY <1>1, AlertsBegin, AlertsStep, PTL DEF AlertsSpec

\* A dismissed or resolved alert keeps its state in every step, unless a copy
\* that was read before is saved over it.
THEOREM ClosedAlertsStayClosed == AlertsSpec => ClosedStaysClosed
<1>1. AlertsInv /\ [AlertsNext]_alertVars =>
        [\A i \in DOMAIN operator_alerts :
           operator_alerts[i].state \in Closed =>
             \/ operator_alerts'[i].state = operator_alerts[i].state
             \/ operator_alerts'[i].overwrote]_alertVars
  <2> SUFFICES ASSUME AlertsInv, AlertsNext, NEW i \in DOMAIN operator_alerts,
                      operator_alerts[i].state \in Closed
               PROVE  \/ operator_alerts'[i].state = operator_alerts[i].state
                      \/ operator_alerts'[i].overwrote
    OBVIOUS
  <2>1. PICK S : operator_alerts \in Seq(S)
    BY DEF AlertsInv
  <2>2. CASE operator_alerts' = operator_alerts
    BY <2>2
  <2>3. ASSUME NEW w \in AlertWriters, save_alert(w)
        PROVE  operator_alerts'[i] = operator_alerts[i]
    BY <2>1, <2>3, AppendedRows DEF save_alert, save_row
  <2>4. ASSUME NEW w \in AlertWriters, save_transition(w)
        PROVE  operator_alerts'[i] = operator_alerts[i] \/ operator_alerts'[i].overwrote
    <3> DEFINE k == alertOp[w].row
               new == [operator_alerts[k] EXCEPT !.state = alertOp[w].state,
                                                 !.overwrote = @ \/ ~alertOp[w].fresh]
    <3>1. /\ IsRow(operator_alerts[k]) /\ k \in DOMAIN operator_alerts
          /\ alertOp[w].fresh => operator_alerts[k].state \notin Closed
      BY <2>4 DEF save_transition, AlertsInv, OpFits
    <3>2. operator_alerts' = [operator_alerts EXCEPT ![k] = new]
      BY <2>4 DEF save_transition
    <3>3. ~alertOp[w].fresh => new.overwrote
      BY <3>1 DEF IsRow
    <3> HIDE DEF new, k
    <3>4. operator_alerts'[i] = IF i = k THEN new ELSE operator_alerts[i]
      BY <2>1, <3>1, <3>2, ReplacedRow
    <3> QED
      BY <3>1, <3>3, <3>4 DEF k
  <2> QED
    BY <2>2, <2>3, <2>4 DEF AlertsNext, scan_markets, scan_proposals, find_alert,
                            begin_transition, end_alert_op
<1> QED
  BY <1>1, AlertsBegin, AlertsStep, PTL DEF AlertsSpec, ClosedStaysClosed

(***************************************************************************)
(* Drafts.  A run that drafts knows the market of every active proposal    *)
(* that was there when it listed them, but those set active again since.   *)
(***************************************************************************)
ActiveDraft(row) == row.status \in Active

IsDraft(row) ==
  row \in [market : {row.market}, status : {row.status}, waited : BOOLEAN, listed : Nat,
           revived : Nat]

IsRun(run) ==
  run \in [at : {"idle", "scan", "draft"}, todo : {run.todo}, found : {run.found},
           next : {run.next}, seen : {run.seen}, listed : Nat]

RunFits(run, rows) ==
  run.at = "draft" =>
    /\ run.listed <= Len(rows)
    /\ \A i \in 1 .. run.listed :
         ActiveDraft(rows[i]) => rows[i].market \in run.seen \/ rows[i].revived >= run.listed

\* Whatever has become of the later draft: it may be set active again too.
LaterListed(rows) ==
  \A i, j \in DOMAIN rows :
    i < j /\ rows[i].market = rows[j].market /\ ActiveDraft(rows[i]) =>
      rows[j].listed < i \/ rows[i].revived >= rows[j].listed

DraftsInv ==
  /\ \E S : trade_proposals \in Seq(S)
  /\ \A i \in DOMAIN trade_proposals :
       IsDraft(trade_proposals[i]) /\ trade_proposals[i].listed <= Len(trade_proposals)
  /\ draftRun = [d \in Drafters |-> draftRun[d]]
  /\ \A d \in Drafters : IsRun(draftRun[d]) /\ RunFits(draftRun[d], trade_proposals)
  /\ LaterListed(trade_proposals)

\* One run goes on, the rows stay.
LEMMA RunChanges ==
  ASSUME DraftsInv, NEW d \in Drafters, NEW run, draftRun' = [draftRun EXCEPT ![d] = run],
         IsRun(run), RunFits(run, trade_proposals), trade_proposals' = trade_proposals
  PROVE  DraftsInv'
<1>1. /\ \A e \in Drafters : draftRun'[e] = IF e = d THEN run ELSE draftRun[e]
      /\ draftRun' = [e \in Drafters |-> draftRun'[e]]
  BY DEF DraftsInv
<1> QED
  BY <1>1 DEF DraftsInv

\* Every step keeps what the runs have listed and what the drafts remember.
LEMMA DraftsStep == DraftsInv /\ [DraftsNext]_draftVars => DraftsInv'
<1> SUFFICES ASSUME DraftsInv, [DraftsNext]_draftVars  PROVE DraftsInv'
  OBVIOUS
<1>0. PICK S : trade_proposals \in Seq(S)
  BY DEF DraftsInv
<1>1. /\ DOMAIN trade_proposals = 1 .. Len(trade_proposals) /\ Len(trade_proposals) \in Nat
      /\ IsRun(NoRun) /\ NoRun.at = "idle"
      /\ \A d \in Drafters : IsRun(draftRun[d]) /\ RunFits(draftRun[d], trade_proposals)
  BY <1>0 DEF NoRun, IsRun, DraftsInv
<1>2. CASE UNCHANGED <<trade_proposals, draftRun>>
  BY <1>2 DEF DraftsInv
<1>4. ASSUME NEW d \in Drafters, StartScan(d)
      PROVE  DraftsInv'
  <2> DEFINE markets == {m \in Markets : \E q \in QuotesOf(m) : Scanned(q.market)}
             run == [NoRun EXCEPT !.at = "scan", !.todo = markets]
  <2>1. draftRun' = [draftRun EXCEPT ![d] = run] /\ trade_proposals' = trade_proposals
    BY <1>4 DEF StartScan
  <2> HIDE DEF markets
  <2>2. IsRun(run) /\ run.at = "scan"
    BY DEF IsRun, NoRun
  <2>3. RunFits(run, trade_proposals)
    BY <2>2 DEF RunFits
  <2> HIDE DEF run
  <2> QED
    BY <2>1, <2>2, <2>3, RunChanges
<1>5. ASSUME NEW d \in Drafters, InspectMarket(d)
      PROVE  DraftsInv'
  <2>1. trade_proposals' = trade_proposals /\ draftRun[d].at = "scan"
    BY <1>5 DEF InspectMarket
  <2>2. \E todo, found :
          draftRun' = [draftRun EXCEPT ![d].todo = todo, ![d].found = found]
    <3>1. PICK m \in draftRun[d].todo :
            \/ \E found : draftRun' = [draftRun EXCEPT ![d].todo = draftRun[d].todo \ {m},
                 ![d].found = IF found.edge < DraftRules.entry_rules.min_edge_pct
                              THEN draftRun[d].found ELSE draftRun[d].found \cup {found}]
            \/ draftRun' = [draftRun EXCEPT ![d].todo = draftRun[d].todo \ {m}]
      <4> HIDE DEF DraftsInv
      <4> QED
        BY <1>5 DEF InspectMarket
    <3>2. CASE draftRun' = [draftRun EXCEPT ![d].todo = draftRun[d].todo \ {m}]
      <4>1. draftRun' = [draftRun EXCEPT ![d].todo = draftRun[d].todo \ {m},
                                         ![d].found = draftRun[d].found]
        BY <1>1, <3>2 DEF IsRun, DraftsInv
      <4> QED
        BY <4>1
    <3> QED
      BY <3>1, <3>2
  <2>3. PICK todo, found :
          draftRun' = [draftRun EXCEPT ![d].todo = todo, ![d].found = found]
    BY <2>2
  <2> DEFINE run == [draftRun[d] EXCEPT !.todo = todo, !.found = found]
  <2>4. IsRun(run) /\ run.at = "scan"
    BY <1>1, <2>1 DEF IsRun
  <2>5. RunFits(run, trade_proposals)
    BY <2>4 DEF RunFits
  <2>6. draftRun' = [draftRun EXCEPT ![d] = run]
    BY <2>3
  <2> HIDE DEF run
  <2> QED
    BY <2>1, <2>4, <2>5, <2>6, RunChanges
<1>6. ASSUME NEW d \in Drafters, ListActive(d)
      PROVE  DraftsInv'
  <2> DEFINE ranked == SetToSortSeq(draftRun[d].found, Better)
             best == SubSeq(ranked, 1, Least(DraftLimit, Len(ranked)))
             run == [NoRun EXCEPT !.at = "draft", !.next = best, !.seen = ActiveMarkets,
                                  !.listed = Len(trade_proposals)]
  <2>1. draftRun' = [draftRun EXCEPT ![d] = run] /\ trade_proposals' = trade_proposals
    BY <1>6 DEF ListActive
  <2> HIDE DEF best
  <2>2. /\ IsRun(run) /\ run.at = "draft" /\ run.seen = ActiveMarkets
        /\ run.listed = Len(trade_proposals)
    BY <1>1 DEF IsRun, NoRun
  <2>3. \A i \in DOMAIN trade_proposals :
          ActiveDraft(trade_proposals[i]) => trade_proposals[i].market \in ActiveMarkets
    BY DEF ActiveDraft, Active, ActiveMarkets, Range
  <2>4. RunFits(run, trade_proposals)
    BY <1>1, <2>2, <2>3 DEF RunFits
  <2> HIDE DEF run
  <2> QED
    BY <2>1, <2>2, <2>4, RunChanges
<1>7. ASSUME NEW d \in Drafters, DraftNext(d)
      PROVE  DraftsInv'
  <2> DEFINE old == draftRun[d]
             m == Head(old.next).market
             passed == [old EXCEPT !.next = Tail(@)]
             made == [old EXCEPT !.next = Tail(@), !.seen = @ \cup {m}]
  <2>1. /\ IsRun(old) /\ old.at = "draft" /\ RunFits(old, trade_proposals)
    BY <1>1, <1>7 DEF DraftNext
  <2>2. /\ IsRun(passed) /\ passed.at = "draft" /\ passed.seen = old.seen
        /\ passed.listed = old.listed
    BY <2>1 DEF IsRun
  <2>3. /\ IsRun(made) /\ made.at = "draft" /\ made.seen = old.seen \cup {m}
        /\ made.listed = old.listed
    BY <2>1 DEF IsRun
  <2>4. CASE m \in old.seen
    <3>1. draftRun' = [draftRun EXCEPT ![d] = passed] /\ trade_proposals' = trade_proposals
      BY <1>7, <2>4 DEF DraftNext
    <3>2. RunFits(passed, trade_proposals)
      BY <2>1, <2>2 DEF RunFits
    <3> HIDE DEF passed, old
    <3> QED
      BY <2>2, <3>1, <3>2, RunChanges
  <2>5. CASE m \notin old.seen
    <3>1. PICK draft : /\ trade_proposals' = Append(trade_proposals,
                            [market |-> m, status |-> draft.status,
                             waited |-> draft.status = Pending, listed |-> old.listed,
                             revived |-> 0])
                       /\ draftRun' = [[draftRun EXCEPT ![d].next = Tail(@)]
                                         EXCEPT ![d].seen = @ \cup {m}]
      BY <1>7, <2>5 DEF DraftNext
    <3> DEFINE row == [market |-> m, status |-> draft.status,
                       waited |-> draft.status = Pending, listed |-> old.listed, revived |-> 0]
               n == Len(trade_proposals)
    <3>2. draftRun' = [draftRun EXCEPT ![d] = made]
      BY <1>1, <3>1 DEF IsRun, DraftsInv
    <3>3. IsDraft(row) /\ row.market = m /\ row.listed = old.listed /\ row.listed \in Nat
      BY <2>1 DEF IsDraft, IsRun
    <3>4. trade_proposals' = Append(trade_proposals, row)
      BY <3>1
    <3> HIDE DEF row, made, passed, old, m
    <3>5. /\ \E T : trade_proposals' \in Seq(T)
          /\ Len(trade_proposals') = n + 1 /\ DOMAIN trade_proposals' = 1 .. n + 1
          /\ \A i \in DOMAIN trade_proposals : trade_proposals'[i] = trade_proposals[i]
          /\ trade_proposals'[n + 1] = row /\ n \in Nat
      BY <1>0, <3>4, AppendedRows
    <3>6. \A i \in DOMAIN trade_proposals' :
            IsDraft(trade_proposals'[i]) /\ trade_proposals'[i].listed <= Len(trade_proposals')
      <4>1. row.listed <= n
        BY <2>1, <3>3 DEF RunFits
      <4>2. \A i \in DOMAIN trade_proposals :
              IsDraft(trade_proposals[i]) /\ trade_proposals[i].listed <= n
                /\ trade_proposals[i].listed \in Nat
        BY DEF DraftsInv, IsDraft
      <4> QED
        BY <1>1, <3>3, <3>5, <4>1, <4>2
    <3>7. /\ draftRun' = [e \in Drafters |-> draftRun'[e]]
          /\ \A e \in Drafters : draftRun'[e] = IF e = d THEN made ELSE draftRun[e]
      BY <3>2 DEF DraftsInv
    <3>8. ASSUME NEW e \in Drafters
          PROVE  IsRun(draftRun'[e]) /\ RunFits(draftRun'[e], trade_proposals')
      <4>1. PICK run : /\ IsRun(run) /\ RunFits(run, trade_proposals)
                       /\ IsRun(draftRun'[e]) /\ draftRun'[e].at = run.at
                       /\ draftRun'[e].listed = run.listed /\ run.seen \subseteq draftRun'[e].seen
        <5>1. CASE e = d
          BY <2>1, <2>3, <3>7, <5>1
        <5>2. CASE e # d
          BY <1>1, <3>7, <5>2
        <5> QED
          BY <5>1, <5>2
      <4>2. run.listed \in Nat
        BY <4>1 DEF IsRun
      <4>3. ASSUME run.at = "draft"
            PROVE  /\ run.listed <= Len(trade_proposals')
                   /\ \A i \in 1 .. run.listed : i \in 1 .. n
                        /\ trade_proposals'[i] = trade_proposals[i]
        BY <1>1, <3>5, <4>1, <4>2, <4>3 DEF RunFits
      <4> QED
        BY <4>1, <4>3 DEF RunFits
    <3>9. LaterListed(trade_proposals')
      <4> SUFFICES ASSUME NEW i \in DOMAIN trade_proposals', NEW j \in DOMAIN trade_proposals',
                          i < j, trade_proposals'[i].market = trade_proposals'[j].market,
                          ActiveDraft(trade_proposals'[i])
                   PROVE  \/ trade_proposals'[j].listed < i
                          \/ trade_proposals'[i].revived >= trade_proposals'[j].listed
        BY DEF LaterListed
      <4>1. CASE j \in DOMAIN trade_proposals
        <5>1. i \in DOMAIN trade_proposals
          BY <1>1, <3>5, <4>1
        <5> QED
          BY <3>5, <4>1, <5>1 DEF DraftsInv, LaterListed
      <4>2. CASE j = n + 1
        <5>1. i \in 1 .. n /\ trade_proposals'[i] = trade_proposals[i]
          BY <1>1, <3>5, <4>2
        <5>2. trade_proposals[i].market = m /\ trade_proposals'[j].listed = old.listed
          BY <3>3, <3>5, <4>2, <5>1
        <5>3. i \notin 1 .. old.listed \/ trade_proposals[i].revived >= old.listed
          BY <2>1, <2>5, <5>1, <5>2 DEF RunFits
        <5> QED
          BY <3>3, <5>1, <5>2, <5>3
      <4> QED
        BY <1>1, <3>5, <4>1, <4>2
    <3> QED
      BY <3>5, <3>6, <3>7, <3>8, <3>9 DEF DraftsInv
  <2> QED
    BY <2>4, <2>5
<1>8. ASSUME NEW d \in Drafters, EndRun(d)
      PROVE  DraftsInv'
  <2>1. RunFits(NoRun, trade_proposals)
    BY <1>1 DEF RunFits
  <2> QED
    BY <1>1, <1>8, <2>1, RunChanges DEF EndRun
\* A save makes a proposal active that was not only as one set active again.
<1>9. ASSUME NEW k \in DOMAIN trade_proposals, SaveDraft(k)
      PROVE  DraftsInv'
  <2> DEFINE old == trade_proposals[k]
             n == Len(trade_proposals)
  <2>1. PICK goal :
          trade_proposals' = [trade_proposals EXCEPT ![k].status = goal, ![k].revived =
            IF goal \in Active /\ trade_proposals[k].status \notin Active THEN n ELSE @]
    BY <1>9 DEF SaveDraft
  <2> DEFINE revived == IF goal \in Active /\ old.status \notin Active THEN n ELSE old.revived
             new == [old EXCEPT !.status = goal, !.revived = revived]
  <2>2. IsDraft(old) /\ draftRun' = draftRun
    BY <1>9 DEF SaveDraft, DraftsInv
  <2>3. trade_proposals' = [trade_proposals EXCEPT ![k] = new]
    BY <2>1, <2>2 DEF IsDraft
  <2>4. /\ IsDraft(new) /\ new.market = old.market /\ new.listed = old.listed
        /\ ActiveDraft(new) => \/ ActiveDraft(old) /\ new.revived = old.revived
                               \/ new.revived = n
    BY <1>1, <2>2 DEF IsDraft, ActiveDraft
  <2> HIDE DEF new
  <2>5. /\ \E T : trade_proposals' \in Seq(T)
        /\ DOMAIN trade_proposals' = DOMAIN trade_proposals
        /\ Len(trade_proposals') = n
        /\ \A i \in DOMAIN trade_proposals :
             trade_proposals'[i] = IF i = k THEN new ELSE trade_proposals[i]
    BY ZenonT(60), <1>0, <2>3, ReplacedRow
  <2>6. \A i \in DOMAIN trade_proposals :
          /\ IsDraft(trade_proposals'[i]) /\ trade_proposals'[i].listed <= n
          /\ trade_proposals'[i].listed \in Nat
          /\ trade_proposals'[i].market = trade_proposals[i].market
          /\ trade_proposals'[i].listed = trade_proposals[i].listed
          /\ ActiveDraft(trade_proposals'[i]) =>
               \/ /\ ActiveDraft(trade_proposals[i])
                  /\ trade_proposals'[i].revived = trade_proposals[i].revived
               \/ trade_proposals'[i].revived = n
    BY <2>4, <2>5 DEF DraftsInv, IsDraft
  <2>7. LaterListed(trade_proposals')
    <3> SUFFICES ASSUME NEW i \in DOMAIN trade_proposals, NEW j \in DOMAIN trade_proposals,
                        i < j, trade_proposals'[i].market = trade_proposals'[j].market,
                        ActiveDraft(trade_proposals'[i])
                 PROVE  \/ trade_proposals'[j].listed < i
                        \/ trade_proposals'[i].revived >= trade_proposals'[j].listed
      BY <2>5 DEF LaterListed
    <3>1. CASE trade_proposals'[i].revived = n
      BY <1>1, <2>6, <3>1
    <3>2. CASE ActiveDraft(trade_proposals[i]) /\ trade_proposals'[i].revived = trade_proposals[i].revived
      BY <2>6, <3>2 DEF DraftsInv, LaterListed
    <3> QED
      BY <2>6, <3>1, <3>2
  <2>8. \A d \in Drafters : RunFits(draftRun[d], trade_proposals')
    <3> SUFFICES ASSUME NEW d \in Drafters, draftRun[d].at = "draft"
                 PROVE  RunFits(draftRun[d], trade_proposals')
      BY DEF RunFits
    <3>1. draftRun[d].listed <= n /\ \A i \in 1 .. draftRun[d].listed : i \in DOMAIN trade_proposals
      BY <1>1 DEF RunFits, IsRun
    <3> QED
      BY <1>1, <2>5, <2>6, <3>1 DEF RunFits, IsRun
  <2> QED
    BY <2>2, <2>5, <2>6, <2>7, <2>8 DEF DraftsInv
<1>10. CASE \E m \in Markets : RefreshSnapshot(m)
  BY <1>2, <1>10 DEF RefreshSnapshot
<1>11. CASE UNCHANGED draftVars
  BY <1>2, <1>11 DEF draftVars
<1> QED
  BY <1>4, <1>5, <1>6, <1>7, <1>8, <1>9, <1>10, <1>11 DEF DraftsNext

\* However runs and saves interleave, a market has two active drafts only when the
\* later one's run listed the proposals before the earlier was made, or while it was
\* decided and not yet set active again.
THEOREM DuplicatesOverlap == DraftsSpec => []DuplicatesComeFromOverlap
<1>1. DraftsInit => DraftsInv
  <2> SUFFICES ASSUME DraftsInit  PROVE DraftsInv
    OBVIOUS
  <2>1. trade_proposals \in Seq({}) /\ DOMAIN trade_proposals = {}
    BY DEF DraftsInit
  <2>2. IsRun(NoRun) /\ NoRun.at = "idle"
    BY DEF NoRun, IsRun
  <2> QED
    BY <2>1, <2>2 DEF DraftsInit, DraftsInv, RunFits, LaterListed
<1>2. DraftsInv => DuplicatesComeFromOverlap
  BY DEF DraftsInv, LaterListed, ActiveDraft, DuplicatesComeFromOverlap
<1> QED
  BY <1>1, <1>2, DraftsStep, PTL DEF DraftsSpec

(***************************************************************************)
(* Settings, drafts and their revalidation.  Under the settings and for    *)
(* the market a draft was made with, a fresh context differs from the      *)
(* draft's only in its price, its fair value and their difference: the     *)
(* edge is carried over but for the rounding, and of the three the         *)
(* policies read only the edge.                                            *)
(***************************************************************************)
IsPolicyDraft(d) ==
  d \in [market : {d.market}, action : {d.action}, side : {d.side}, price : 0 .. Unit,
         fair : {d.fair}, edge : Int, probability : {d.probability}, size : {d.size},
         max_allowed : {d.max_allowed}, reasons : {d.reasons}, status : {d.status},
         ttl : {d.ttl}, madeFor : {d.madeFor}, madeUnder : {d.madeUnder}, refusedAt : Int,
         samePolicies : BOOLEAN]

IsEstimate(p) ==
  p \in [fair : 0 .. Unit, confidence : Int, agreement : {p.agreement},
         trusted : {p.trusted}, sources : {p.sources}]

MadeContext(d, under) ==
  [create_default_context(d.madeFor, d.probability, d.price) EXCEPT !.size = d.size, !.under = under]

Allowed(d) ==
  /\ ValidSettings(d.madeUnder)
  /\ \E under \in BOOLEAN : Evaluate(d.madeUnder, MadeContext(d, under)) = {}
  /\ IsEstimate(d.probability) /\ d.fair = d.probability.fair
  /\ d.edge = d.fair - d.price
  /\ d.refusedAt = None

\* A size is within the limits of its settings, but for the rounding.
FitsLimits(s, recommended, max_allowed) ==
  /\ recommended <= max_allowed
  /\ \A share \in {s.position_limits.max_position_pct, s.position_limits.max_theme_exposure_pct,
                   s.position_limits.max_unresolved_exposure_pct,
                   Unit - s.bankroll.reserve_ratio} :
       2 * (Unit * recommended - s.bankroll.total * share) <= Unit

\* Without exposure in use, a reason about the size is a limit exceeded.
SizeReasonsExplained(s, recommended, reasons) ==
  reasons \cap SizeReasons # {} =>
    \E share \in {s.position_limits.max_position_pct,
                  s.position_limits.max_unresolved_exposure_pct} :
      Unit * recommended - s.bankroll.total * share > 0

\* Of the probability the policies read the edge, never the price by itself, and
\* any edge above the least one suits them.
LEMMA PoliciesReadTheEdge ==
  ASSUME NEW s, NEW b, NEW c,
         b.market = c.market, b.open = c.open, b.unresolved = c.unresolved, b.theme = c.theme,
         b.age = c.age, b.size = c.size,
         c.edge \in Int, s.entry_rules.min_edge_pct \in Int, c.edge > s.entry_rules.min_edge_pct,
         b.probability.confidence = c.probability.confidence,
         b.probability.agreement = c.probability.agreement,
         b.probability.trusted = c.probability.trusted,
         b.probability.sources = c.probability.sources,
         c.orderType = s.entry_rules.order_type,
         Evaluate(s, b) = {}
  PROVE  Evaluate(s, c) = {}
<1>1. MarketPolicy(s, c) = MarketPolicy(s, b)
  BY DEF MarketPolicy
<1>2. RiskPolicy(s, c) = RiskPolicy(s, b)
  BY DEF RiskPolicy
<1>3. ExecutionPolicy(s, c) \subseteq ExecutionPolicy(s, b)
  BY DEF ExecutionPolicy
<1>4. AIPolicy(s, c) \subseteq AIPolicy(s, b)
  BY DEF AIPolicy
<1> QED
  BY <1>1, <1>2, <1>3, <1>4 DEF Evaluate

\* What is rounded to four decimals moves by half of the last one at most, and not
\* at all if it has no more.
LEMMA RoundedShareIsNear ==
  ASSUME NEW x \in Nat, NEW f \in RoundedShare(x, 1)
  PROVE  /\ f \in Int /\ 2 * Gap(x, f) <= Grain
         /\ x % Grain = 0 => f = x
<1> Grain \in Nat \ {0}
  BY GrainAssumption
<1>1. PICK q \in Rounded(x, Grain) : f = q * Grain
  BY DEF RoundedShare
<1>2. q \in {x \div Grain, x \div Grain + 1} /\ 2 * Gap(x, q * Grain) <= Grain
  BY <1>1 DEF Rounded
<1>3. x \div Grain \in Nat
  OBVIOUS
<1>4. q \in Nat /\ f \in Int
  BY <1>1, <1>2, <1>3
<1>5. ASSUME x % Grain = 0
      PROVE  f = x
  <2>1. x = Grain * (x \div Grain)
    BY <1>5
  <2>2. CASE q = x \div Grain + 1
    <3>1. q * Grain = x + Grain
      BY <1>3, <2>1, <2>2
    <3> QED
      BY <1>2, <3>1 DEF Gap
  <2>3. CASE q = x \div Grain
    BY <1>1, <1>3, <2>1, <2>3
  <2> QED
    BY <1>2, <2>2, <2>3
<1> QED
  BY <1>1, <1>2, <1>4, <1>5

\* A draft that was allowed is allowed again at any price its edge still fits on,
\* unless the edge is so tight that the arithmetic of floats decides.
LEMMA RevalidatedEdge ==
  ASSUME NEW d, IsPolicyDraft(d), Allowed(d), NEW mid \in 0 .. Unit, ~EdgeIsTight(d, mid),
         NEW exact \in RevalidationContexts(d.madeUnder, d, d.madeFor, mid), NEW c \in InFloats(exact)
  PROVE  Evaluate(d.madeUnder, c) = {}
<1> DEFINE s == d.madeUnder
           p == d.probability
           least == s.entry_rules.min_edge_pct
           carried == mid + d.edge
<1>1. /\ Unit \in Nat /\ d.price \in 0 .. Unit /\ d.fair \in 0 .. Unit /\ d.edge = d.fair - d.price
      /\ least \in 0 .. Unit /\ Grain \in Nat \ {0}
  BY UnitAssumption, GrainAssumption DEF IsPolicyDraft, Allowed, IsEstimate, ValidSettings, Ratio
<1>2. PICK before \in BOOLEAN : Evaluate(s, MadeContext(d, before)) = {}
  BY DEF Allowed
<1> DEFINE b == MadeContext(d, before)
<1>3. d.edge >= least
  <2>1. b.edge = d.edge
    BY <1>1 DEF MadeContext, create_default_context, Allowed
  <2>2. "edge_below_threshold" \notin AIPolicy(s, b)
    BY <1>2 DEF Evaluate
  <2> QED
    BY <1>1, <2>1, <2>2 DEF AIPolicy
<1>4. /\ carried \in 0 .. Unit /\ d.edge # least
      /\ carried % Grain = 0 \/ 2 * (d.edge - least) > Grain
  <2>1. ~(carried > Unit) /\ ~(d.edge - least = 0)
        /\ ~(carried % Grain # 0 /\ 2 * (d.edge - least) <= Grain)
    BY DEF EdgeIsTight
  <2> QED
    BY <1>1, <1>3, <2>1
<1>5. PICK q \in get_probability(d, mid) :
        exact = [create_default_context(d.madeFor, q, mid)
                   EXCEPT !.size = d.size, !.orderType = s.entry_rules.order_type]
  BY DEF RevalidationContexts
<1>6. PICK f \in RoundedShare(carried, 1) : q = [p EXCEPT !.fair = f]
  <2>1. Clamp(mid + (d.fair - d.price), 0, Unit) = carried
    BY <1>1, <1>4 DEF Clamp, Least, Most
  <2> QED
    BY <1>5, <2>1 DEF get_probability
<1>7. f \in Int /\ 2 * Gap(carried, f) <= Grain /\ (carried % Grain = 0 => f = carried)
  BY <1>4, RoundedShareIsNear
<1>8. /\ q.fair = f /\ q.confidence = p.confidence /\ q.agreement = p.agreement
      /\ q.trusted = p.trusted /\ q.sources = p.sources
  BY <1>6 DEF Allowed, IsEstimate
<1>9. /\ b.market = c.market /\ b.open = c.open /\ b.unresolved = c.unresolved
      /\ b.theme = c.theme /\ b.age = c.age /\ b.size = c.size
      /\ b.probability = p /\ c.probability = q
      /\ c.orderType = s.entry_rules.order_type
      /\ c.edge = q.fair - mid
  BY <1>5 DEF MadeContext, create_default_context, InFloats
<1>10. c.edge \in Int /\ c.edge > least
  <2>1. f - mid > least
    <3>1. CASE carried % Grain = 0
      BY <1>1, <1>3, <1>4, <1>7, <3>1
    <3>2. CASE 2 * (d.edge - least) > Grain
      <4>1. 2 * (carried - f) <= Grain
        BY <1>1, <1>4, <1>7 DEF Gap
      <4> QED
        BY <1>1, <1>7, <3>2, <4>1
    <3> QED
      BY <1>4, <3>1, <3>2
  <2> QED
    BY <1>7, <1>8, <1>9, <2>1
<1> HIDE DEF s, p, b
<1>11. Evaluate(s, c) = {}
  BY <1>1, <1>2, <1>8, <1>9, <1>10, PoliciesReadTheEdge DEF b
<1> QED
  BY <1>11 DEF s

IsExplained(d) ==
  /\ d.status = Pending => Allowed(d)
  /\ d.refusedAt # None /\ d.samePolicies => EdgeIsTight(d, d.refusedAt)
  /\ FitsLimits(d.madeUnder, d.size, d.max_allowed)
  /\ d.refusedAt = None => SizeReasonsExplained(d.madeUnder, d.size, d.reasons)

PolicyInv ==
  /\ settings = ConfigError \/ ValidSettings(settings)
  /\ \E S : drafts \in Seq(S)
  /\ \A i \in DOMAIN drafts : IsPolicyDraft(drafts[i]) /\ IsExplained(drafts[i])

\* An estimate is made of shares, of a snapshot or as the demo gives it.
LEMMA EstimatesAreShares ==
  ASSUME NEW snapshot \in Snapshots,
         NEW p \in estimate_probability(snapshot) \cup SeedEstimates
  PROVE  IsEstimate(p) /\ snapshot.mid \in 0 .. Unit
<1>1. /\ Unit \in Nat /\ Unit >= 100 /\ snapshot.mid \in 0 .. Unit
      /\ snapshot.reference \in 0 .. Unit \cup {None}
  BY UnitAssumption, PricesAreShares
<1>2. CASE p \in SeedEstimates
  BY <1>1, <1>2, PricesAreShares DEF Estimates, IsEstimate
<1>3. CASE p \in estimate_probability(snapshot)
  <2> DEFINE reference == IF snapshot.reference = None THEN snapshot.mid ELSE snapshot.reference
  <2>1. snapshot.mid + reference \in Int
    BY <1>1
  <2> DEFINE weights == 30000 * snapshot.market.rules
                          + 3 * Unit * Clamp(snapshot.market.liquidity, 0, 10000)
                          + 10000 * Clamp(3 * Unit - 100 * snapshot.spread, 0, 3 * Unit)
  <2>2. PICK f \in RoundedShare(snapshot.mid + reference, 2) : \E c \in RoundedShare(weights, 90000) :
          p = [fair |-> Clamp(f, 0, Unit), confidence |-> c, agreement |-> 1,
               trusted |-> FALSE, sources |-> {"research"}]
    BY <1>3 DEF estimate_probability
  <2>7. Grain \in Nat \ {0}
    BY GrainAssumption
  <2>8. ASSUME NEW x \in Int, NEW den \in {2, 90000}
        PROVE  RoundedShare(x, den) \subseteq Int
    <3> DEFINE step == den * Grain
    <3>1. step \in Nat \ {0}
      BY <2>7, <2>8
    <3> HIDE DEF step
    <3>2. Rounded(x, step) \subseteq Int
      BY <3>1 DEF Rounded
    <3> QED
      BY <2>7, <3>2 DEF RoundedShare, step
  <2>3. f \in Int
    BY <2>1, <2>2, <2>8
  <2>5. weights \in Int
    <3> DEFINE liquidity == Clamp(snapshot.market.liquidity, 0, 10000)
               widest == 3 * Unit
               room == widest - 100 * snapshot.spread
               spread == Clamp(room, 0, widest)
    <3>1. /\ snapshot.market.rules \in Int /\ snapshot.market.liquidity \in Int
          /\ snapshot.spread \in Int
      BY PricesAreShares
    <3>2. liquidity \in Int
      BY <3>1 DEF Clamp, Least, Most
    <3>3. widest \in Int /\ room \in Int
      BY <1>1, <3>1
    <3>4. spread \in Int
      <4> HIDE DEF widest, room
      <4> QED
        BY <3>3 DEF Clamp, Least, Most
    <3>5. weights = 30000 * snapshot.market.rules + widest * liquidity + 10000 * spread
      OBVIOUS
    <3> HIDE DEF weights, widest, liquidity, spread
    <3> QED
      BY <3>1, <3>2, <3>3, <3>4, <3>5
  <2>6. RoundedShare(weights, 90000) \subseteq Int
    <3> HIDE DEF weights
    <3> QED
      BY <2>5, <2>8
  <2> HIDE DEF weights
  <2>4. Clamp(f, 0, Unit) \in 0 .. Unit
    BY <1>1, <2>3 DEF Clamp, Least, Most
  <2> QED
    BY <1>1, <2>2, <2>4, <2>6 DEF IsEstimate
<1> QED
  BY <1>2, <1>3

\* A common positive factor cancels.
LEMMA CommonFactor ==
  ASSUME NEW D \in Nat \ {0}, NEW x \in Int, NEW y \in Int, D * x <= D * y
  PROVE  x <= y
<1>1. CASE x > y
  <2>1. PICK k \in Nat \ {0} : x = y + k
    BY <1>1
  <2>2. D * x = D * y + D * k
    BY <2>1
  <2>3. D * k \in Nat \ {0} /\ D * y \in Int
    BY <2>1
  <2> QED
    BY <2>2, <2>3
<1> QED
  BY <1>1

\* A ratio does not exceed 1.
LEMMA RatioIsShare ==
  ASSUME NEW num \in Int, NEW den \in Nat \ {0}, NEW floor \in {<<1, 4>>, <<1, 2>>}
  PROVE  LET ratio == Ratioed(num, den, floor)
         IN  ratio[1] \in Nat /\ ratio[2] \in Nat \ {0} /\ ratio[1] <= ratio[2]
<1>1. floor[1] = 1 /\ floor[2] \in {2, 4}
  OBVIOUS
<1>2. CASE num * floor[2] <= den * floor[1]
  BY <1>1, <1>2 DEF Ratioed
<1>3. CASE ~(num * floor[2] <= den * floor[1])
  <2>1. num > 0
    BY <1>1, <1>3
  <2>2. Ratioed(num, den, floor) = <<Least(num, den), den>>
    BY <1>3 DEF Ratioed
  <2>3. Least(num, den) \in Nat /\ Least(num, den) <= den
    BY <2>1 DEF Least
  <2> QED
    BY <2>2, <2>3
<1> QED
  BY <1>2, <1>3

\* The maximum is within every share of the bankroll.
LEMMA MaximumFits ==
  ASSUME NEW s, ValidSettings(s), NEW ctx, ctx.unresolved = 0
  PROVE  /\ MaxAllowed(s, ctx) \in Nat
         /\ \A share \in {s.position_limits.max_position_pct,
                          s.position_limits.max_theme_exposure_pct,
                          s.position_limits.max_unresolved_exposure_pct,
                          Unit - s.bankroll.reserve_ratio} :
              s.bankroll.total * share \in Nat /\ MaxAllowed(s, ctx) <= s.bankroll.total * share
<1> DEFINE total == s.bankroll.total
           position == s.position_limits.max_position_pct
           theme == s.position_limits.max_theme_exposure_pct
           unresolved == s.position_limits.max_unresolved_exposure_pct
           free == Unit - s.bankroll.reserve_ratio
<1>1. /\ Unit \in Nat /\ total \in Nat \ {0} /\ position \in Nat /\ theme \in Nat
      /\ unresolved \in Nat /\ free \in Nat /\ position <= theme
  BY UnitAssumption DEF ValidSettings, ValidLimits, Ratio
<1>2. MaxAllowed(s, ctx) =
        Least(total * position, Least(total * free, Most(0, total * unresolved - Unit * 0)))
  BY DEF MaxAllowed
<1> HIDE DEF total, position, theme, unresolved, free
<1>3. /\ total * position \in Nat /\ total * theme \in Nat /\ total * free \in Nat
      /\ total * unresolved \in Nat
  BY <1>1
<1>4. total * position <= total * theme
  <2>1. total * theme = total * position + total * (theme - position)
    BY <1>1
  <2>2. total * (theme - position) \in Nat
    BY <1>1
  <2> QED
    BY <1>3, <2>1, <2>2
<1>5. /\ MaxAllowed(s, ctx) \in Nat
      /\ MaxAllowed(s, ctx) <= total * position /\ MaxAllowed(s, ctx) <= total * free
      /\ MaxAllowed(s, ctx) <= total * unresolved
  BY <1>1, <1>2, <1>3 DEF Least, Most
<1> QED
  BY <1>3, <1>4, <1>5 DEF total, position, theme, unresolved, free

\* What is rounded to cents exceeds its bound by half a cent at most.
LEMMA RoundedFits ==
  ASSUME NEW M \in Nat, NEW n \in Nat, NEW D \in Nat \ {0}, n <= D, Unit \in Nat \ {0},
         NEW q \in Rounded(M * n, Unit * D)
  PROVE  q \in Int /\ 2 * (Unit * q) <= 2 * M + Unit
<1> DEFINE num == M * n
           den == Unit * D
<1>1. num \in Nat /\ den \in Nat \ {0} /\ num <= D * M
  <2>1. D * M = M * n + M * (D - n) /\ M * (D - n) \in Nat /\ M * n \in Nat
    OBVIOUS
  <2> QED
    BY <2>1
<1>2. q \in {num \div den, num \div den + 1} /\ 2 * Gap(num, q * den) <= den
  BY DEF Rounded
<1> HIDE DEF num, den
<1>3. q \in Int
  BY <1>1, <1>2
<1>4. q * den \in Int /\ 2 * (q * den) <= 2 * num + den
  <2>1. q * den \in Int
    BY <1>1, <1>3
  <2> QED
    BY <1>1, <1>2, <2>1 DEF Gap
<1>5. D * (2 * (Unit * q)) = 2 * (q * den)
  BY <1>3 DEF den
<1>6. D * (2 * M + Unit) = 2 * (D * M) + den
  BY DEF den
<1>7. D * (2 * (Unit * q)) <= D * (2 * M + Unit)
  <2>1. D * M \in Nat
    OBVIOUS
  <2> QED
    BY <1>1, <1>4, <1>5, <1>6, <2>1
<1>8. 2 * (Unit * q) \in Int /\ 2 * M + Unit \in Int
  BY <1>3
<1> QED
  BY <1>3, <1>7, <1>8, CommonFactor

\* Whatever the sizing engine recommends fits the limits.
LEMMA SizesFit ==
  ASSUME NEW s, ValidSettings(s), NEW market, NEW p, IsEstimate(p), NEW price \in 0 .. Unit,
         NEW ctx \in InFloats(create_default_context(market, p, price)), NEW sizing \in size(s, ctx)
  PROVE  sizing.recommended \in Int /\ FitsLimits(s, sizing.recommended, sizing.max_allowed)
<1> DEFINE M == MaxAllowed(s, ctx)
           rules == s.entry_rules
           confidence == Ratioed(p.confidence - rules.min_confidence,
                                 Most(Unit \div 100, Unit - rules.min_confidence), <<1, 4>>)
           edge == Ratioed(ctx.edge, Most(rules.min_edge_pct, Unit \div 100), <<1, 2>>)
           penalty == IF 2 * ctx.market.liquidity < 3 * s.market_filters.min_liquidity
                      THEN <<3, 4>> ELSE <<1, 1>>
<1>1. /\ ctx.theme = 0 /\ ctx.unresolved = 0 /\ ctx.probability = p
      /\ ctx.edge = p.fair - price
  BY DEF InFloats, create_default_context
<1>2. /\ Unit \in Nat \ {0} /\ Unit \div 100 \in Nat \ {0} /\ p.confidence \in Int
      /\ ctx.edge \in Int /\ rules.min_confidence \in 0 .. Unit /\ rules.min_edge_pct \in 0 .. Unit
  BY <1>1, UnitAssumption DEF IsEstimate, ValidSettings, Ratio
<1>3. confidence[1] \in Nat /\ confidence[2] \in Nat \ {0} /\ confidence[1] <= confidence[2]
  <2>1. /\ p.confidence - rules.min_confidence \in Int
        /\ Most(Unit \div 100, Unit - rules.min_confidence) \in Nat \ {0}
    BY <1>2 DEF Most
  <2> QED
    BY <2>1, RatioIsShare
<1>4. edge[1] \in Nat /\ edge[2] \in Nat \ {0} /\ edge[1] <= edge[2]
  <2>1. Most(rules.min_edge_pct, Unit \div 100) \in Nat \ {0}
    BY <1>2 DEF Most
  <2> QED
    BY <1>2, <2>1, RatioIsShare
<1>5. penalty[1] \in Nat /\ penalty[2] \in Nat \ {0} /\ penalty[1] <= penalty[2]
  OBVIOUS
<1>6. SizeBeforeRounding(s, ctx) = <<M * confidence[1] * edge[1], confidence[2] * edge[2]>>
  BY <1>1 DEF SizeBeforeRounding
<1>7. /\ sizing.recommended \in Rounded(SizeBeforeRounding(s, ctx)[1] * penalty[1],
                                       Unit * SizeBeforeRounding(s, ctx)[2] * penalty[2])
      /\ sizing.recommended <= sizing.max_allowed
  BY DEF size
<1>8. /\ M \in Nat
      /\ \A share \in {s.position_limits.max_position_pct,
                       s.position_limits.max_theme_exposure_pct,
                       s.position_limits.max_unresolved_exposure_pct,
                       Unit - s.bankroll.reserve_ratio} :
           s.bankroll.total * share \in Nat /\ M <= s.bankroll.total * share
  BY <1>1, MaximumFits
<1>9. /\ sizing.recommended \in Int
      /\ 2 * (Unit * sizing.recommended) <= 2 * M + Unit
  <2> DEFINE n == confidence[1] * edge[1] * penalty[1]
             D == confidence[2] * edge[2] * penalty[2]
  <2>1. sizing.recommended \in Rounded(M * confidence[1] * edge[1] * penalty[1],
                                      Unit * (confidence[2] * edge[2]) * penalty[2])
    BY <1>6, <1>7
  <2> HIDE DEF M, confidence, edge, penalty
  <2>2. /\ M * confidence[1] * edge[1] * penalty[1] = M * n
        /\ Unit * (confidence[2] * edge[2]) * penalty[2] = Unit * D
    BY <1>2, <1>3, <1>4, <1>5, <1>8
  <2>3. n \in Nat /\ D \in Nat \ {0} /\ n <= D
    <3>1. ASSUME NEW a \in Nat, NEW b \in Nat \ {0}, a <= b,
                 NEW c \in Nat, NEW d \in Nat \ {0}, c <= d
          PROVE  a * c \in Nat /\ b * d \in Nat \ {0} /\ a * c <= b * d
      <4>1. b * d = a * c + a * (d - c) + (b - a) * d
        BY <3>1
      <4>2. a * (d - c) \in Nat /\ (b - a) * d \in Nat /\ a * c \in Nat /\ b * d \in Nat \ {0}
        BY <3>1
      <4> QED
        BY <4>1, <4>2
    <3>2. /\ confidence[1] * edge[1] \in Nat /\ confidence[2] * edge[2] \in Nat \ {0}
          /\ confidence[1] * edge[1] <= confidence[2] * edge[2]
      BY <1>3, <1>4, <3>1
    <3> QED
      BY <1>5, <3>1, <3>2
  <2> HIDE DEF n, D
  <2>4. sizing.recommended \in Rounded(M * n, Unit * D)
    BY <2>1, <2>2
  <2> QED
    BY <1>2, <1>8, <2>3, <2>4, RoundedFits
<1>10. ASSUME NEW share \in {s.position_limits.max_position_pct,
                             s.position_limits.max_theme_exposure_pct,
                             s.position_limits.max_unresolved_exposure_pct,
                             Unit - s.bankroll.reserve_ratio}
       PROVE  2 * (Unit * sizing.recommended - s.bankroll.total * share) <= Unit
  <2> DEFINE part == s.bankroll.total * share
             spent == Unit * sizing.recommended
  <2>1. part \in Nat /\ M <= part /\ M \in Nat /\ Unit \in Nat
    BY <1>2, <1>8
  <2>2. spent \in Int /\ 2 * spent <= 2 * M + Unit
    BY <1>2, <1>9
  <2> HIDE DEF part, spent, M
  <2>3. 2 * (spent - part) <= Unit
    BY <2>1, <2>2
  <2> QED
    BY <2>3 DEF part, spent
<1> QED
  BY <1>7, <1>9, <1>10 DEF FitsLimits

\* A draft is refused for its size only when it exceeds a limit.
LEMMA SizeReasonsHold ==
  ASSUME NEW s, ValidSettings(s), NEW ctx, ctx.size \in Int, ctx.unresolved = 0, ctx.theme = 0
  PROVE  SizeReasonsExplained(s, ctx.size, Evaluate(s, ctx))
<1> DEFINE total == s.bankroll.total
           position == s.position_limits.max_position_pct
           theme == s.position_limits.max_theme_exposure_pct
           unresolved == s.position_limits.max_unresolved_exposure_pct
           spent == Unit * ctx.size
<1>1. /\ Unit \in Nat /\ total \in Nat \ {0} /\ position \in Nat /\ theme \in Nat
      /\ unresolved \in Nat /\ position <= theme
  BY UnitAssumption DEF ValidSettings, ValidLimits, Ratio
<1>2. SUFFICES ASSUME NEW reason \in SizeReasons, reason \in Evaluate(s, ctx)
               PROVE  spent - total * position > 0 \/ spent - total * unresolved > 0
  BY DEF SizeReasonsExplained
<1>3. reason \in RiskPolicy(s, ctx)
  BY <1>2 DEF SizeReasons, Evaluate, MarketPolicy, ExecutionPolicy, AIPolicy
<1>4. Unit * (0 + ctx.size) = spent
  BY <1>1
<1>5. \/ spent > total * position \/ spent > total * theme \/ spent > total * unresolved
  BY <1>2, <1>3, <1>4 DEF SizeReasons, RiskPolicy
<1>6. /\ spent \in Int /\ total * position \in Nat /\ total * unresolved \in Nat
      /\ total * theme \in Nat /\ total * position <= total * theme
  <2> HIDE DEF total, position, theme, unresolved
  <2>1. total * theme = total * position + total * (theme - position)
    BY <1>1
  <2>2. /\ total * (theme - position) \in Nat /\ total * position \in Nat
        /\ total * theme \in Nat /\ total * unresolved \in Nat
    BY <1>1
  <2> QED
    BY <1>1, <2>1, <2>2
<1> HIDE DEF spent, total, position, theme, unresolved
<1> QED
  BY <1>5, <1>6

\* A draft that is made is well formed and explained.
LEMMA MadeDraft ==
  ASSUME NEW s, ValidSettings(s), NEW market, NEW p, IsEstimate(p), NEW price \in 0 .. Unit,
         NEW ctx \in InFloats(create_default_context(market, p, price)),
         NEW d \in create_proposal(s, ctx)
  PROVE  IsPolicyDraft(d) /\ IsExplained(d)
<1>1. PICK sizing \in size(s, ctx) : d =
        [market |-> ctx.market.id,
         action |-> IF ctx.edge > 0 THEN "buy" ELSE "sell",
         side |-> IF ctx.edge > 0 THEN "yes" ELSE "no",
         price |-> ctx.price, fair |-> ctx.probability.fair, edge |-> ctx.edge,
         probability |-> ctx.probability,
         size |-> sizing.recommended, max_allowed |-> sizing.max_allowed,
         reasons |-> Evaluate(s, [ctx EXCEPT !.size = sizing.recommended]),
         status |-> IF Evaluate(s, [ctx EXCEPT !.size = sizing.recommended]) = {}
                    THEN Pending ELSE PolicyRejected,
         ttl |-> s.approvals.proposal_ttl_minutes,
         madeFor |-> ctx.market, madeUnder |-> s, refusedAt |-> None, samePolicies |-> TRUE]
  BY DEF create_proposal
<1>2. /\ ctx.market = market /\ ctx.price = price /\ ctx.probability = p
      /\ ctx.edge = p.fair - price
  BY DEF InFloats, create_default_context
<1>3. Unit \in Nat /\ p.fair \in 0 .. Unit
  BY UnitAssumption DEF IsEstimate
<1>4. IsPolicyDraft(d)
  BY <1>1, <1>2, <1>3 DEF IsPolicyDraft, None
<1>5. /\ d.madeUnder = s /\ d.madeFor = market /\ d.probability = p /\ d.price = price
      /\ d.size = sizing.recommended /\ d.refusedAt = None
      /\ d.edge = p.fair - price /\ d.fair = p.fair
      /\ d.status = Pending => Evaluate(s, [ctx EXCEPT !.size = d.size]) = {}
      /\ d.max_allowed = sizing.max_allowed
      /\ d.reasons = Evaluate(s, [ctx EXCEPT !.size = d.size])
  BY <1>1, <1>2 DEF Pending, PolicyRejected
<1>6. PICK under \in BOOLEAN : MadeContext(d, under) = [ctx EXCEPT !.size = d.size]
  <2>1. PICK under \in BOOLEAN : ctx = [create_default_context(market, p, price) EXCEPT !.under = under]
    BY DEF InFloats
  <2>2. MadeContext(d, under) = [ctx EXCEPT !.size = d.size]
    BY <1>5, <2>1 DEF MadeContext, create_default_context
  <2> QED
    BY <2>2
<1>7. sizing.recommended \in Int /\ FitsLimits(s, sizing.recommended, sizing.max_allowed)
  BY <1>1, SizesFit
<1>8. SizeReasonsExplained(s, d.size, d.reasons)
  <2> DEFINE sized == [ctx EXCEPT !.size = d.size]
  <2>1. sized.size = d.size /\ sized.unresolved = 0 /\ sized.theme = 0
    BY DEF InFloats, create_default_context
  <2> HIDE DEF sized
  <2>2. SizeReasonsExplained(s, sized.size, Evaluate(s, sized))
    BY <1>5, <1>7, <2>1, SizeReasonsHold
  <2> QED
    BY <1>5, <2>1, <2>2 DEF sized
<1> QED
  BY <1>4, <1>5, <1>6, <1>7, <1>8 DEF IsExplained, Allowed

\* What approve() makes of the draft.
Revalidated(s, d, market, mid, context) ==
  LET reasons == Evaluate(s, context)
  IN  [d EXCEPT
         !.status = IF reasons = {} THEN "approved" ELSE PolicyRejected,
         !.reasons = reasons,
         !.price = mid, !.probability = context.probability,
         !.refusedAt = IF reasons = {} THEN None ELSE mid,
         !.samePolicies = s = d.madeUnder /\ market = d.madeFor]

\* So is a draft after its approval, granted or refused.
LEMMA RevalidatedDraft ==
  ASSUME NEW s, ValidSettings(s), NEW d, IsPolicyDraft(d), IsExplained(d), d.status = Pending,
         NEW market, NEW mid \in 0 .. Unit, NEW exact \in RevalidationContexts(s, d, market, mid),
         NEW context \in InFloats(exact),
         NEW new, new = Revalidated(s, d, market, mid, context)
  PROVE  IsPolicyDraft(new) /\ IsExplained(new)
<1> DEFINE reasons == Evaluate(s, context)
           same == s = d.madeUnder /\ market = d.madeFor
<1>1. new = [d EXCEPT !.status = IF reasons = {} THEN "approved" ELSE PolicyRejected,
                      !.reasons = reasons, !.price = mid, !.probability = context.probability,
                      !.refusedAt = IF reasons = {} THEN None ELSE mid, !.samePolicies = same]
  BY DEF Revalidated
<1>2. same \in BOOLEAN /\ Allowed(d)
  BY DEF IsExplained
<1>3. reasons # {} /\ same => EdgeIsTight(d, mid)
  BY <1>2, RevalidatedEdge
<1> HIDE DEF reasons, same
<1>4. /\ new.samePolicies = same /\ new.edge = d.edge
      /\ new.refusedAt = IF reasons = {} THEN None ELSE mid
      /\ new.status # Pending
      /\ new.size = d.size /\ new.max_allowed = d.max_allowed /\ new.madeUnder = d.madeUnder
      /\ new.reasons = reasons
  BY <1>1 DEF IsPolicyDraft, Pending, PolicyRejected
<1>5. IsPolicyDraft(new)
  <2>1. /\ (IF reasons = {} THEN None ELSE mid) \in Int /\ mid \in 0 .. Unit
    BY UnitAssumption DEF None
  <2>2. new = [market |-> d.market, action |-> d.action, side |-> d.side, price |-> mid,
               fair |-> d.fair, edge |-> d.edge, probability |-> context.probability,
               size |-> d.size, max_allowed |-> d.max_allowed, reasons |-> reasons,
               status |-> IF reasons = {} THEN "approved" ELSE PolicyRejected, ttl |-> d.ttl,
               madeFor |-> d.madeFor, madeUnder |-> d.madeUnder,
               refusedAt |-> IF reasons = {} THEN None ELSE mid, samePolicies |-> same]
    BY ZenonT(60), <1>1 DEF IsPolicyDraft
  <2> QED
    BY <1>2, <2>1, <2>2 DEF IsPolicyDraft
<1>6. new.refusedAt = None => SizeReasonsExplained(new.madeUnder, new.size, new.reasons)
  <2>1. new.refusedAt = None => reasons = {}
    BY <1>4, UnitAssumption DEF None
  <2> QED
    BY <1>4, <2>1 DEF SizeReasonsExplained
<1>7. EdgeIsTight(new, mid) <=> EdgeIsTight(d, mid)
  BY <1>4 DEF EdgeIsTight
<1> QED
  BY <1>3, <1>4, <1>5, <1>6, <1>7 DEF IsExplained

\* Every command keeps the settings checked and the drafts explained.
LEMMA PolicyStep == PolicyInv /\ [PolicyNext]_policyVars => PolicyInv'
<1> SUFFICES ASSUME PolicyInv, [PolicyNext]_policyVars  PROVE PolicyInv'
  OBVIOUS
<1>0. PICK S : drafts \in Seq(S)
  BY DEF PolicyInv
<1>1. CASE LoadSettings
  <2>1. \A profile, mode : LET s == load_settings(Base, profile, mode)
                           IN  s = ConfigError \/ ValidSettings(s)
    BY Zenon DEF load_settings
  <2>2. (settings' = ConfigError \/ ValidSettings(settings')) /\ drafts' = drafts
    BY <1>1, <2>1 DEF LoadSettings
  <2> QED
    BY <2>2 DEF PolicyInv
<1>2. CASE CreateDraft
  <2>1. PICK snapshot \in Snapshots :
        \E p \in estimate_probability(snapshot) \cup SeedEstimates :
        \E context \in InFloats(create_default_context(snapshot.market, p, snapshot.mid)) :
        \E d \in create_proposal(settings, context) :
          drafts' = Append(drafts, d)
    BY <1>2 DEF CreateDraft
  <2> PICK p \in estimate_probability(snapshot) \cup SeedEstimates :
        \E context \in InFloats(create_default_context(snapshot.market, p, snapshot.mid)) :
        \E d \in create_proposal(settings, context) :
          drafts' = Append(drafts, d)
    BY <2>1
  <2> PICK context \in InFloats(create_default_context(snapshot.market, p, snapshot.mid)) :
        \E d \in create_proposal(settings, context) : drafts' = Append(drafts, d)
    OBVIOUS
  <2>2. PICK d \in create_proposal(settings, context) : drafts' = Append(drafts, d)
    OBVIOUS
  <2>3. settings' = settings /\ ValidSettings(settings)
    BY <1>2 DEF CreateDraft, PolicyInv
  <2>4. IsPolicyDraft(d) /\ IsExplained(d)
    BY <2>3, EstimatesAreShares, MadeDraft
  <2>5. /\ \E T : drafts' \in Seq(T)
        /\ DOMAIN drafts = 1 .. Len(drafts) /\ DOMAIN drafts' = 1 .. Len(drafts) + 1
        /\ \A i \in DOMAIN drafts : drafts'[i] = drafts[i]
        /\ drafts'[Len(drafts) + 1] = d /\ Len(drafts) \in Nat
    BY SMTT(60), <1>0, <2>2, AppendedRows
  <2>6. \A i \in DOMAIN drafts' : IsPolicyDraft(drafts'[i]) /\ IsExplained(drafts'[i])
    BY <2>4, <2>5 DEF PolicyInv
  <2> QED
    BY <2>3, <2>5, <2>6 DEF PolicyInv
<1>3. ASSUME NEW i \in DOMAIN drafts, ApproveDraft(i)
      PROVE  PolicyInv'
  <2>1. PICK snapshot \in Snapshots :
        \E exact \in RevalidationContexts(settings, drafts[i], snapshot.market, snapshot.mid) :
        \E context \in InFloats(exact) :
          drafts' = [drafts EXCEPT ![i] =
                       Revalidated(settings, drafts[i], snapshot.market, snapshot.mid, context)]
    BY ZenonT(60), <1>3 DEF ApproveDraft, Revalidated
  <2> DEFINE d == drafts[i]
  <2> PICK exact \in RevalidationContexts(settings, d, snapshot.market, snapshot.mid) :
        \E context \in InFloats(exact) :
          drafts' = [drafts EXCEPT ![i] =
                       Revalidated(settings, d, snapshot.market, snapshot.mid, context)]
    BY <2>1
  <2> PICK context \in InFloats(exact) :
        drafts' = [drafts EXCEPT ![i] =
                     Revalidated(settings, d, snapshot.market, snapshot.mid, context)]
    OBVIOUS
  <2> DEFINE new == Revalidated(settings, d, snapshot.market, snapshot.mid, context)
  <2>2. /\ settings' = settings /\ ValidSettings(settings) /\ d.status = Pending
        /\ snapshot.mid \in 0 .. Unit /\ IsPolicyDraft(d) /\ IsExplained(d)
    BY <1>3, PricesAreShares DEF ApproveDraft, PolicyInv
  <2>3. IsPolicyDraft(new) /\ IsExplained(new)
    <3> HIDE DEF d
    <3> QED
      BY <2>2, RevalidatedDraft
  <2> HIDE DEF new
  <2>4. /\ \E T : drafts' \in Seq(T)
        /\ DOMAIN drafts' = DOMAIN drafts
        /\ \A j \in DOMAIN drafts : drafts'[j] = IF j = i THEN new ELSE drafts[j]
    <3>1. drafts' = [drafts EXCEPT ![i] = new]
      BY DEF new
    <3> QED
      BY <1>0, <3>1, ReplacedRow
  <2>5. \A j \in DOMAIN drafts' : IsPolicyDraft(drafts'[j]) /\ IsExplained(drafts'[j])
    BY <2>3, <2>4 DEF PolicyInv
  <2> QED
    BY <2>2, <2>4, <2>5 DEF PolicyInv
<1>4. CASE UNCHANGED policyVars
  BY <1>4 DEF PolicyInv, policyVars
<1> QED
  BY <1>1, <1>2, <1>3, <1>4 DEF PolicyNext

\* There are no drafts at the start.
LEMMA PolicyBegin == PolicyInit => PolicyInv
<1>1. drafts = <<>> => drafts \in Seq({}) /\ DOMAIN drafts = {}
  OBVIOUS
<1> QED
  BY <1>1 DEF PolicyInit, PolicyInv

\* Whatever the files and BOT_MODE say, a command in semi_auto mode asks the
\* operator and submits nothing live.
THEOREM SemiAutoAsks == PolicySpec => []SemiAutoIsStrict
<1>1. PolicyInv => SemiAutoIsStrict
  BY DEF PolicyInv, ValidSettings, ValidAutomation, SemiAutoIsStrict, semi_auto_strict
<1> QED
  BY <1>1, PolicyBegin, PolicyStep, PTL DEF PolicySpec

\* A draft the policies allowed is refused, under the same settings and for
\* the same market, only at a price to which its edge no longer fits below 1,
\* or because the edge was so near to the least one that floats decide.
THEOREM PriceMovesAreCarried == PolicySpec => []PriceMoveRefusesOnlyAnEdge
<1>1. PolicyInv => PriceMoveRefusesOnlyAnEdge
  BY DEF PolicyInv, IsExplained, PriceMoveRefusesOnlyAnEdge, Drafts
<1> QED
  BY <1>1, PolicyBegin, PolicyStep, PTL DEF PolicySpec

\* A size exceeds no limit of the settings it was chosen under by more than
\* its rounding to cents, and is refused as too large only for that excess.
THEOREM SizesAreBounded == PolicySpec => []SizesRespectLimits
<1>1. PolicyInv => SizesRespectLimits
  BY DEF PolicyInv, IsExplained, FitsLimits, SizeReasonsExplained, SizesRespectLimits, Drafts
<1> QED
  BY <1>1, PolicyBegin, PolicyStep, PTL DEF PolicySpec

(***************************************************************************)
(* Execution previews.  Every time is taken once, so a preview made at the *)
(* time of a change is not; a preview of the version that is current shows *)
(* the row as it is.                                                       *)
(***************************************************************************)
ProposalRows ==
  [status : {"pending_manual_confirmation", "approved", "cancelled", "policy_rejected"},
   price : LimitPrices, updated_at : Nat, version : Nat]

Waiting == [at : {"idle"}]

Building == [at : {"build"}, proposal : ProposalRows]

Made(at) ==
  [at : {at}, proposal : ProposalRows, created_at : Nat, quoted : Nat,
   status : {"blocked", "ready_with_warnings", "ready"}]

PreviewTypes ==
  /\ moment \in Nat /\ previewed \in ProposalRows
  /\ begun.committed \in Seq(Nat) /\ Len(begun.committed) = previewed.version
  /\ begun \in [previews : {begun.previews}, changes : {begun.changes},
                committed : {begun.committed}]
  /\ execution_previews \in Seq(Made("saved"))
  /\ previewing \in [Previewers -> Waiting \cup Building \cup Made("persist")]
  /\ changing \in [RowWriters -> Waiting \cup [at : {"commit"}, now : Nat]]

\* A row that was read: an earlier version, or the current one.
RowRead(row) ==
  row.version <= previewed.version /\ (row.version = previewed.version => row = previewed)

TimesTaken ==
  ToSet(begun.committed)
    \cup {changing[w].now : w \in {v \in RowWriters : changing[v].at = "commit"}}

AllMade ==
  ToSet(execution_previews)
    \cup {previewing[p] : p \in {q \in Previewers : previewing[q].at = "persist"}}

MadeFits(made) ==
  /\ made.created_at \in Nat /\ made.created_at <= moment /\ made.created_at \notin TimesTaken
  /\ RowRead(made.proposal)
  /\ made.status = "ready" =>
       /\ made.proposal.status \in {"pending_manual_confirmation", "approved"}
       /\ made.quoted \in made.proposal.price - 1 .. made.proposal.price + 1

HasLatest ==
  execution_previews # <<>> =>
    \E i \in DOMAIN execution_previews : \A j \in DOMAIN execution_previews :
      execution_previews[j].created_at <= execution_previews[i].created_at

PreviewInv ==
  /\ PreviewTypes
  /\ previewed.version > 0 => begun.committed[previewed.version] = previewed.updated_at
  /\ \A time \in TimesTaken : time \in Nat /\ time <= moment
  /\ \A p \in Previewers : previewing[p].at = "build" => RowRead(previewing[p].proposal)
  /\ \A made \in AllMade : MadeFits(made)
  /\ HasLatest

\* A preview is well formed, by the step its process is at.
LEMMA PreviewShapes ==
  ASSUME PreviewTypes, NEW p \in Previewers
  PROVE  /\ previewing[p].at = "build" => previewing[p] \in Building
         /\ previewing[p].at = "persist" => previewing[p] \in Made("persist")
<1>1. previewing[p] \in Waiting \cup Building \cup Made("persist")
  BY DEF PreviewTypes
<1> QED
  BY <1>1 DEF Waiting, Building, Made

\* What build_preview makes of an answer.
LEMMA ReadyIsSound ==
  ASSUME NEW row \in ProposalRows, NEW answer \in Answers, NEW quoted,
         quoted = IF validation_errors(row, answer) THEN 0 ELSE answer.price
  PROVE  /\ quoted \in Nat
         /\ status_for(row, answer) \in {"blocked", "ready_with_warnings", "ready"}
         /\ status_for(row, answer) = "ready" =>
              /\ row.status \in {"pending_manual_confirmation", "approved"}
              /\ quoted \in row.price - 1 .. row.price + 1
<1>1. answer.price \in Nat /\ row.price \in Nat
  BY PricesAreCents DEF Answers, ProposalRows
<1>2. ASSUME ~validation_errors(row, answer), ~warnings(row, answer)
      PROVE  /\ row.status \in {"pending_manual_confirmation", "approved"}
             /\ answer.price \in row.price - 1 .. row.price + 1
  BY <1>1, <1>2 DEF validation_errors, warnings, Differs
<1> QED
  BY <1>1, <1>2 DEF status_for

\* Every step keeps the times in order and the previews true to what they read.
LEMMA PreviewStep == PreviewInv /\ [PreviewNext]_previewVars => PreviewInv'
<1> SUFFICES ASSUME PreviewInv, [PreviewNext]_previewVars  PROVE PreviewInv'
  OBVIOUS
<1> USE DEF PreviewInv
<1>0. /\ moment \in Nat /\ previewed \in ProposalRows /\ PreviewTypes
      /\ begun.committed \in Seq(Nat) /\ Len(begun.committed) = previewed.version
      /\ execution_previews \in Seq(Made("saved"))
      /\ NoPreview \in Waiting
  BY DEF PreviewTypes, NoPreview, Waiting
\* The preview of one process moves on, the rows and times stay.
<1>1. ASSUME NEW p \in Previewers, NEW s, s \in Waiting \cup Building,
             previewing' = [previewing EXCEPT ![p] = s],
             s.at = "build" => RowRead(s.proposal),
             begun' \in [previews : {begun'.previews}, changes : {begun'.changes},
                         committed : {begun.committed}],
             UNCHANGED <<previewed, execution_previews, changing, moment>>
      PROVE  PreviewInv'
  <2>1. /\ \A q \in Previewers : previewing'[q] = IF q = p THEN s ELSE previewing[q]
        /\ previewing' \in [Previewers -> Waiting \cup Building \cup Made("persist")]
    BY <1>1 DEF PreviewTypes
  <2>2. s.at # "persist" /\ begun'.committed = begun.committed
    BY <1>1 DEF Waiting, Building
  <2>3. PreviewTypes'
    BY <1>0, <1>1, <2>1, <2>2 DEF PreviewTypes
  <2>4. AllMade' \subseteq AllMade
    BY <1>1, <2>1, <2>2 DEF AllMade
  <2>5. TimesTaken' = TimesTaken
    BY <1>1, <2>2 DEF TimesTaken
  <2>6. \A row : RowRead(row) => RowRead(row)'
    BY <1>1 DEF RowRead
  <2>7. \A made : MadeFits(made) => MadeFits(made)'
    BY <1>1, <2>5, <2>6 DEF MadeFits
  <2>8. \A q \in Previewers : previewing'[q].at = "build" => RowRead(previewing[q].proposal)'
    <3> SUFFICES ASSUME NEW q \in Previewers, previewing'[q].at = "build"
                 PROVE  /\ previewing'[q].proposal.version <= previewed'.version
                        /\ previewing'[q].proposal.version = previewed'.version =>
                             previewing'[q].proposal = previewed'
      BY DEF RowRead
    <3> QED
      BY <1>1, <2>1 DEF RowRead
  <2>9. HasLatest'
    BY <1>1 DEF HasLatest
  <2> QED
    BY <1>0, <1>1, <2>2, <2>3, <2>4, <2>5, <2>7, <2>8, <2>9
<1>2. ASSUME NEW p \in Previewers, get_proposal(p)
      PROVE  PreviewInv'
  <2> DEFINE s == [at |-> "build", proposal |-> previewed]
  <2>1. s \in Building /\ RowRead(s.proposal)
    BY <1>0 DEF Building, RowRead, ProposalRows
  <2>2. begun' \in [previews : {begun'.previews}, changes : {begun'.changes},
                    committed : {begun.committed}]
    BY <1>0, <1>2 DEF get_proposal, PreviewTypes
  <2> QED
    BY <1>1, <1>2, <2>1, <2>2 DEF get_proposal
<1>3. ASSUME NEW p \in Previewers, LosePreview(p)
      PROVE  PreviewInv'
  <2>1. begun' \in [previews : {begun'.previews}, changes : {begun'.changes},
                    committed : {begun.committed}]
    BY <1>0, <1>3 DEF LosePreview, PreviewTypes
  <2>2. NoPreview.at # "build"
    BY DEF NoPreview
  <2> QED
    BY <1>0, <1>1, <1>3, <2>1, <2>2 DEF LosePreview
<1>4. ASSUME NEW p \in Previewers, build_preview(p)
      PROVE  PreviewInv'
  <2> DEFINE row == previewing[p].proposal
  <2>1. /\ row \in ProposalRows /\ RowRead(row)
        /\ moment' = moment + 1
        /\ UNCHANGED <<previewed, execution_previews, changing, begun>>
    BY <1>0, <1>4, PreviewShapes DEF build_preview, Building
  <2>2. PICK answer \in Answers :
          previewing' = [previewing EXCEPT ![p] =
            [at |-> "persist", proposal |-> row, created_at |-> moment',
             quoted |-> IF validation_errors(row, answer) THEN 0 ELSE answer.price,
             status |-> status_for(row, answer)]]
    BY <1>4 DEF build_preview
  <2> DEFINE quoted == IF validation_errors(row, answer) THEN 0 ELSE answer.price
             result == [at |-> "persist", proposal |-> row, created_at |-> moment + 1,
                        quoted |-> quoted, status |-> status_for(row, answer)]
  <2>3. /\ quoted \in Nat
        /\ status_for(row, answer) \in {"blocked", "ready_with_warnings", "ready"}
        /\ status_for(row, answer) = "ready" =>
             /\ row.status \in {"pending_manual_confirmation", "approved"}
             /\ quoted \in row.price - 1 .. row.price + 1
    BY <2>1, <2>2, ReadyIsSound
  <2>4. previewing' = [previewing EXCEPT ![p] = result]
    BY <2>1, <2>2
  <2> HIDE DEF quoted, row
  <2>5. PICK new \in Made("persist") :
          /\ previewing' = [previewing EXCEPT ![p] = new]
          /\ new.at = "persist" /\ new.created_at = moment + 1 /\ RowRead(new.proposal)
          /\ new.status = "ready" =>
               /\ new.proposal.status \in {"pending_manual_confirmation", "approved"}
               /\ new.quoted \in new.proposal.price - 1 .. new.proposal.price + 1
    <3>1. /\ result \in Made("persist") /\ result.at = "persist"
          /\ result.created_at = moment + 1 /\ result.proposal = row
          /\ result.status = "ready" =>
               /\ result.proposal.status \in {"pending_manual_confirmation", "approved"}
               /\ result.quoted \in result.proposal.price - 1 .. result.proposal.price + 1
      BY <1>0, <2>1, <2>3 DEF Made
    <3> HIDE DEF result
    <3> QED
      BY <2>1, <2>4, <3>1
  <2>6. /\ \A q \in Previewers : previewing'[q] = IF q = p THEN new ELSE previewing[q]
        /\ previewing' \in [Previewers -> Waiting \cup Building \cup Made("persist")]
    BY <1>0, <2>5 DEF PreviewTypes
  <2>7. PreviewTypes'
    BY <1>0, <2>1, <2>6 DEF PreviewTypes
  <2>8. AllMade' \subseteq AllMade \cup {new}
    BY <2>1, <2>6 DEF AllMade
  <2>9. TimesTaken' = TimesTaken
    BY <2>1 DEF TimesTaken
  <2>10. \A r : RowRead(r) => RowRead(r)'
    BY <2>1 DEF RowRead
  <2>11. \A made : MadeFits(made) => MadeFits(made)'
    BY <1>0, <2>1, <2>9, <2>10 DEF MadeFits
  <2>12. MadeFits(new)'
    <3>1. moment + 1 \notin TimesTaken
      BY <1>0
    <3> QED
      BY <1>0, <2>1, <2>5, <2>9, <2>10, <3>1 DEF MadeFits
  <2>13. \A q \in Previewers : previewing'[q].at = "build" =>
           /\ previewing'[q].proposal.version <= previewed'.version
           /\ previewing'[q].proposal.version = previewed'.version =>
                previewing'[q].proposal = previewed'
    BY <2>1, <2>5, <2>6 DEF RowRead
  <2>14. HasLatest'
    BY <2>1 DEF HasLatest
  <2>15. \A time \in TimesTaken' : time \in Nat /\ time <= moment'
    BY <1>0, <2>1, <2>9
  <2> QED
    BY <2>1, <2>7, <2>8, <2>11, <2>12, <2>13, <2>14, <2>15 DEF RowRead
<1>5. ASSUME NEW p \in Previewers, persist_preview(p)
      PROVE  PreviewInv'
  <2> DEFINE old == previewing[p]
             new == [old EXCEPT !.at = "saved"]
             n == Len(execution_previews)
  <2>1. old \in Made("persist") /\ old \in AllMade
    BY <1>0, <1>5, PreviewShapes DEF persist_preview, AllMade
  <2>2. /\ new \in Made("saved") /\ new.created_at = old.created_at
        /\ new.proposal = old.proposal /\ new.status = old.status /\ new.quoted = old.quoted
    BY <2>1 DEF Made
  <2>3. /\ execution_previews' = Append(execution_previews, new)
        /\ previewing' = [previewing EXCEPT ![p] = NoPreview]
        /\ UNCHANGED <<gateway, previewed, changing, moment, begun>>
    BY <1>5 DEF persist_preview, save_preview
  <2>4. MadeFits(new)
    BY <2>1, <2>2 DEF MadeFits
  <2> HIDE DEF new, old
  <2>5. /\ execution_previews' \in Seq(Made("saved"))
        /\ DOMAIN execution_previews = 1 .. n /\ n \in Nat
        /\ DOMAIN execution_previews' = 1 .. n + 1
        /\ \A i \in 1 .. n : execution_previews'[i] = execution_previews[i]
        /\ execution_previews'[n + 1] = new
    BY <1>0, <2>2, <2>3
  <2>6. /\ \A q \in Previewers : previewing'[q] = IF q = p THEN NoPreview ELSE previewing[q]
        /\ previewing' \in [Previewers -> Waiting \cup Building \cup Made("persist")]
        /\ NoPreview.at = "idle"
    BY <1>0, <2>3 DEF PreviewTypes, NoPreview
  <2>7. PreviewTypes'
    BY <1>0, <2>3, <2>5, <2>6 DEF PreviewTypes
  <2>8. AllMade' \subseteq AllMade \cup {new}
    BY <2>5, <2>6 DEF AllMade, ToSet
  <2>9. TimesTaken' = TimesTaken
    BY <2>3 DEF TimesTaken
  <2>10. \A made : MadeFits(made) => MadeFits(made)'
    BY <2>3, <2>9 DEF MadeFits, RowRead
  <2>11. \A q \in Previewers : previewing'[q].at = "build" =>
           /\ previewing'[q].proposal.version <= previewed'.version
           /\ previewing'[q].proposal.version = previewed'.version =>
                previewing'[q].proposal = previewed'
    BY <2>3, <2>6 DEF RowRead
  <2>12. HasLatest'
    <3>1. \A i \in 1 .. n + 1 : execution_previews'[i].created_at \in Nat
      <4>1. \A i \in 1 .. n + 1 : execution_previews'[i] \in Made("saved")
        BY <2>5
      <4> QED
        BY <4>1 DEF Made
    <3>2. CASE n = 0
      <4>1. \A j \in 1 .. n + 1 : j = n + 1
        BY <2>5, <3>2
      <4> QED
        BY <2>5, <3>1, <4>1 DEF HasLatest
    <3>3. CASE n # 0
      <4>1. execution_previews # <<>>
        BY <2>5, <3>3
      <4>2. PICK i \in 1 .. n : \A j \in 1 .. n :
              execution_previews[j].created_at <= execution_previews[i].created_at
        BY <2>5, <4>1 DEF HasLatest
      <4>3. \A j \in 1 .. n + 1 : j \in 1 .. n \/ j = n + 1
        BY <2>5
      <4>4. CASE new.created_at <= execution_previews'[i].created_at
        <5>1. i \in 1 .. n + 1 /\ \A j \in 1 .. n + 1 :
                execution_previews'[j].created_at <= execution_previews'[i].created_at
          BY <2>5, <3>1, <4>2, <4>3, <4>4
        <5> QED
          BY <2>5, <5>1 DEF HasLatest
      <4>5. CASE ~(new.created_at <= execution_previews'[i].created_at)
        <5>1. n + 1 \in 1 .. n + 1 /\ \A j \in 1 .. n + 1 :
                execution_previews'[j].created_at <= execution_previews'[n + 1].created_at
          BY <2>5, <3>1, <4>2, <4>3, <4>5
        <5> QED
          BY <2>5, <5>1 DEF HasLatest
      <4> QED
        BY <4>4, <4>5
    <3> QED
      BY <3>2, <3>3
  <2> QED
    BY <2>3, <2>4, <2>7, <2>8, <2>9, <2>10, <2>11, <2>12 DEF RowRead
<1>6. ASSUME NEW w \in RowWriters, BeginChange(w)
      PROVE  PreviewInv'
  <2> DEFINE new == [at |-> "commit", now |-> moment + 1]
  <2>1. /\ moment' = moment + 1 /\ moment' \in Nat
        /\ changing' = [changing EXCEPT ![w] = new]
        /\ UNCHANGED <<previewed, execution_previews, previewing>>
    BY <1>0, <1>6 DEF BeginChange
  <2>2. /\ begun'.committed = begun.committed
        /\ begun' \in [previews : {begun'.previews}, changes : {begun'.changes},
                       committed : {begun'.committed}]
    BY <1>0, <1>6 DEF BeginChange, PreviewTypes
  <2>3. /\ \A v \in RowWriters : changing'[v] = IF v = w THEN new ELSE changing[v]
        /\ changing' \in [RowWriters -> Waiting \cup [at : {"commit"}, now : Nat]]
    BY <1>0, <2>1 DEF PreviewTypes
  <2>4. PreviewTypes'
    BY <1>0, <2>1, <2>2, <2>3 DEF PreviewTypes
  <2>5. TimesTaken' \subseteq TimesTaken \cup {moment + 1} /\ AllMade' = AllMade
    BY <2>1, <2>2, <2>3 DEF TimesTaken, AllMade
  <2>6. \A made : MadeFits(made) => MadeFits(made)'
    BY <1>0, <2>1, <2>5 DEF MadeFits, RowRead
  <2>7. \A time \in TimesTaken' : time \in Nat /\ time <= moment'
    BY <1>0, <2>1, <2>5
  <2> QED
    BY <2>1, <2>2, <2>4, <2>5, <2>6, <2>7 DEF RowRead, HasLatest
<1>7. ASSUME NEW w \in RowWriters, CommitChange(w)
      PROVE  PreviewInv'
  <2> DEFINE now == changing[w].now
             n == Len(begun.committed)
  <2>1. PICK goal \in {"pending_manual_confirmation", "approved", "cancelled", "policy_rejected"},
             price \in LimitPrices :
          previewed' = [status |-> goal, price |-> price, updated_at |-> now,
                        version |-> previewed.version + 1]
    BY <1>0, <1>7 DEF CommitChange, ProposalRows
  <2>2. now \in Nat /\ now \in TimesTaken /\ now <= moment
    BY <1>7 DEF CommitChange, TimesTaken
  <2>3. /\ begun'.committed = Append(begun.committed, now)
        /\ begun' \in [previews : {begun'.previews}, changes : {begun'.changes},
                       committed : {begun'.committed}]
    BY <1>0, <1>7 DEF CommitChange, PreviewTypes
  <2>4. /\ changing' = [changing EXCEPT ![w] = NoPreview] /\ NoPreview.at = "idle"
        /\ UNCHANGED <<execution_previews, previewing, moment>>
    BY <1>7 DEF CommitChange, NoPreview
  <2> HIDE DEF now
  <2>5. /\ previewed' \in ProposalRows /\ previewed'.version = previewed.version + 1
        /\ previewed'.updated_at = now /\ previewed.version \in Nat
    BY <1>0, <2>1, <2>2 DEF ProposalRows
  <2>6. /\ begun'.committed \in Seq(Nat) /\ n \in Nat /\ DOMAIN begun.committed = 1 .. n
        /\ DOMAIN begun'.committed = 1 .. n + 1 /\ Len(begun'.committed) = n + 1
        /\ \A i \in 1 .. n : begun'.committed[i] = begun.committed[i]
        /\ begun'.committed[n + 1] = now
    BY <1>0, <2>2, <2>3
  <2>7. /\ \A v \in RowWriters : changing'[v] = IF v = w THEN NoPreview ELSE changing[v]
        /\ changing' \in [RowWriters -> Waiting \cup [at : {"commit"}, now : Nat]]
    BY <1>0, <2>4 DEF PreviewTypes
  <2>8. PreviewTypes'
    BY <1>0, <2>3, <2>4, <2>5, <2>6, <2>7 DEF PreviewTypes
  <2>9. TimesTaken' \subseteq TimesTaken /\ AllMade' = AllMade
    <3>1. ToSet(begun'.committed) \subseteq ToSet(begun.committed) \cup {now}
      BY SMTT(60), <2>6 DEF ToSet
    <3> QED
      BY <2>2, <2>4, <2>7, <3>1 DEF TimesTaken, AllMade
  <2>10. \A row : row.version \in Nat /\ RowRead(row) => RowRead(row)'
    BY <2>5 DEF RowRead
  <2>11. \A made \in AllMade : made.proposal.version \in Nat
    <3>1. \A i \in DOMAIN execution_previews :
            execution_previews[i].proposal.version \in Nat
      <4>1. \A i \in DOMAIN execution_previews : execution_previews[i] \in Made("saved")
        BY <1>0
      <4> QED
        BY <4>1 DEF Made, ProposalRows
    <3>2. \A p \in Previewers : previewing[p].at = "persist" =>
            previewing[p].proposal.version \in Nat
      BY <1>0, PreviewShapes DEF Made, ProposalRows
    <3> QED
      BY <3>1, <3>2 DEF AllMade, ToSet
  <2>12. \A made \in AllMade' : MadeFits(made)'
    BY <2>4, <2>9, <2>10, <2>11 DEF MadeFits
  <2>13. \A p \in Previewers : previewing'[p].at = "build" =>
           /\ previewing'[p].proposal.version <= previewed'.version
           /\ previewing'[p].proposal.version = previewed'.version =>
                previewing'[p].proposal = previewed'
    <3>1. \A p \in Previewers : previewing[p].at = "build" =>
            previewing[p].proposal.version \in Nat
      BY <1>0, PreviewShapes DEF Building, ProposalRows
    <3> QED
      BY <2>4, <2>5, <3>1 DEF RowRead
  <2>14. begun'.committed[previewed'.version] = previewed'.updated_at
    BY <1>0, <2>5, <2>6
  <2>15. HasLatest'
    BY <2>4 DEF HasLatest
  <2>16. \A time \in TimesTaken' : time \in Nat /\ time <= moment'
    BY <2>4, <2>9
  <2> QED
    BY <2>8, <2>12, <2>13, <2>14, <2>15, <2>16 DEF RowRead
<1>8. CASE UNCHANGED previewVars
  <2>1. /\ UNCHANGED <<previewed, begun, previewing, changing, execution_previews, moment>>
    BY <1>8 DEF previewVars
  <2>2. TimesTaken' = TimesTaken /\ AllMade' = AllMade
    BY <2>1 DEF TimesTaken, AllMade
  <2> QED
    BY <2>1, <2>2 DEF PreviewTypes, MadeFits, RowRead, HasLatest
<1> QED
  BY <1>2, <1>3, <1>4, <1>5, <1>6, <1>7, <1>8 DEF PreviewNext

\* A card that shows an OK and does not call it stale shows a proposal that can
\* still be approved or prepared near its price, unless a change with an earlier
\* time was committed after the row was read.
THEOREM FreshOkHolds == PreviewSpec => []FreshOkIsSound
<1>1. PreviewInit => PreviewInv
  <2> SUFFICES ASSUME PreviewInit  PROVE PreviewInv
    OBVIOUS
  <2>1. execution_previews = <<>> /\ begun.committed = <<>> /\ moment = 0
        /\ previewed.version = 0
    BY DEF PreviewInit
  <2>2. PreviewTypes
    BY DEF PreviewInit, PreviewTypes, ProposalRows, Waiting, NoPreview
  <2>3. TimesTaken = {} /\ AllMade = {}
    BY <2>1 DEF PreviewInit, NoPreview, TimesTaken, AllMade, ToSet
  <2> QED
    BY <2>1, <2>2, <2>3 DEF PreviewInit, PreviewInv, NoPreview, HasLatest
<1>2. PreviewInv => FreshOkIsSound
  <2> DEFINE preview == latest_preview
  <2> SUFFICES ASSUME PreviewInv, execution_previews # <<>>, review_state(preview) = "ok",
                      ~is_stale(preview),
                      ~\E v \in preview.proposal.version + 1 .. previewed.version :
                          begun.committed[v] < preview.created_at
               PROVE  /\ previewed.status \in {"pending_manual_confirmation", "approved"}
                      /\ preview.quoted \in previewed.price - 1 .. previewed.price + 1
    BY DEF FreshOkIsSound
  <2>1. \E made \in ToSet(execution_previews) :
          \A other \in ToSet(execution_previews) : other.created_at <= made.created_at
    BY DEF PreviewInv, HasLatest, ToSet
  <2>2. preview \in ToSet(execution_previews)
    BY <2>1 DEF latest_preview
  <2> HIDE DEF preview
  <2>3. preview \in Made("saved")
    BY <2>2 DEF PreviewInv, PreviewTypes, ToSet
  <2>4. MadeFits(preview)
    BY <2>2 DEF PreviewInv, AllMade
  <2>5. preview.status = "ready"
    BY <2>3 DEF review_state, Made
  <2>6. /\ preview.proposal.version \in Nat /\ previewed.version \in Nat
        /\ preview.created_at \in Nat /\ previewed.updated_at \in Nat
        /\ begun.committed \in Seq(Nat) /\ Len(begun.committed) = previewed.version
    BY <2>3 DEF PreviewInv, PreviewTypes, Made, ProposalRows
  <2>7. preview.proposal.version = previewed.version
    <3> SUFFICES ASSUME preview.proposal.version < previewed.version  PROVE FALSE
      BY <2>4, <2>6 DEF MadeFits, RowRead
    <3>1. begun.committed[previewed.version] = previewed.updated_at
      BY <2>6 DEF PreviewInv
    <3>2. previewed.updated_at \in TimesTaken
      BY <2>6, <3>1 DEF TimesTaken, ToSet
    <3>3. ~(previewed.updated_at < preview.created_at)
      <4>1. previewed.version \in preview.proposal.version + 1 .. previewed.version
        BY <2>6
      <4> QED
        BY <3>1, <4>1
    <3>4. preview.created_at = previewed.updated_at
      BY <2>6, <3>3 DEF is_stale
    <3> QED
      BY <2>4, <3>2, <3>4 DEF MadeFits
  <2>8. preview.proposal = previewed
    BY <2>4, <2>7 DEF MadeFits, RowRead
  <2> QED
    BY <2>4, <2>5, <2>8 DEF MadeFits
<1> QED
  BY <1>1, <1>2, PreviewStep, PTL DEF PreviewSpec

(***************************************************************************)
(* Signals.  Scores, confidences and sizes grow with what they are made    *)
(* from, rounding included.                                                *)
(***************************************************************************)
LEMMA DivisionIsMonotone ==
  ASSUME NEW a \in Int, NEW b \in Int, NEW d \in Nat, d > 0, a <= b
  PROVE  a \div d <= b \div d
  OBVIOUS

\* A larger feature is no weaker.
LEMMA StrengthGrows ==
  ASSUME NEW a \in Int, NEW b \in Int, a <= b
  PROVE  /\ Strength(a, 200) <= Strength(b, 200)
         /\ Strength(a, 50000) <= Strength(b, 50000)
         /\ Strength(a, 300) <= Strength(b, 300)
  BY DEF Strength, Capped, Full

\* A strength is an integer.
LEMMA StrengthIsInt ==
  ASSUME NEW a \in Int
  PROVE  /\ Strength(a, 200) \in Int /\ Strength(a, 50000) \in Int /\ Strength(a, 300) \in Int
         /\ Strength(a, 150) \in Int /\ Strength(a, 1000) \in Int
  BY DEF Strength, Capped, Full

\* A larger score is no less confident, and confidence is capped.
LEMMA ConfidenceGrows ==
  ASSUME NEW a \in Int, NEW b \in Int, a <= b
  PROVE  Confidence(a) <= Confidence(b) /\ Confidence(a) \in 0 .. Full /\ Confidence(b) \in 0 .. Full
<1> DEFINE x == (110 * Full + a) \div 200
           y == (110 * Full + b) \div 200
<1>1. Full \in Nat
  BY DEF Full
<1>2. x \in Int /\ y \in Int /\ x <= y
  <2>1. 110 * Full + a \in Int /\ 110 * Full + b \in Int /\ 110 * Full + a <= 110 * Full + b
    BY <1>1
  <2> QED
    BY <2>1, DivisionIsMonotone
<1>3. Confidence(a) = Capped(x, Full) /\ Confidence(b) = Capped(y, Full)
  BY DEF Confidence
<1> HIDE DEF x, y
<1> QED
  BY <1>1, <1>2, <1>3 DEF Capped

\* A larger confidence gives no smaller size.
LEMMA SizeGrows ==
  ASSUME NEW config \in StrategyConfigs, NEW a \in 0 .. Full, NEW b \in 0 .. Full, a <= b
  PROVE  size_fraction(config, a) <= size_fraction(config, b)
<1> DEFINE low == config.min_confidence
           cap == config.max_position_fraction
<1>1. low \in 0 .. Full /\ cap \in 0 .. Full /\ Full \in Nat
  <2>1. {low, cap} \subseteq 0 .. Full
    BY ConfigsAreChecked
  <2>2. Full \in Nat
    BY DEF Full
  <2> QED  BY <2>1, <2>2
<1>2. CASE b <= low
  BY <1>1, <1>2 DEF size_fraction
<1>3. CASE b > low
  <2>1. Full - low \in Nat /\ Full - low > 0 /\ b - low \in Nat
    BY <1>1, <1>3
  <2>2. \A m, n, k \in Nat : m <= n => k * m \in Nat /\ k * n \in Nat /\ k * m <= k * n
    OBVIOUS
  <2>3. CASE a <= low
    <3>1. cap * (b - low) \in Nat
      BY <1>1, <2>1, <2>2
    <3>2. 0 <= (cap * (b - low)) \div (Full - low)
      BY <2>1, <3>1, DivisionIsMonotone
    <3> QED  BY <1>1, <1>3, <2>3, <3>2 DEF size_fraction
  <2>4. CASE a > low
    <3>1. a - low \in Nat /\ a - low <= b - low
      BY <1>1, <2>4
    <3>2. /\ cap * (a - low) \in Nat /\ cap * (b - low) \in Nat
          /\ cap * (a - low) <= cap * (b - low)
      BY <1>1, <2>1, <2>2, <3>1
    <3>3. (cap * (a - low)) \div (Full - low) <= (cap * (b - low)) \div (Full - low)
      BY <2>1, <3>2, DivisionIsMonotone
    <3> QED  BY <1>1, <1>3, <2>4, <3>3 DEF size_fraction
  <2> QED  BY <1>1, <2>3, <2>4
<1> QED  BY <1>1, <1>2, <1>3

\* Shares are counted in 1/Full.
LEMMA FullIsNat == Full \in Nat
  BY DEF Full

\* The limits of a checked configuration are numbers.
LEMMA ConfigsAreNumbers ==
  ASSUME NEW config \in StrategyConfigs
  PROVE  /\ {config.max_spread_bps, config.min_liquidity_usd,
             config.min_time_to_resolution_seconds} \subseteq Nat
         /\ config.min_confidence \in 0 .. Full /\ config.max_position_fraction \in 0 .. Full
  BY ConfigsAreChecked

\* What a snapshot counts is a natural number.
LEMMA FeaturesAreNaturals ==
  ASSUME NEW f \in FeatureSnapshots
  PROVE  f.liquidity \in Nat /\ f.spread \in Nat /\ f.seconds \in Nat
<1> DEFINE Probabilities == 0 .. 1000
<1>1. f \in [liquidity : Nat, spread : Nat, seconds : Nat, probability : Probabilities,
             btc_move : Int, pm_move : Int, recent_move : Int, news : BOOLEAN]
  BY FeaturesAreCounts
<1> HIDE DEF Probabilities
<1> QED
  BY <1>1

\* What a better market has in common with the other, and where it is better.
LEMMA BetterMarket ==
  ASSUME NEW f \in FeatureSnapshots, NEW g \in FeatureSnapshots, NoWorse(f, g)
  PROVE  /\ f.probability = g.probability /\ f.news = g.news
         /\ f.btc_move = g.btc_move /\ f.pm_move = g.pm_move /\ f.recent_move = g.recent_move
         /\ f.liquidity >= g.liquidity /\ f.spread <= g.spread /\ f.seconds >= g.seconds
<1> DEFINE Features == [liquidity : Nat, spread : Nat, seconds : Nat, probability : 0 .. 1000,
                        btc_move : Int, pm_move : Int, recent_move : Int, news : BOOLEAN]
<1>1. g \in Features
  BY FeaturesAreCounts
<1>2. f = [g EXCEPT !.liquidity = f.liquidity, !.spread = f.spread, !.seconds = f.seconds]
  BY DEF NoWorse
<1>3. /\ f.probability = g.probability /\ f.news = g.news
      /\ f.btc_move = g.btc_move /\ f.pm_move = g.pm_move /\ f.recent_move = g.recent_move
  BY ZenonT(60), <1>1, <1>2
<1> QED  BY <1>3 DEF NoWorse

\* The momentum scorer signals the same side in a better market, as confidently or more.
LEMMA MomentumGrows ==
  ASSUME NEW f \in FeatureSnapshots, NEW g \in FeatureSnapshots, NoWorse(f, g),
         score_momentum_lag(g).direction # "skip"
  PROVE  /\ score_momentum_lag(f).type = "momentum_lag" /\ score_momentum_lag(g).type = "momentum_lag"
         /\ score_momentum_lag(f).direction = score_momentum_lag(g).direction
         /\ score_momentum_lag(f).confidence >= score_momentum_lag(g).confidence
         /\ {score_momentum_lag(f).confidence, score_momentum_lag(g).confidence} \subseteq 0 .. Full
<1> DEFINE lag(h) == Magnitude(h.btc_move) - Magnitude(h.pm_move)
           fixed(h) == 40 * Strength(Magnitude(h.btc_move), 200) + 30 * Strength(lag(h), 200)
           raw(h) == fixed(h) + 20 * Strength(h.liquidity, 50000) - 25 * Strength(h.spread, 300)
                       - 20 * ResolutionPenalty(h)
<1>1. f.btc_move = g.btc_move /\ f.pm_move = g.pm_move
      /\ f.liquidity >= g.liquidity /\ f.spread <= g.spread /\ f.seconds >= g.seconds
  BY BetterMarket
<1>2. /\ {g.btc_move, g.pm_move} \subseteq Int
      /\ {f.liquidity, g.liquidity, f.spread, g.spread, f.seconds, g.seconds} \subseteq Int
  BY FeaturesAreCounts
<1>3. lag(g) \in Int /\ Magnitude(g.btc_move) \in Int
  BY <1>2 DEF Magnitude
<1>4. fixed(g) \in Int /\ fixed(f) = fixed(g)
  BY <1>1, <1>3, StrengthIsInt
<1>5. /\ Strength(f.liquidity, 50000) \in Int /\ Strength(g.liquidity, 50000) \in Int
      /\ Strength(f.liquidity, 50000) >= Strength(g.liquidity, 50000)
  <2>1. f.liquidity \in Int /\ g.liquidity \in Int /\ g.liquidity <= f.liquidity
    BY <1>1, <1>2
  <2>2. Strength(g.liquidity, 50000) <= Strength(f.liquidity, 50000)
    BY <2>1, StrengthGrows
  <2>3. Strength(g.liquidity, 50000) \in Int /\ Strength(f.liquidity, 50000) \in Int
    BY <2>1, StrengthIsInt
  <2> QED  BY <2>2, <2>3
<1>6. /\ Strength(f.spread, 300) \in Int /\ Strength(g.spread, 300) \in Int
      /\ Strength(f.spread, 300) <= Strength(g.spread, 300)
  <2>1. f.spread \in Int /\ g.spread \in Int /\ f.spread <= g.spread
    BY <1>1, <1>2
  <2>2. Strength(f.spread, 300) <= Strength(g.spread, 300)
    BY <2>1, StrengthGrows
  <2>3. Strength(f.spread, 300) \in Int /\ Strength(g.spread, 300) \in Int
    BY <2>1, StrengthIsInt
  <2> QED  BY <2>2, <2>3
<1>7. /\ ResolutionPenalty(f) \in Int /\ ResolutionPenalty(g) \in Int
      /\ ResolutionPenalty(f) <= ResolutionPenalty(g)
  BY <1>1, <1>2 DEF ResolutionPenalty, Full
<1> HIDE DEF fixed
<1>8. raw(g) \in Int /\ raw(f) \in Int /\ raw(g) <= raw(f)
  BY <1>4, <1>5, <1>6, <1>7
<1> USE DEF fixed
<1>9. /\ lag(g) > 0 /\ Magnitude(g.btc_move) >= 30
      /\ score_momentum_lag(g) = [type |-> "momentum_lag",
                                  direction |-> IF g.btc_move > 0 THEN "yes" ELSE "no",
                                  confidence |-> Confidence(raw(g))]
      /\ score_momentum_lag(f) = [type |-> "momentum_lag",
                                  direction |-> IF f.btc_move > 0 THEN "yes" ELSE "no",
                                  confidence |-> Confidence(raw(f))]
  BY <1>1, <1>3 DEF score_momentum_lag, Skip
<1> HIDE DEF raw
<1>10. /\ Confidence(raw(g)) <= Confidence(raw(f))
       /\ Confidence(raw(g)) \in 0 .. Full /\ Confidence(raw(f)) \in 0 .. Full
  BY <1>8, ConfidenceGrows
<1> QED  BY <1>1, <1>9, <1>10

\* So does the mean reversion scorer.
LEMMA ReversionGrows ==
  ASSUME NEW f \in FeatureSnapshots, NEW g \in FeatureSnapshots, NoWorse(f, g),
         score_mean_reversion(g).direction # "skip"
  PROVE  /\ score_mean_reversion(f).type = "mean_reversion" /\ score_mean_reversion(g).type = "mean_reversion"
         /\ score_mean_reversion(f).direction = score_mean_reversion(g).direction
         /\ score_mean_reversion(f).confidence >= score_mean_reversion(g).confidence
         /\ {score_mean_reversion(f).confidence, score_mean_reversion(g).confidence} \subseteq 0 .. Full
<1> DEFINE over(h) == IF h.probability >= 500 THEN h.probability - 800 ELSE 200 - h.probability
           extreme(h) == 45 * Strength(over(h), 150)
           settled(h) == 30 * Strength(Magnitude(h.recent_move), 1000)
           raw(h) == extreme(h) + 20 * Strength(h.liquidity, 50000) - 25 * Strength(h.spread, 300)
                       - settled(h)
<1>1. /\ f.probability = g.probability /\ f.recent_move = g.recent_move /\ f.news = g.news
      /\ f.liquidity >= g.liquidity /\ f.spread <= g.spread
  BY BetterMarket
<1>2. /\ g.recent_move \in Int /\ g.probability \in Int
      /\ f.liquidity \in Int /\ g.liquidity \in Int /\ f.spread \in Int /\ g.spread \in Int
  BY FeaturesAreCounts
<1>3. over(g) \in Int /\ Magnitude(g.recent_move) \in Int
  BY <1>2 DEF Magnitude
<1>4. extreme(g) \in Int /\ settled(g) \in Int /\ extreme(f) = extreme(g) /\ settled(f) = settled(g)
  <2>1. Strength(over(g), 150) \in Int /\ Strength(Magnitude(g.recent_move), 1000) \in Int
    BY SMTT(60), <1>3, StrengthIsInt
  <2> QED  BY <1>1, <2>1
<1>5. /\ Strength(f.liquidity, 50000) \in Int /\ Strength(g.liquidity, 50000) \in Int
      /\ Strength(f.liquidity, 50000) >= Strength(g.liquidity, 50000)
  <2>1. Strength(g.liquidity, 50000) <= Strength(f.liquidity, 50000)
    BY <1>1, <1>2, StrengthGrows
  <2>2. Strength(g.liquidity, 50000) \in Int /\ Strength(f.liquidity, 50000) \in Int
    BY <1>2, StrengthIsInt
  <2> QED  BY <2>1, <2>2
<1>6. /\ Strength(f.spread, 300) \in Int /\ Strength(g.spread, 300) \in Int
      /\ Strength(f.spread, 300) <= Strength(g.spread, 300)
  <2>1. Strength(f.spread, 300) <= Strength(g.spread, 300)
    BY <1>1, <1>2, StrengthGrows
  <2>2. Strength(f.spread, 300) \in Int /\ Strength(g.spread, 300) \in Int
    BY <1>2, StrengthIsInt
  <2> QED  BY <2>1, <2>2
<1> HIDE DEF extreme, settled
<1>7. raw(g) \in Int /\ raw(f) \in Int /\ raw(g) <= raw(f)
  BY <1>4, <1>5, <1>6
<1> USE DEF extreme, settled
<1>8. /\ score_mean_reversion(g) = [type |-> "mean_reversion", direction |-> ReversionSide(g),
                                    confidence |-> Confidence(raw(g))]
      /\ score_mean_reversion(f) = [type |-> "mean_reversion", direction |-> ReversionSide(f),
                                    confidence |-> Confidence(raw(f))]
  BY <1>1, <1>3 DEF score_mean_reversion, Skip
<1> HIDE DEF raw
<1>9. /\ Confidence(raw(g)) <= Confidence(raw(f))
      /\ Confidence(raw(g)) \in 0 .. Full /\ Confidence(raw(f)) \in 0 .. Full
  BY <1>7, ConfidenceGrows
<1>10. ReversionSide(f) = ReversionSide(g)
  BY <1>1 DEF ReversionSide
<1> QED  BY <1>8, <1>9, <1>10

\* What the admission lets through, and what the last two checks leave to sizing.
LEMMA Admitted ==
  ASSUME NEW config, NEW signal, NEW f, NEW auto
  PROVE  rejection_code(config, signal, f, auto) = "none" <=>
           /\ config.enabled /\ strategy_enabled(config, signal.type)
           /\ signal.direction # "skip" /\ ~auto /\ ~config.auto_execute
           /\ ~(f.seconds < config.min_time_to_resolution_seconds)
           /\ ~(f.liquidity < config.min_liquidity_usd)
           /\ ~(f.spread > config.max_spread_bps)
           /\ ~(signal.confidence < config.min_confidence)
  BY DEF rejection_code

\* An accepted decision is of one of the two scorers that take a side.
LEMMA AcceptedIsScored ==
  ASSUME NEW config, NEW f, NEW auto, NEW d \in Accepted(Decisions(config, f, auto))
  PROVE  \E s \in {score_momentum_lag(f), score_mean_reversion(f)} :
           /\ d = Decision(config, s, f, auto) /\ s \in ScoredSignals(config, f)
           /\ rejection_code(config, s, f, auto) = "none"
           /\ d.signal = s /\ d.size_fraction = size_fraction(config, s.confidence)
<1>1. config.enabled /\ d.rejection_code = "none"
      /\ d \in {Decision(config, signal, f, auto) : signal \in ScoredSignals(config, f)}
  BY DEF Accepted, Decisions
<1>2. PICK s \in ScoredSignals(config, f) : d = Decision(config, s, f, auto)
  BY <1>1
<1>3. rejection_code(config, s, f, auto) = "none"
      /\ d.signal = s /\ d.size_fraction = size_fraction(config, s.confidence)
  BY <1>1, <1>2 DEF Decision
<1>4. s # Skip("mispricing")
  BY <1>3, Admitted DEF Skip
<1> QED  BY <1>2, <1>3, <1>4 DEF ScoredSignals

\* A signal that is no worse is accepted where the other one was.
LEMMA AcceptedAgain ==
  ASSUME NEW config \in StrategyConfigs, NEW f \in FeatureSnapshots, NEW g \in FeatureSnapshots,
         NoWorse(f, g), NEW auto, NEW s,
         NEW t \in {score_momentum_lag(f), score_mean_reversion(f)},
         rejection_code(config, s, g, auto) = "none",
         t.type = s.type, t.direction = s.direction, t.confidence >= s.confidence,
         s.confidence \in 0 .. Full, t.confidence \in 0 .. Full
  PROVE  \E e \in Accepted(Decisions(config, f, auto)) :
           /\ e.signal.type = s.type /\ e.signal.direction = s.direction
           /\ e.size_fraction >= size_fraction(config, s.confidence)
<1>1. /\ f.liquidity \in Int /\ g.liquidity \in Int /\ f.liquidity >= g.liquidity
      /\ f.spread \in Int /\ g.spread \in Int /\ f.spread <= g.spread
      /\ f.seconds \in Int /\ g.seconds \in Int /\ f.seconds >= g.seconds
  <2>1. /\ f.liquidity \in Nat /\ f.spread \in Nat /\ f.seconds \in Nat
        /\ g.liquidity \in Nat /\ g.spread \in Nat /\ g.seconds \in Nat
    BY FeaturesAreNaturals
  <2>2. f.liquidity >= g.liquidity /\ f.spread <= g.spread /\ f.seconds >= g.seconds
    BY BetterMarket
  <2> QED
    BY <2>1, <2>2
<1>2. /\ {config.max_spread_bps, config.min_liquidity_usd,
          config.min_time_to_resolution_seconds} \subseteq Nat
      /\ config.min_confidence \in 0 .. Full
  BY ConfigsAreNumbers
<1>3. Full \in Nat
  BY FullIsNat
<1>4. /\ config.enabled /\ strategy_enabled(config, s.type)
      /\ s.direction # "skip" /\ ~auto /\ ~config.auto_execute
      /\ ~(g.seconds < config.min_time_to_resolution_seconds)
      /\ ~(g.liquidity < config.min_liquidity_usd)
      /\ ~(g.spread > config.max_spread_bps)
      /\ ~(s.confidence < config.min_confidence)
  BY Admitted
<1>5. /\ ~(f.seconds < config.min_time_to_resolution_seconds)
      /\ ~(f.liquidity < config.min_liquidity_usd)
      /\ ~(f.spread > config.max_spread_bps)
      /\ ~(t.confidence < config.min_confidence)
  BY <1>1, <1>2, <1>3, <1>4
<1>6. rejection_code(config, t, f, auto) = "none"
  BY <1>4, <1>5, Admitted
<1>7. t \in ScoredSignals(config, f)
  BY <1>4 DEF ScoredSignals
<1> DEFINE e == Decision(config, t, f, auto)
<1>8. e \in Accepted(Decisions(config, f, auto)) /\ e.signal = t
      /\ e.size_fraction = size_fraction(config, t.confidence)
  BY <1>4, <1>6, <1>7 DEF Accepted, Decisions, Decision
<1>9. size_fraction(config, t.confidence) >= size_fraction(config, s.confidence)
  BY SizeGrows, <1>3
<1> QED  BY <1>8, <1>9

SignalsInv ==
  \/ last_evaluation.decisions = {}
  \/ /\ last_evaluation.features \in FeatureSnapshots
     /\ strategies \in StrategyConfigs
     /\ last_evaluation.decisions
          = Decisions(strategies, last_evaluation.features, last_evaluation.auto)

\* What was decided is what the engine decides on some features and a checked configuration.
LEMMA SignalsInvHolds == SignalsSpec => [](strategies \in StrategyConfigs /\ SignalsInv)
<1>1. SignalsInit => strategies \in StrategyConfigs /\ SignalsInv
  BY DEF SignalsInit, SignalsInv
<1>2. (strategies \in StrategyConfigs /\ SignalsInv) /\ [SignalsNext]_signalVars
        => (strategies \in StrategyConfigs /\ SignalsInv)'
  BY DEF SignalsInv, SignalsNext, evaluate, signalVars
<1> QED  BY <1>1, <1>2, PTL DEF SignalsSpec

\* What the engine accepts it would have accepted in a more liquid, tighter market
\* with more time too, on the same side and with no smaller size: the weights, the
\* penalties, the filters and the roundings all pull the same way.
THEOREM BetterMarketsAreTaken == SignalsSpec => []BetterMarketsSignalMore
<1>1. ASSUME SignalsInv, NEW d \in Accepted(last_evaluation.decisions),
             NEW f \in FeatureSnapshots, NoWorse(f, last_evaluation.features)
      PROVE  \E e \in Accepted(Decisions(strategies, f, last_evaluation.auto)) :
               /\ e.signal.type = d.signal.type /\ e.signal.direction = d.signal.direction
               /\ e.size_fraction >= d.size_fraction
  <2> DEFINE g == last_evaluation.features
             auto == last_evaluation.auto
  <2>1. /\ g \in FeatureSnapshots /\ strategies \in StrategyConfigs
        /\ d \in Accepted(Decisions(strategies, g, auto))
    BY <1>1 DEF SignalsInv, Accepted
  <2>2. PICK s \in {score_momentum_lag(g), score_mean_reversion(g)} :
          /\ rejection_code(strategies, s, g, auto) = "none"
          /\ d.signal = s /\ d.size_fraction = size_fraction(strategies, s.confidence)
    BY <2>1, AcceptedIsScored
  <2>3. s.direction # "skip"
    BY <2>2, Admitted
  <2>4. \E t \in {score_momentum_lag(f), score_mean_reversion(f)} :
          /\ t.type = s.type /\ t.direction = s.direction /\ t.confidence >= s.confidence
          /\ s.confidence \in 0 .. Full /\ t.confidence \in 0 .. Full
    BY <1>1, <2>1, <2>2, <2>3, MomentumGrows, ReversionGrows
  <2> QED  BY <1>1, <2>1, <2>2, <2>4, AcceptedAgain
<1>2. SignalsInv => BetterMarketsSignalMore
  BY <1>1 DEF BetterMarketsSignalMore
<1> QED  BY <1>2, SignalsInvHolds, PTL

\* One evaluation accepts both sides of a market only when BTC moves toward an
\* extreme the market has already reached without news.
THEOREM BothSidesAreExplained == SignalsSpec => []OppositeSidesExplained
<1>1. ASSUME NEW f \in FeatureSnapshots
      PROVE  /\ score_momentum_lag(f).direction = "yes" => f.btc_move > 0
             /\ score_momentum_lag(f).direction = "no" => f.btc_move < 0
  <2>1. f.btc_move \in Int
    BY FeaturesAreCounts
  <2> QED  BY <2>1 DEF score_momentum_lag, Skip, Magnitude
<1>2. ASSUME NEW f \in FeatureSnapshots
      PROVE  /\ score_mean_reversion(f).direction = "no" => ~f.news /\ f.probability > 800
             /\ score_mean_reversion(f).direction = "yes" => ~f.news /\ f.probability < 200
  <2>1. f.probability \in Int
    BY FeaturesAreCounts
  <2> QED  BY <2>1 DEF score_mean_reversion, ReversionSide, Skip
<1>3. ASSUME SignalsInv,
             NEW d \in Accepted(last_evaluation.decisions), d.signal.direction = "yes",
             NEW e \in Accepted(last_evaluation.decisions), e.signal.direction = "no"
      PROVE  LET f == last_evaluation.features
             IN  /\ ~f.news
                 /\ \/ f.probability > 800 /\ f.btc_move > 0
                    \/ f.probability < 200 /\ f.btc_move < 0
  <2> DEFINE f == last_evaluation.features
             auto == last_evaluation.auto
  <2>1. /\ f \in FeatureSnapshots
        /\ d \in Accepted(Decisions(strategies, f, auto))
        /\ e \in Accepted(Decisions(strategies, f, auto))
    BY <1>3 DEF SignalsInv, Accepted
  <2>2. d.signal \in {score_momentum_lag(f), score_mean_reversion(f)}
        /\ e.signal \in {score_momentum_lag(f), score_mean_reversion(f)}
    BY <2>1, AcceptedIsScored
  <2>3. d.signal # e.signal
    BY <1>3
  <2> QED  BY <1>1, <1>2, <1>3, <2>1, <2>2, <2>3
<1>4. SignalsInv => OppositeSidesExplained
  BY <1>3 DEF OppositeSidesExplained
<1> QED  BY <1>4, SignalsInvHolds, PTL
===============================================================================
