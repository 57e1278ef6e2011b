----------------------- MODULE ProposalLifecycleProofs -----------------------
(***************************************************************************)
(* Theorems about ProposalLifecycle for any number of clients, proposals,  *)
(* operations and crashes: the types, what an approval rests on, and what  *)
(* the review and audit trails of a proposal say of its row.  With one     *)
(* client at a time the reviews and the newest snapshot tell the whole     *)
(* truth, and every commit is a step of ProposalContract: none of the      *)
(* three holds with two.                                                   *)
(***************************************************************************)
EXTENDS ProposalLifecycle, FiniteSets, FiniteSetTheorems, TLAPS

Labels == Transitions \cup Notes

USE DEF Absent, Pending, Approved, PolicyRejected, Cancelled

(***************************************************************************)
(* Type correctness                                                        *)
(***************************************************************************)
\* Rounding a typed size that passed the guard stays within the cap.
LEMMA RoundedSize ==
  ASSUME NEW x \in Int, 0 < x, x <= 10 * MaxAllowedSize
  PROVE  Rounded(x) \in Sizes
BY SizesAssumption DEF Rounded, Sizes

\* Rounding a typed price that passed the guard stays within 0 .. 1.
LEMMA RoundedPrice ==
  ASSUME NEW x \in Int, 0 < x, x <= 100000
  PROVE  Rounded(x) \in Prices
BY DEF Rounded, Prices

\* A row that only changes its status and timestamp is still a row.
LEMMA MovedType ==
  ASSUME TypeOK, NEW row \in Row, NEW status \in Statuses
  PROVE  Moved(row, status) \in Row
BY DEF TypeOK, Moved, Row

\* The absent row is a row.
LEMMA BlankType == Blank \in Row
BY ViewsAssumption, SizesAssumption, BoundsAssumption
   DEF Blank, Row, Statuses, Sizes, Prices, Time

\* The operation of an idle client is an operation.
LEMMA IdleOpType == IdleOp \in Op
BY BlankType, IdsAssumption, BoundsAssumption
   DEF IdleOp, Op, Steps, Transitions, Time

\* Whatever an operation read and decided, starting it keeps the types.
LEMMA BeginType ==
  ASSUME TypeOK, NEW c \in Clients, NEW q \in Proposals, NEW step \in Steps,
         NEW action \in Labels, NEW row \in Row, Begin(c, step, action, q, row)
  PROVE  TypeOK'
<1> DEFINE new == [step |-> step, action |-> action, id |-> q,
                   row |-> row, at |-> clock, queue |-> {}]
<1>1. new \in Op
  BY DEF TypeOK, Op, Labels
<1>2. op' \in [Clients -> Op]
  BY <1>1 DEF TypeOK, Begin
<1>3. started' \in 0 .. MaxOps
  BY BoundsAssumption DEF TypeOK, Begin
<1> QED
  BY <1>2, <1>3 DEF TypeOK, Begin, db

\* The review an operation records is a review, and tells the status it leaves.
LEMMA EntryShape ==
  ASSUME NEW o \in Op
  PROVE  /\ Entry(o) \in Review /\ Entry(o).action = o.action /\ Entry(o).at = o.at
         /\ Entry(o).size = IF o.action \in {"edit_size", "approve"} THEN o.row.size ELSE Unsaid
         /\ Entry(o).price = IF o.action \in {"edit_price", "approve"} THEN o.row.price ELSE Unsaid
         /\ o.action = "create" => Entry(o).status = o.row.status
BY DEF Entry, Review, Op, Row, Statuses

\* Requests keep the types.
LEMMA RequestType ==
  ASSUME TypeOK, NEW c \in Clients, Request(c)
  PROVE  TypeOK'
<1> USE DEF Labels, Steps, Transitions, Notes
<1>1. ASSUME NEW q \in Proposals, create(c, q)  PROVE TypeOK'
  <2>1. PICK view \in Views, size \in RecommendedSizes :
          Begin(c, "save", "create", q,
             [status |-> IF <<size, view>> \in Allowed THEN Pending ELSE PolicyRejected,
              size |-> size, price |-> MidPrice[view],
              drafted |-> <<size, MidPrice[view]>>, view |-> view,
              updated |-> clock, expires |-> clock + TTL])
    BY <1>1 DEF create
  <2>2. [status |-> IF <<size, view>> \in Allowed THEN Pending ELSE PolicyRejected,
         size |-> size, price |-> MidPrice[view],
         drafted |-> <<size, MidPrice[view]>>, view |-> view,
         updated |-> clock, expires |-> clock + TTL] \in Row
    <3>1. clock + TTL \in 0 .. (MaxTime + TTL)
      BY BoundsAssumption DEF TypeOK, Time
    <3>2. size \in Sizes /\ MidPrice[view] \in Prices /\ clock \in Time
      BY SizesAssumption, ViewsAssumption DEF TypeOK
    <3> QED
      BY <3>1, <3>2 DEF Row, Statuses
  <2> QED
    BY <2>1, <2>2, BeginType
<1>2. ASSUME NEW q \in Proposals, edit_size(c, q)  PROVE TypeOK'
  <2>1. PICK amount \in TypedAmounts :
          /\ 0 < amount /\ amount <= 10 * MaxAllowedSize
          /\ Begin(c, "save", "edit_size", q,
                   [Moved(rows[q], Pending) EXCEPT !.size = Rounded(amount)])
    BY <1>2 DEF edit_size
  <2>2. Moved(rows[q], Pending) \in Row
    BY MovedType DEF TypeOK, Statuses
  <2>3. Rounded(amount) \in Sizes
    BY <2>1, RoundedSize, TypedAssumption
  <2>4. [Moved(rows[q], Pending) EXCEPT !.size = Rounded(amount)] \in Row
    BY <2>2, <2>3 DEF Row
  <2> QED
    BY <2>1, <2>4, BeginType
<1>3. ASSUME NEW q \in Proposals, edit_price(c, q)  PROVE TypeOK'
  <2>1. PICK price \in TypedPrices :
          /\ 0 < price /\ price <= 100000
          /\ Begin(c, "save", "edit_price", q,
                   [Moved(rows[q], Pending) EXCEPT !.price = Rounded(price)])
    BY <1>3 DEF edit_price
  <2>2. Moved(rows[q], Pending) \in Row
    BY MovedType DEF TypeOK, Statuses
  <2>3. Rounded(price) \in Prices
    BY <2>1, RoundedPrice, TypedAssumption
  <2>4. [Moved(rows[q], Pending) EXCEPT !.price = Rounded(price)] \in Row
    BY <2>2, <2>3 DEF Row
  <2> QED
    BY <2>1, <2>4, BeginType
<1>4. ASSUME NEW q \in Proposals, reject(c, q) \/ cancel(c, q)  PROVE TypeOK'
  <2>1. Moved(rows[q], Cancelled) \in Row
    BY MovedType DEF TypeOK, Statuses
  <2> QED
    BY <1>4, <2>1, BeginType DEF reject, cancel
<1>5. ASSUME NEW q \in Proposals, approve(c, q)  PROVE TypeOK'
  <2>1. Moved(rows[q], Cancelled) \in Row /\ rows[q] \in Row
    BY MovedType DEF TypeOK, Statuses
  <2> QED
    BY <1>5, <2>1, BeginType DEF approve
<1>6. ASSUME NEW q \in Proposals, request_additional_analysis(c, q)  PROVE TypeOK'
  BY <1>6, BeginType DEF request_additional_analysis, TypeOK
<1>7. CASE expire_stale(c)
  <2> DEFINE stale == {[id |-> q, row |-> Moved(rows[q], Cancelled)] :
                q \in {p \in Proposals : rows[p].status = Pending /\ Expired(rows[p])}}
  <2>1. PICK item \in stale :
          /\ started < MaxOps
          /\ started' = started + 1
          /\ op' = [op EXCEPT ![c] = [step |-> "save", action |-> "expire",
                                      id |-> item.id, row |-> item.row, at |-> clock,
                                      queue |-> stale \ {item}]]
          /\ UNCHANGED <<db, clock, crashes>>
    BY <1>7 DEF expire_stale
  <2>2. stale \subseteq [id : Proposals, row : Row]
    BY MovedType DEF TypeOK, Statuses
  <2> HIDE DEF stale
  <2>3. item.id \in Proposals /\ item.row \in Row
    BY <2>2
  <2>4. [step |-> "save", action |-> "expire", id |-> item.id, row |-> item.row,
         at |-> clock, queue |-> stale \ {item}] \in Op
    BY <2>2, <2>3 DEF TypeOK, Op
  <2>5. op' \in [Clients -> Op]
    BY <2>1, <2>4 DEF TypeOK
  <2>6. started' \in 0 .. MaxOps
    BY <2>1, BoundsAssumption DEF TypeOK
  <2> QED
    BY <2>1, <2>5, <2>6 DEF TypeOK, db
<1> QED
  BY <1>1, <1>2, <1>3, <1>4, <1>5, <1>6, <1>7 DEF Request

\* The rest of an operation keeps the types.
LEMMA ProceedType ==
  ASSUME TypeOK, NEW c \in Clients, Proceed(c)
  PROVE  TypeOK'
<1> USE DEF Labels, Steps, Transitions, Notes
<1>0. op[c] \in Op
  BY DEF TypeOK
<1>1. CASE ReceiveSnapshot(c)
  <2>1. PICK view \in Views :
          op' = [op EXCEPT ![c] =
                   [op[c] EXCEPT !.step = "save",
                      !.row = Revalidated(op[c].row, view, op[c].at),
                      !.action = IF Revalidated(op[c].row, view, op[c].at).status = Approved
                                 THEN "approve" ELSE "revalidate_reject"]]
    BY <1>1 DEF ReceiveSnapshot
  <2>2. Revalidated(op[c].row, view, op[c].at) \in Row
    BY <1>0 DEF Op, Row, Revalidated, Statuses
  <2>3. op' \in [Clients -> Op]
    BY <1>0, <2>1, <2>2 DEF TypeOK, Op
  <2> QED
    BY <1>1, <2>3 DEF TypeOK, ReceiveSnapshot, db
<1>2. CASE SnapshotFails(c)
  <2>1. op' \in [Clients -> Op]
    BY <1>0, <1>2 DEF TypeOK, Op, SnapshotFails
  <2> QED
    BY <1>2, <2>1 DEF TypeOK, SnapshotFails, db
<1>3. CASE SaveRow(c)
  <2>1. op' \in [Clients -> Op]
    BY <1>0, <1>3 DEF TypeOK, Op, SaveRow, Goto
  <2>2. rows' \in [Proposals -> Row]
    BY <1>0, <1>3 DEF TypeOK, Op, SaveRow
  <2> QED
    BY <1>3, <2>1, <2>2 DEF TypeOK, SaveRow
<1>4. CASE SaveProbabilitySnapshot(c)
  <2>1. op' \in [Clients -> Op]
    BY <1>0, <1>4 DEF TypeOK, Op, SaveProbabilitySnapshot, Goto
  <2>2. [at |-> op[c].at, view |-> op[c].row.view] \in Evidence
    BY <1>0 DEF Op, Row, Evidence
  <2>3. psnaps' \in [Proposals -> Seq(Evidence)]
    BY <1>0, <1>4, <2>2 DEF TypeOK, Op, SaveProbabilitySnapshot
  <2> QED
    BY <1>4, <2>1, <2>3 DEF TypeOK, SaveProbabilitySnapshot
<1>5. CASE RecordReview(c)
  <2>1. op' \in [Clients -> Op]
    BY <1>0, <1>5 DEF TypeOK, Op, RecordReview, Goto
  <2>2. Entry(op[c]) \in Review
    BY <1>0, EntryShape
  <2>3. reviews' \in [Proposals -> Seq(Review)]
    BY <1>0, <1>5, <2>2 DEF TypeOK, Op, RecordReview
  <2> QED
    BY <1>5, <2>1, <2>3 DEF TypeOK, RecordReview
<1>6. CASE RecordAudit(c)
  <2>1. op' \in [Clients -> Op]
    <3>1. CASE op' = [op EXCEPT ![c] = IdleOp]
      BY <3>1, IdleOpType DEF TypeOK
    <3>2. ASSUME NEW item \in op[c].queue,
                 op' = [op EXCEPT ![c] = NextItem(op[c], item)]
          PROVE  op' \in [Clients -> Op]
      <4>1. NextItem(op[c], item) \in Op
        BY <1>0 DEF Op, NextItem
      <4> QED
        BY <3>2, <4>1 DEF TypeOK
    <3> QED
      BY <1>6, <3>1, <3>2 DEF RecordAudit
  <2>2. audits' \in [Proposals -> Nat]
    <3>1. audits' = [audits EXCEPT ![op[c].id] = audits[op[c].id] + 1]
      BY <1>6 DEF RecordAudit
    <3>2. op[c].id \in Proposals
      BY <1>0 DEF Op
    <3> QED
      BY <3>1, <3>2 DEF TypeOK
  <2> QED
    BY <1>6, <2>1, <2>2 DEF TypeOK, RecordAudit
<1> QED
  BY <1>1, <1>2, <1>3, <1>4, <1>5, <1>6 DEF Proceed

\* Every step keeps the types.
LEMMA TypeStep == TypeOK /\ [Next]_vars => TypeOK'
<1> SUFFICES ASSUME TypeOK, [Next]_vars  PROVE TypeOK'
  OBVIOUS
<1>1. ASSUME NEW c \in Clients, Crash(c)  PROVE TypeOK'
  <2>1. op' \in [Clients -> Op]
    BY <1>1, IdleOpType DEF TypeOK, Crash
  <2>2. crashes' \in 0 .. MaxCrashes
    BY <1>1, BoundsAssumption DEF TypeOK, Crash
  <2> QED
    BY <1>1, <2>1, <2>2 DEF TypeOK, Crash, db
<1>2. CASE Tick
  BY <1>2, BoundsAssumption DEF TypeOK, Tick, db, Time
<1>3. CASE UNCHANGED vars
  BY <1>3 DEF TypeOK, vars
<1> QED
  BY <1>1, <1>2, <1>3, RequestType, ProceedType DEF Next, Exhausted

\* Every committed row, review, snapshot and running operation has its type; in
\* particular no row ever holds a size above the cap.
THEOREM TypeCorrect == Spec => []TypeOK
<1>1. Init => TypeOK
  BY BlankType, IdleOpType, BoundsAssumption DEF Init, TypeOK, Time
<1> QED
  BY <1>1, TypeStep, PTL DEF Spec

(***************************************************************************)
(* An approved row was revalidated                                         *)
(*                                                                         *)
(* The property speaks of committed rows only.  It is not inductive: what  *)
(* is committed comes from the copy a client carries, so the invariant has *)
(* to say what the copies are worth while the operation is on its way.     *)
(***************************************************************************)
Warranted(row) ==
  row.status = Approved => <<row.size, row.view>> \in Allowed /\ row.updated < row.expires

\* About to be committed: warranted.  Waiting for the network: requested in
\* time.  Waiting in expire_stale()'s loop: cancelled.
CopiesAreWarranted ==
  \A c \in Clients :
    /\ op[c].step = "save" => Warranted(op[c].row)
    /\ op[c].step = "snapshot" => op[c].at < op[c].row.expires
    /\ \A item \in op[c].queue : item.row.status = Cancelled

RowsAreWarranted == \A q \in Proposals : Warranted(rows[q])

WarrantInv == TypeOK /\ RowsAreWarranted /\ CopiesAreWarranted

\* A started operation carries a warranted copy if its first commit is due.
LEMMA BeginWarranted ==
  ASSUME WarrantInv, NEW c \in Clients, NEW q \in Proposals, NEW step, NEW action,
         NEW row, Begin(c, step, action, q, row),
         step = "save" => Warranted(row),
         step = "snapshot" => clock < row.expires
  PROVE  RowsAreWarranted' /\ CopiesAreWarranted'
<1>1. op[c] \in Op /\ op \in [Clients -> Op]
  BY DEF WarrantInv, TypeOK
<1>2. RowsAreWarranted'
  BY DEF WarrantInv, RowsAreWarranted, Warranted, Begin, db
<1>3. CopiesAreWarranted'
  BY <1>1 DEF WarrantInv, CopiesAreWarranted, Warranted, Begin
<1> QED
  BY <1>2, <1>3

\* A request commits nothing, and the copy it takes is warranted as the row is.
LEMMA RequestWarranted ==
  ASSUME WarrantInv, NEW c \in Clients, Request(c)
  PROVE  RowsAreWarranted' /\ CopiesAreWarranted'
<1>0. TypeOK
  BY DEF WarrantInv
<1>1. ASSUME NEW q \in Proposals, create(c, q)
      PROVE  RowsAreWarranted' /\ CopiesAreWarranted'
  BY <1>1, BeginWarranted DEF create, Warranted
<1>2. ASSUME NEW q \in Proposals, edit_size(c, q) \/ edit_price(c, q)
      PROVE  RowsAreWarranted' /\ CopiesAreWarranted'
  <2>1. CASE edit_size(c, q)
    <3>1. PICK amount \in TypedAmounts :
            Begin(c, "save", "edit_size", q,
                  [Moved(rows[q], Pending) EXCEPT !.size = Rounded(amount)])
      BY <2>1 DEF edit_size
    <3>2. Warranted([Moved(rows[q], Pending) EXCEPT !.size = Rounded(amount)])
      BY <1>0 DEF TypeOK, Row, Moved, Warranted, Pending, Approved
    <3> QED
      BY <3>1, <3>2, BeginWarranted
  <2>2. CASE edit_price(c, q)
    <3>1. PICK price \in TypedPrices :
            Begin(c, "save", "edit_price", q,
                  [Moved(rows[q], Pending) EXCEPT !.price = Rounded(price)])
      BY <2>2 DEF edit_price
    <3>2. Warranted([Moved(rows[q], Pending) EXCEPT !.price = Rounded(price)])
      BY <1>0 DEF TypeOK, Row, Moved, Warranted, Pending, Approved
    <3> QED
      BY <3>1, <3>2, BeginWarranted
  <2> QED
    BY <1>2, <2>1, <2>2
<1>3. ASSUME NEW q \in Proposals, reject(c, q) \/ cancel(c, q) \/ approve(c, q)
      PROVE  RowsAreWarranted' /\ CopiesAreWarranted'
  <2>1. Moved(rows[q], Cancelled).status = Cancelled
    BY <1>0 DEF TypeOK, Row, Moved
  <2>2. ~Expired(rows[q]) => clock < rows[q].expires
    BY <1>0, BoundsAssumption DEF TypeOK, Row, Expired, Time
  <2> QED
    BY <1>3, <2>1, <2>2, BeginWarranted DEF reject, cancel, approve, Warranted
<1>4. ASSUME NEW q \in Proposals, request_additional_analysis(c, q)
      PROVE  RowsAreWarranted' /\ CopiesAreWarranted'
  BY <1>4, BeginWarranted DEF request_additional_analysis
<1>5. CASE expire_stale(c)
  <2> DEFINE stale == {[id |-> q, row |-> Moved(rows[q], Cancelled)] :
                q \in {p \in Proposals : rows[p].status = Pending /\ Expired(rows[p])}}
  <2>1. PICK item \in stale :
          op' = [op EXCEPT ![c] = [step |-> "save", action |-> "expire",
                                   id |-> item.id, row |-> item.row, at |-> clock,
                                   queue |-> stale \ {item}]]
    BY <1>5 DEF expire_stale
  <2>2. \A i \in stale : i.row.status = Cancelled
    <3>1. \A q \in Proposals : Moved(rows[q], Cancelled).status = Cancelled
      BY <1>0 DEF TypeOK, Row, Moved
    <3> QED
      BY <3>1
  <2> HIDE DEF stale
  <2>3. RowsAreWarranted'
    BY <1>5 DEF WarrantInv, RowsAreWarranted, Warranted, expire_stale, db
  <2>4. CopiesAreWarranted'
    BY <1>0, <2>1, <2>2 DEF WarrantInv, TypeOK, CopiesAreWarranted, Warranted
  <2> QED
    BY <2>3, <2>4
<1> QED
  BY <1>1, <1>2, <1>3, <1>4, <1>5 DEF Request

\* A commit stores a warranted copy, whatever row it overwrites.
LEMMA ProceedWarranted ==
  ASSUME WarrantInv, NEW c \in Clients, Proceed(c)
  PROVE  RowsAreWarranted' /\ CopiesAreWarranted'
<1>0. TypeOK /\ op[c] \in Op /\ op \in [Clients -> Op]
  BY DEF WarrantInv, TypeOK
<1>1. CASE ReceiveSnapshot(c)
  <2>1. PICK view \in Views :
          op' = [op EXCEPT ![c] =
                   [op[c] EXCEPT !.step = "save",
                      !.row = Revalidated(op[c].row, view, op[c].at),
                      !.action = IF Revalidated(op[c].row, view, op[c].at).status = Approved
                                 THEN "approve" ELSE "revalidate_reject"]]
    BY <1>1 DEF ReceiveSnapshot
  <2>2. Warranted(Revalidated(op[c].row, view, op[c].at))
    BY <1>0, <1>1
       DEF WarrantInv, CopiesAreWarranted, ReceiveSnapshot, Warranted, Revalidated, Op, Row
  <2>3. op'[c].step = "save" /\ op'[c].queue = op[c].queue
        /\ op'[c].row = Revalidated(op[c].row, view, op[c].at)
    BY <1>0, <2>1 DEF Op
  <2>4. \A d \in Clients \ {c} : op'[d] = op[d]
    BY <1>0, <2>1
  <2>5. CopiesAreWarranted'
    BY <2>2, <2>3, <2>4 DEF WarrantInv, CopiesAreWarranted, Warranted
  <2> QED
    BY <1>1, <2>5 DEF WarrantInv, RowsAreWarranted, Warranted, ReceiveSnapshot, db
<1>2. CASE SnapshotFails(c)
  <2>1. CopiesAreWarranted'
    BY <1>0, <1>2 DEF WarrantInv, CopiesAreWarranted, Warranted, SnapshotFails, Op
  <2> QED
    BY <1>2, <2>1 DEF WarrantInv, RowsAreWarranted, Warranted, SnapshotFails, db
<1>3. CASE SaveRow(c)
  <2>1. CopiesAreWarranted'
    BY <1>0, <1>3 DEF WarrantInv, CopiesAreWarranted, Warranted, SaveRow, Goto, Op
  <2>2. RowsAreWarranted'
    BY <1>0, <1>3
       DEF WarrantInv, TypeOK, RowsAreWarranted, CopiesAreWarranted, Warranted, SaveRow, Op
  <2> QED
    BY <2>1, <2>2
<1>4. CASE SaveProbabilitySnapshot(c) \/ RecordReview(c)
  <2>1. rows' = rows /\ \E step \in {"review", "audit"} : Goto(c, step)
    BY <1>4 DEF SaveProbabilitySnapshot, RecordReview
  <2>2. CopiesAreWarranted'
    BY <1>0, <2>1 DEF WarrantInv, CopiesAreWarranted, Warranted, Goto, Op
  <2> QED
    BY <2>1, <2>2 DEF WarrantInv, RowsAreWarranted, Warranted
<1>5. CASE RecordAudit(c)
  <2>1. CASE op' = [op EXCEPT ![c] = IdleOp]
    BY <1>0, <1>5, <2>1
       DEF WarrantInv, RowsAreWarranted, CopiesAreWarranted, Warranted, RecordAudit, IdleOp
  <2>2. ASSUME NEW item \in op[c].queue, op' = [op EXCEPT ![c] = NextItem(op[c], item)]
        PROVE  CopiesAreWarranted'
    <3>1. item.row.status = Cancelled
      BY DEF WarrantInv, CopiesAreWarranted
    <3>2. /\ op'[c].row = item.row /\ op'[c].step = "save"
          /\ op'[c].queue = op[c].queue \ {item}
      BY <1>0, <2>2 DEF NextItem, Op
    <3>3. \A d \in Clients \ {c} : op'[d] = op[d]
      BY <1>0, <2>2
    <3> QED
      BY <3>1, <3>2, <3>3 DEF WarrantInv, CopiesAreWarranted, Warranted
  <2> QED
    BY <1>5, <2>1, <2>2 DEF WarrantInv, RowsAreWarranted, Warranted, RecordAudit
<1> QED
  BY <1>1, <1>2, <1>3, <1>4, <1>5 DEF Proceed

\* Every step keeps rows and copies warranted.
LEMMA WarrantStep == WarrantInv /\ [Next]_vars => WarrantInv'
<1> SUFFICES ASSUME WarrantInv, [Next]_vars  PROVE WarrantInv'
  OBVIOUS
<1>0. TypeOK' /\ TypeOK
  BY TypeStep DEF WarrantInv
<1>1. ASSUME NEW c \in Clients, Crash(c)
      PROVE  RowsAreWarranted' /\ CopiesAreWarranted'
  BY <1>0, <1>1 DEF WarrantInv, TypeOK, RowsAreWarranted, CopiesAreWarranted, Warranted,
                    Crash, IdleOp, db
<1>2. ASSUME Tick \/ UNCHANGED vars
      PROVE  RowsAreWarranted' /\ CopiesAreWarranted'
  BY <1>2 DEF WarrantInv, RowsAreWarranted, CopiesAreWarranted, Warranted, Tick, vars, db
<1>3. \A c \in Clients : Request(c) \/ Proceed(c) => RowsAreWarranted' /\ CopiesAreWarranted'
  BY RequestWarranted, ProceedWarranted
<1>4. [Next]_vars => Tick \/ UNCHANGED vars \/ \E c \in Clients : Request(c) \/ Proceed(c) \/ Crash(c)
  BY DEF Next, Exhausted
<1>5. RowsAreWarranted' /\ CopiesAreWarranted'
  BY <1>1, <1>2, <1>3, <1>4
<1> QED
  BY <1>0, <1>5 DEF WarrantInv

\* However many clients edit, approve, expire and crash at once, a row that says
\* approved holds the size and the view one revalidation allowed, and was asked
\* for within its TTL.
THEOREM ApprovalIsSound == Spec => []ApprovedIsRevalidated
<1>1. Init => RowsAreWarranted /\ CopiesAreWarranted
  BY DEF Init, RowsAreWarranted, CopiesAreWarranted, Warranted, Blank, IdleOp
<1>2. Init => TypeOK
  BY BlankType, IdleOpType, BoundsAssumption DEF Init, TypeOK, Time
<1>3. WarrantInv => ApprovedIsRevalidated
  BY DEF WarrantInv, RowsAreWarranted, Warranted, ApprovedIsRevalidated
<1> QED
  BY <1>1, <1>2, <1>3, WarrantStep, PTL DEF Spec, WarrantInv

(***************************************************************************)
(* What a request may start.  The eight request actions start an operation *)
(* of one of four kinds; the invariants below are proved of the kinds.     *)
(***************************************************************************)
\* old may be overwritten by new: a draft, an edit, a decision, a withdrawal.
Lawful(old, new) ==
  \/ old.status = Absent /\ new.status \in {Pending, PolicyRejected}
  \/ old.status = Pending /\ new.status = Pending
  \/ /\ old.status = Pending /\ new.status \in {Approved, PolicyRejected, Cancelled}
     /\ <<new.size, new.price>> = <<old.size, old.price>>
  \/ /\ old.status = Approved /\ new.status = Cancelled
     /\ <<new.size, new.price>> = <<old.size, old.price>>

\* What a transition may make of the terms it found.
Follows(old, action, row) ==
  /\ action = "create" => row.size = row.drafted[1] /\ row.price = row.drafted[2]
  /\ action # "create" =>
       /\ row.drafted = old.drafted
       /\ action # "edit_size" => row.size = old.size
       /\ action # "edit_price" => row.price = old.price

Edits == {"edit_size", "edit_price"}

\* row is to replace the row of a live proposal q, read just now.
Replaces(q, action, row) ==
  /\ action \in Edits \cup {"reject", "cancel", "expire"}
  /\ rows[q].status \in {Pending, Approved}
  /\ row.status = IF action \in Edits THEN Pending ELSE Cancelled
  /\ Lawful(rows[q], row) /\ Follows(rows[q], action, row) /\ row.updated = clock

Drafts(new) ==
  /\ new.step = "save" /\ new.action = "create" /\ new.queue = {}
  /\ rows[new.id].status = Absent
  /\ \A d \in Clients : op[d].step # "idle" => op[d].id # new.id
  /\ new.row.status \in {Pending, PolicyRejected} /\ new.row.updated = clock
  /\ Follows(rows[new.id], "create", new.row)

Changes(new) ==
  /\ new.step = "save"
  /\ Replaces(new.id, new.action, new.row)
  /\ \A item \in new.queue :
       /\ new.action = "expire" /\ Replaces(item.id, "expire", item.row) /\ item.id # new.id
       /\ \A other \in new.queue : other.id = item.id => other = item

Annotates(new) ==
  /\ new.step = "review" /\ new.action = "request_analysis" /\ new.queue = {}
  /\ rows[new.id].status # Absent /\ new.row = rows[new.id]

Asks(new) ==
  /\ new.step = "snapshot" /\ new.action = "approve" /\ new.queue = {}
  /\ rows[new.id].status = Pending /\ new.row = rows[new.id]

Starts(c, new) ==
  /\ op[c].step = "idle" /\ new.at = clock
  /\ op' = [op EXCEPT ![c] = new]
  /\ UNCHANGED <<db, clock, crashes>>
  /\ Drafts(new) \/ Changes(new) \/ Annotates(new) \/ Asks(new)

\* A live row moved to cancelled, and a pending one edited, lawfully replace it.
LEMMA MovedReplaces ==
  ASSUME TypeOK, NEW q \in Proposals, rows[q].status \in {Pending, Approved},
         NEW action \in {"reject", "cancel", "expire"}
  PROVE  Replaces(q, action, Moved(rows[q], Cancelled))
BY DEF TypeOK, Row, Moved, Replaces, Lawful, Follows, Edits

\* An edit of a pending row replaces it by a lawful one.
LEMMA EditedReplaces ==
  ASSUME TypeOK, NEW q \in Proposals, rows[q].status = Pending, NEW v
  PROVE  /\ Replaces(q, "edit_size", [Moved(rows[q], Pending) EXCEPT !.size = v])
         /\ Replaces(q, "edit_price", [Moved(rows[q], Pending) EXCEPT !.price = v])
BY DEF TypeOK, Row, Moved, Replaces, Lawful, Follows, Edits

\* An operation on one proposal, begun with a lawful copy, is of the second kind.
LEMMA BeginChanges ==
  ASSUME TypeOK, NEW c \in Clients, NEW q \in Proposals, NEW row \in Row,
         NEW action \in Transitions,
         Begin(c, "save", action, q, row), Replaces(q, action, row)
  PROVE  \E new \in Op : Starts(c, new)
<1> DEFINE new == [step |-> "save", action |-> action, id |-> q,
                   row |-> row, at |-> clock, queue |-> {}]
<1>1. new \in Op
  BY DEF TypeOK, Op, Steps
<1>2. Changes(new)
  BY DEF Changes
<1>3. Starts(c, new)
  BY <1>2 DEF Starts, Begin
<1> QED
  BY <1>1, <1>3

\* A request starts one of the operations, with a copy of the row it found.
LEMMA RequestStarts ==
  ASSUME TypeOK, NEW c \in Clients, Request(c)
  PROVE  \E new \in Op : Starts(c, new)
<1>0. {"edit_size", "edit_price", "reject", "cancel", "expire"} \subseteq Transitions
  BY DEF Transitions
<1>1. ASSUME NEW q \in Proposals, create(c, q)  PROVE \E new \in Op : Starts(c, new)
  <2>1. PICK view \in Views, size \in RecommendedSizes :
          Begin(c, "save", "create", q,
             [status |-> IF <<size, view>> \in Allowed THEN Pending ELSE PolicyRejected,
              size |-> size, price |-> MidPrice[view],
              drafted |-> <<size, MidPrice[view]>>, view |-> view,
              updated |-> clock, expires |-> clock + TTL])
    BY <1>1 DEF create
  <2> DEFINE row == [status |-> IF <<size, view>> \in Allowed THEN Pending ELSE PolicyRejected,
                     size |-> size, price |-> MidPrice[view],
                     drafted |-> <<size, MidPrice[view]>>, view |-> view,
                     updated |-> clock, expires |-> clock + TTL]
             new == [step |-> "save", action |-> "create", id |-> q,
                     row |-> row, at |-> clock, queue |-> {}]
  <2>2. clock + TTL \in 0 .. (MaxTime + TTL)
    BY BoundsAssumption DEF TypeOK, Time
  <2>3. row \in Row
    BY <2>2, SizesAssumption, ViewsAssumption DEF TypeOK, Row, Statuses
  <2>4. new \in Op
    BY <2>3 DEF TypeOK, Op, Steps, Transitions
  <2>5. Drafts(new)
    BY <1>1 DEF Drafts, create, Follows
  <2>6. Starts(c, new)
    BY <2>1, <2>5 DEF Starts, Begin
  <2> QED
    BY <2>4, <2>6
<1>2. ASSUME NEW q \in Proposals, edit_size(c, q)  PROVE \E new \in Op : Starts(c, new)
  <2>1. PICK amount \in TypedAmounts :
          /\ 0 < amount /\ amount <= 10 * MaxAllowedSize
          /\ Begin(c, "save", "edit_size", q,
                   [Moved(rows[q], Pending) EXCEPT !.size = Rounded(amount)])
    BY <1>2 DEF edit_size
  <2>2. Moved(rows[q], Pending) \in Row
    BY MovedType DEF TypeOK, Statuses
  <2>3. Rounded(amount) \in Sizes
    BY <2>1, RoundedSize, TypedAssumption
  <2> DEFINE row == [Moved(rows[q], Pending) EXCEPT !.size = Rounded(amount)]
  <2>4. row \in Row
    BY <2>2, <2>3 DEF Row
  <2>5. Replaces(q, "edit_size", row)
    BY <1>2, EditedReplaces DEF edit_size
  <2>6. Begin(c, "save", "edit_size", q, row)
    BY <2>1
  <2> HIDE DEF row
  <2> QED
    BY <1>0, <2>4, <2>5, <2>6, BeginChanges
<1>3. ASSUME NEW q \in Proposals, edit_price(c, q)  PROVE \E new \in Op : Starts(c, new)
  <2>1. PICK typed \in TypedPrices :
          /\ 0 < typed /\ typed <= 100000
          /\ Begin(c, "save", "edit_price", q,
                   [Moved(rows[q], Pending) EXCEPT !.price = Rounded(typed)])
    BY <1>3 DEF edit_price
  <2>2. Moved(rows[q], Pending) \in Row
    BY MovedType DEF TypeOK, Statuses
  <2>3. Rounded(typed) \in Prices
    BY <2>1, RoundedPrice, TypedAssumption
  <2> DEFINE row == [Moved(rows[q], Pending) EXCEPT !.price = Rounded(typed)]
  <2>4. row \in Row
    BY <2>2, <2>3 DEF Row
  <2>5. Replaces(q, "edit_price", row)
    <3>1. rows[q].status = Pending
      BY <1>3 DEF edit_price
    <3> QED
      BY <3>1, EditedReplaces
  <2>6. Begin(c, "save", "edit_price", q, row)
    BY <2>1
  <2> HIDE DEF row
  <2> QED
    BY <1>0, <2>4, <2>5, <2>6, BeginChanges
<1>4. ASSUME NEW q \in Proposals, NEW action \in {"reject", "cancel", "expire"},
             Begin(c, "save", action, q, Moved(rows[q], Cancelled)),
             rows[q].status \in {Pending, Approved}
      PROVE  \E new \in Op : Starts(c, new)
  <2>1. Moved(rows[q], Cancelled) \in Row
    BY MovedType DEF TypeOK, Statuses
  <2> QED
    BY <1>0, <1>4, <2>1, MovedReplaces, BeginChanges
<1>5. ASSUME NEW q \in Proposals, reject(c, q) \/ cancel(c, q)
      PROVE  \E new \in Op : Starts(c, new)
  <2>1. CASE reject(c, q)
    BY <1>0, <1>4, <2>1 DEF reject
  <2>2. CASE cancel(c, q)
    BY <1>0, <1>4, <2>2 DEF cancel
  <2> QED
    BY <1>5, <2>1, <2>2
<1>6. ASSUME NEW q \in Proposals, NEW step \in {"review", "snapshot"},
             NEW action \in {"request_analysis", "approve"},
             Begin(c, step, action, q, rows[q]),
             (step = "review" /\ action = "request_analysis" /\ rows[q].status # Absent)
               \/ (step = "snapshot" /\ action = "approve" /\ rows[q].status = Pending)
      PROVE  \E new \in Op : Starts(c, new)
  <2> DEFINE new == [step |-> step, action |-> action, id |-> q,
                     row |-> rows[q], at |-> clock, queue |-> {}]
  <2>1. new \in Op
    BY DEF TypeOK, Op, Steps, Transitions, Notes
  <2>2. Annotates(new) \/ Asks(new)
    BY <1>6 DEF Annotates, Asks
  <2>3. Starts(c, new)
    BY <1>6, <2>2 DEF Starts, Begin
  <2> QED
    BY <2>1, <2>3
<1>7. ASSUME NEW q \in Proposals, approve(c, q)  PROVE \E new \in Op : Starts(c, new)
  <2>1. CASE Begin(c, "save", "expire", q, Moved(rows[q], Cancelled)) /\ rows[q].status = Pending
    BY <1>0, <1>4, <2>1
  <2>2. CASE Begin(c, "snapshot", "approve", q, rows[q]) /\ rows[q].status = Pending
    BY <1>6, <2>2
  <2> QED
    BY <1>7, <2>1, <2>2 DEF approve
<1>8. ASSUME NEW q \in Proposals, request_additional_analysis(c, q)
      PROVE  \E new \in Op : Starts(c, new)
  BY <1>6, <1>8 DEF request_additional_analysis
<1>9. CASE expire_stale(c)
  <2> DEFINE stale == {[id |-> q, row |-> Moved(rows[q], Cancelled)] :
                q \in {p \in Proposals : rows[p].status = Pending /\ Expired(rows[p])}}
  <2>1. PICK item \in stale :
          /\ op[c].step = "idle"
          /\ op' = [op EXCEPT ![c] = [step |-> "save", action |-> "expire",
                                      id |-> item.id, row |-> item.row, at |-> clock,
                                      queue |-> stale \ {item}]]
          /\ UNCHANGED <<db, clock, crashes>>
    BY <1>9 DEF expire_stale
  <2>2. \A i \in stale : Replaces(i.id, "expire", i.row)
    BY MovedReplaces
  <2>3. \A i, j \in stale : i.id = j.id => i = j
    OBVIOUS
  <2>4. stale \subseteq [id : Proposals, row : Row]
    BY MovedType DEF TypeOK, Statuses
  <2> HIDE DEF stale
  <2> DEFINE new == [step |-> "save", action |-> "expire", id |-> item.id,
                     row |-> item.row, at |-> clock, queue |-> stale \ {item}]
  <2>5. new \in Op
    BY <2>4 DEF TypeOK, Op, Steps, Transitions
  <2>6. Changes(new)
    BY <1>0, <2>2, <2>3 DEF Changes
  <2>7. Starts(c, new)
    BY <2>1, <2>6 DEF Starts
  <2> QED
    BY <2>5, <2>7
<1> QED
  BY <1>1, <1>2, <1>3, <1>5, <1>7, <1>8, <1>9 DEF Request

(***************************************************************************)
(* What a step of an operation leaves of the client's record               *)
(***************************************************************************)
\* The network has answered: a verdict on the copy, stamped with the request.
LEMMA AnswerShape ==
  ASSUME TypeOK, NEW c \in Clients, ReceiveSnapshot(c)
  PROVE  /\ op[c].step = "snapshot" /\ op'[c].step = "save" /\ op'[c] \in Op
         /\ op'[c].id = op[c].id /\ op'[c].at = op[c].at /\ op'[c].queue = op[c].queue
         /\ op'[c].row.status \in {Approved, PolicyRejected}
         /\ op'[c].action = IF op'[c].row.status = Approved THEN "approve"
                            ELSE "revalidate_reject"
         /\ op'[c].row.updated = op[c].at
         /\ op'[c].row.size = op[c].row.size /\ op'[c].row.price = op[c].row.price
         /\ op'[c].row.drafted = op[c].row.drafted
         /\ \A d \in Clients \ {c} : op'[d] = op[d]
         /\ UNCHANGED <<db, clock, crashes>>
<1>0. op[c] \in Op /\ op \in [Clients -> Op]
  BY DEF TypeOK
<1>1. PICK view \in Views :
        op' = [op EXCEPT ![c] =
                 [op[c] EXCEPT !.step = "save",
                    !.row = Revalidated(op[c].row, view, op[c].at),
                    !.action = IF Revalidated(op[c].row, view, op[c].at).status = Approved
                               THEN "approve" ELSE "revalidate_reject"]]
  BY DEF ReceiveSnapshot
<1> DEFINE row == Revalidated(op[c].row, view, op[c].at)
<1>2. /\ row.status \in {Approved, PolicyRejected} /\ row.updated = op[c].at
      /\ row.size = op[c].row.size /\ row.price = op[c].row.price
      /\ row.drafted = op[c].row.drafted
  BY <1>0 DEF Revalidated, Op, Row
<1>3. /\ op'[c].step = "save" /\ op'[c].id = op[c].id /\ op'[c].at = op[c].at
      /\ op'[c].queue = op[c].queue /\ op'[c].row = row
      /\ op'[c].action = IF row.status = Approved THEN "approve" ELSE "revalidate_reject"
      /\ \A d \in Clients \ {c} : op'[d] = op[d]
  BY <1>0, <1>1 DEF Op
<1>4. op'[c] \in Op
  BY ProceedType DEF Proceed, TypeOK
<1> QED
  BY <1>2, <1>3, <1>4 DEF ReceiveSnapshot

\* The other steps of one proposal only move the step, or give up with a note.
LEMMA CommitShape ==
  ASSUME TypeOK, NEW c \in Clients,
         SnapshotFails(c) \/ SaveRow(c) \/ SaveProbabilitySnapshot(c) \/ RecordReview(c)
  PROVE  /\ op'[c].id = op[c].id /\ op'[c].queue = op[c].queue /\ op'[c].row = op[c].row
         /\ SnapshotFails(c) => /\ op[c].step = "snapshot" /\ op'[c].step = "review"
                                /\ op'[c].action = "snapshot_error"
                                /\ UNCHANGED <<rows, psnaps, reviews, audits>>
         /\ ~SnapshotFails(c) => op'[c].at = op[c].at /\ op'[c].action = op[c].action
         /\ SaveRow(c) => /\ op[c].step = "save"
                          /\ op'[c].step = IF op[c].action \in {"create", "approve"}
                                           THEN "psnap" ELSE "review"
         /\ SaveProbabilitySnapshot(c) => op[c].step = "psnap" /\ op'[c].step = "review"
         /\ RecordReview(c) => op[c].step = "review" /\ op'[c].step = "audit"
         /\ op'[c] \in Op /\ \A d \in Clients \ {c} : op'[d] = op[d]
         /\ UNCHANGED <<clock, crashes>>
<1>0. op[c] \in Op /\ op \in [Clients -> Op]
  BY DEF TypeOK
<1>1. op'[c] \in Op
  BY ProceedType DEF Proceed, TypeOK
<1>2. CASE SnapshotFails(c)
  <2>1. op[c].step = "snapshot"
    BY <1>2 DEF SnapshotFails
  <2> QED
    BY <1>0, <1>1, <1>2, <2>1
       DEF SnapshotFails, Op, db, SaveRow, SaveProbabilitySnapshot, RecordReview
<1>3. CASE SaveRow(c)
  BY <1>0, <1>1, <1>3 DEF SaveRow, Goto, Op, SnapshotFails, SaveProbabilitySnapshot, RecordReview
<1>4. CASE SaveProbabilitySnapshot(c)
  BY <1>0, <1>1, <1>4 DEF SaveProbabilitySnapshot, Goto, Op, SnapshotFails, SaveRow, RecordReview
<1>5. CASE RecordReview(c)
  BY <1>0, <1>1, <1>5 DEF RecordReview, Goto, Op, SnapshotFails, SaveRow, SaveProbabilitySnapshot
<1> QED
  BY <1>2, <1>3, <1>4, <1>5

\* The last commit, or a crash: idle, or on to the next proposal of the loop.
LEMMA AuditShape ==
  ASSUME TypeOK, NEW c \in Clients, RecordAudit(c) \/ Crash(c)
  PROVE  /\ op'[c] \in Op /\ \A d \in Clients \ {c} : op'[d] = op[d]
         /\ UNCHANGED <<rows, reviews, psnaps, clock>>
         /\ \/ op'[c] = IdleOp
            \/ \E item \in op[c].queue :
                 /\ RecordAudit(c)
                 /\ op'[c].id = item.id /\ op'[c].row = item.row /\ op'[c].step = "save"
                 /\ op'[c].queue = op[c].queue \ {item}
                 /\ op'[c].action = op[c].action /\ op'[c].at = op[c].at
<1>0. op[c] \in Op /\ op \in [Clients -> Op]
  BY DEF TypeOK
<1>1. CASE op' = [op EXCEPT ![c] = IdleOp]
  BY <1>0, <1>1, IdleOpType DEF RecordAudit, Crash, db
<1>2. ASSUME NEW item \in op[c].queue, op' = [op EXCEPT ![c] = NextItem(op[c], item)],
             RecordAudit(c)
      PROVE  /\ op'[c] \in Op /\ \A d \in Clients \ {c} : op'[d] = op[d]
             /\ op'[c].id = item.id /\ op'[c].row = item.row /\ op'[c].step = "save"
             /\ op'[c].queue = op[c].queue \ {item}
             /\ op'[c].action = op[c].action /\ op'[c].at = op[c].at
  BY <1>0, <1>2 DEF NextItem, Op, Steps
<1> QED
  BY <1>1, <1>2 DEF RecordAudit, Crash, db

(***************************************************************************)
(* A draft the policy rejected stays rejected                              *)
(*                                                                         *)
(* The reviews say how a draft was born; the invariant says that nobody    *)
(* carries a copy of a draft that was born rejected.  That holds because a *)
(* create is alone on its proposal until the row is there, and because     *)
(* every copy was read from a row that was there.                          *)
(***************************************************************************)
\* c is going to write the row of q.
Writes(c, q) ==
  \/ op[c].id = q /\ op[c].step \in {"snapshot", "save"}
  \/ \E item \in op[c].queue : item.id = q

CopiesAreOfDrafts ==
  \A c \in Clients :
    /\ op[c].step = "save" => op[c].row.status # Absent
    /\ op[c].step = "snapshot" => rows[op[c].id].status # Absent
    /\ \A item \in op[c].queue : rows[item.id].status # Absent /\ item.row.status # Absent

CreatesAreAlone ==
  \A c \in Clients : op[c].action = "create" =>
    /\ op[c].queue = {} /\ op[c].step # "snapshot"
    /\ op[c].step = "save" =>
         /\ rows[op[c].id].status = Absent
         /\ \A d \in Clients \ {c} : ~Writes(d, op[c].id)

\* q was stored as policy_rejected, and its review is written or due.
DraftedRejected(q) ==
  \/ \E i \in DOMAIN reviews[q] :
       reviews[q][i].action = "create" /\ reviews[q][i].status = PolicyRejected
  \/ \E c \in Clients :
       /\ op[c].action = "create" /\ op[c].id = q /\ op[c].row.status = PolicyRejected
       /\ op[c].step \in {"psnap", "review", "audit"}

RejectedDraftsAreAlone ==
  \A q \in Proposals : DraftedRejected(q) =>
    rows[q].status = PolicyRejected /\ \A c \in Clients : ~Writes(c, q)

DraftInv == TypeOK /\ CopiesAreOfDrafts /\ CreatesAreAlone /\ RejectedDraftsAreAlone

\* A request never writes a row that is absent or was drafted rejected, but for
\* the create that drafts it.
LEMMA StartKeepsDrafts ==
  ASSUME DraftInv, NEW c \in Clients, NEW new \in Op, Starts(c, new)
  PROVE  CopiesAreOfDrafts' /\ CreatesAreAlone' /\ RejectedDraftsAreAlone'
<1>1. /\ op'[c] = new /\ \A d \in Clients \ {c} : op'[d] = op[d]
      /\ rows' = rows /\ reviews' = reviews /\ op[c].step = "idle"
  BY DEF DraftInv, TypeOK, Starts, db
<1>2. \A d \in Clients \ {c}, q \in Proposals : Writes(d, q)' <=> Writes(d, q)
  BY <1>1 DEF Writes
<1>3. \A q \in Proposals : Writes(c, q)' =>
        rows[q].status \in {Pending, Approved} \/ (Drafts(new) /\ q = new.id)
  <2> SUFFICES ASSUME NEW q \in Proposals, Writes(c, q)'
               PROVE  rows[q].status \in {Pending, Approved} \/ (Drafts(new) /\ q = new.id)
    OBVIOUS
  <2>1. \/ new.id = q /\ new.step \in {"snapshot", "save"}
        \/ \E item \in new.queue : item.id = q
    BY <1>1 DEF Writes
  <2>2. CASE Drafts(new)
    BY <2>1, <2>2 DEF Drafts
  <2>3. CASE Changes(new)
    BY <2>1, <2>3 DEF Changes, Replaces
  <2>4. CASE Annotates(new) \/ Asks(new)
    BY <2>1, <2>4 DEF Annotates, Asks
  <2> QED
    BY <2>2, <2>3, <2>4 DEF Starts
<1>4. CopiesAreOfDrafts'
  <2>1. /\ new.step = "save" => new.row.status # Absent
        /\ new.step = "snapshot" => rows[new.id].status # Absent
        /\ \A item \in new.queue : rows[item.id].status # Absent /\ item.row.status # Absent
    BY DEF Starts, Changes, Replaces, Annotates, Asks, Drafts
  <2> QED
    BY <1>1, <2>1 DEF DraftInv, CopiesAreOfDrafts
<1>5. ASSUME NEW d \in Clients, NEW q \in Proposals, op'[d].action = "create", op'[d].id = q
      PROVE  /\ op'[d].queue = {} /\ op'[d].step # "snapshot"
             /\ op'[d].step = "save" =>
                  rows[q].status = Absent /\ \A e \in Clients \ {d} : ~Writes(e, q)'
  <2>1. CASE d = c
    <3>1. Drafts(new)
      BY <1>1, <1>5, <2>1 DEF Starts, Changes, Replaces, Edits, Annotates, Asks
    <3>2. \A e \in Clients \ {c} : ~Writes(e, new.id)
      BY <3>1 DEF Drafts, DraftInv, CopiesAreOfDrafts, Writes
    <3> QED
      BY <1>1, <1>2, <1>5, <2>1, <3>1, <3>2 DEF Drafts
  <2>2. CASE d # c
    <3>1. op'[d] = op[d]
      BY <1>1, <2>2
    <3>2. op[d].step = "save" => ~(Drafts(new) /\ q = new.id)
      BY <1>5, <3>1 DEF Drafts
    <3>3. /\ op[d].queue = {} /\ op[d].step # "snapshot"
          /\ op[d].step = "save" =>
               rows[q].status = Absent /\ \A e \in Clients \ {d} : ~Writes(e, q)
      BY <1>5, <3>1 DEF DraftInv, CreatesAreAlone
    <3>4. op[d].step = "save" => ~Writes(c, q)'
      BY <1>3, <3>2, <3>3
    <3>5. op[d].step = "save" => \A e \in Clients \ {d} : ~Writes(e, q)'
      BY <1>2, <3>3, <3>4
    <3> QED
      BY <3>1, <3>3, <3>5
  <2> QED
    BY <2>1, <2>2
<1>6. CreatesAreAlone'
  <2>1. \A d \in Clients : op'[d].id \in Proposals
    BY <1>1 DEF DraftInv, TypeOK, Op
  <2> QED
    BY <1>1, <1>5, <2>1 DEF CreatesAreAlone, Writes
<1>7. \A q \in Proposals : DraftedRejected(q)' => DraftedRejected(q)
  <2>1. ~(op'[c].action = "create" /\ op'[c].step \in {"psnap", "review", "audit"})
    BY <1>1 DEF Starts, Changes, Annotates, Asks, Drafts
  <2> QED
    BY <1>1, <2>1 DEF DraftedRejected
<1>8. RejectedDraftsAreAlone'
  BY <1>1, <1>2, <1>3, <1>7 DEF DraftInv, RejectedDraftsAreAlone, Drafts
<1> QED
  BY <1>4, <1>6, <1>8

\* A step that commits no row and takes on nothing new to write.
LEMMA QuietKeepsDrafts ==
  ASSUME DraftInv, NEW c \in Clients, rows' = rows, op'[c] \in Op,
         \A d \in Clients \ {c} : op'[d] = op[d],
         \A q \in Proposals : Writes(c, q)' => Writes(c, q),
         \A q \in Proposals : DraftedRejected(q)' => DraftedRejected(q),
         op'[c].action = "create" =>
           op'[c].queue = {} /\ op'[c].step \notin {"snapshot", "save"},
         /\ op'[c].step = "save" => op'[c].row.status # Absent
         /\ op'[c].step = "snapshot" => op[c].step = "snapshot" /\ op'[c].id = op[c].id
         /\ op'[c].queue \subseteq op[c].queue
  PROVE  CopiesAreOfDrafts' /\ CreatesAreAlone' /\ RejectedDraftsAreAlone'
<1>1. CopiesAreOfDrafts'
  BY DEF DraftInv, CopiesAreOfDrafts
<1>2. \A d \in Clients, q \in Proposals : Writes(d, q)' => Writes(d, q)
  BY DEF Writes
<1>3. ASSUME NEW d \in Clients, op'[d].action = "create"
      PROVE  /\ op'[d].queue = {} /\ op'[d].step # "snapshot"
             /\ op'[d].step = "save" =>
                  /\ d # c /\ op'[d] = op[d] /\ rows[op[d].id].status = Absent
                  /\ \A e \in Clients \ {d} : ~Writes(e, op[d].id)
  BY <1>3 DEF DraftInv, CreatesAreAlone
<1>4. CreatesAreAlone'
  <2>1. \A d \in Clients : op[d].id \in Proposals
    BY DEF DraftInv, TypeOK, Op
  <2>2. ASSUME NEW d \in Clients, op'[d].action = "create", op'[d].step = "save",
               NEW e \in Clients \ {d}
        PROVE  ~Writes(e, op[d].id)'
    BY <1>2, <1>3, <2>1, <2>2 DEF Writes
  <2> QED
    BY <1>3, <2>2 DEF CreatesAreAlone, Writes
<1>5. RejectedDraftsAreAlone'
  BY <1>2 DEF DraftInv, RejectedDraftsAreAlone
<1> QED
  BY <1>1, <1>4, <1>5

\* The commit of a row: nobody else writes the row of a create, and nobody
\* writes a row that was drafted rejected.
LEMMA SaveKeepsDrafts ==
  ASSUME DraftInv, NEW c \in Clients, SaveRow(c)
  PROVE  CopiesAreOfDrafts' /\ CreatesAreAlone' /\ RejectedDraftsAreAlone'
<1> DEFINE q0 == op[c].id
<1>0. op[c] \in Op /\ q0 \in Proposals /\ op[c].step = "save" /\ reviews' = reviews
  BY DEF DraftInv, TypeOK, Op, SaveRow
<1>1. /\ op'[c] = [op[c] EXCEPT !.step = op'[c].step]
      /\ op'[c].step \in {"psnap", "review"}
      /\ \A d \in Clients \ {c} : op'[d] = op[d]
  BY <1>0 DEF DraftInv, TypeOK, Op, SaveRow, Goto
<1>2. /\ op'[c].id = q0 /\ op'[c].queue = op[c].queue /\ op'[c].action = op[c].action
      /\ op'[c].row = op[c].row
  BY <1>0, <1>1 DEF Op
<1>3. /\ rows'[q0] = op[c].row /\ \A q \in Proposals \ {q0} : rows'[q] = rows[q]
      /\ op[c].row.status # Absent
  BY <1>0 DEF DraftInv, TypeOK, SaveRow, CopiesAreOfDrafts
<1>4. \A d \in Clients, q \in Proposals : Writes(d, q)' => Writes(d, q)
  BY <1>1, <1>2 DEF Writes
<1>5. Writes(c, q0)
  BY <1>0 DEF Writes
<1>6. CopiesAreOfDrafts'
  <2>1. \A d \in Clients : op[d] \in Op
    BY DEF DraftInv, TypeOK
  <2>2. \A q \in Proposals : rows[q].status # Absent => rows'[q].status # Absent
    BY <1>3
  <2> QED
    BY <1>1, <1>2, <2>1, <2>2 DEF DraftInv, CopiesAreOfDrafts, Op
<1>7. CreatesAreAlone'
  <2>1. ASSUME NEW d \in Clients, op'[d].action = "create"
        PROVE  op'[d].queue = {} /\ op'[d].step # "snapshot"
    BY <1>1, <1>2, <2>1 DEF DraftInv, CreatesAreAlone
  <2>2. ASSUME NEW d \in Clients, op'[d].action = "create", op'[d].step = "save"
        PROVE  /\ rows'[op[d].id].status = Absent /\ op'[d] = op[d]
               /\ \A e \in Clients \ {d} : ~Writes(e, op[d].id)'
    <3>1. d # c /\ op'[d] = op[d] /\ op[d].id \in Proposals
      BY <1>1, <2>2 DEF DraftInv, TypeOK, Op
    <3>2. rows[op[d].id].status = Absent /\ \A e \in Clients \ {d} : ~Writes(e, op[d].id)
      BY <2>2, <3>1 DEF DraftInv, CreatesAreAlone
    <3>3. op[d].id # q0
      BY <1>5, <3>1, <3>2
    <3>4. \A e \in Clients \ {d} : ~Writes(e, op[d].id)'
      <4>1. ASSUME NEW q \in Proposals, q = op[d].id
            PROVE  \A e \in Clients \ {d} : ~Writes(e, q)'
        BY <1>4, <3>2, <4>1
      <4> QED
        BY <3>1, <4>1 DEF Writes
    <3> QED
      BY <1>3, <3>1, <3>2, <3>3, <3>4
  <2> QED
    BY <2>1, <2>2 DEF CreatesAreAlone, Writes
<1>8. RejectedDraftsAreAlone'
  <2> SUFFICES ASSUME NEW q \in Proposals, DraftedRejected(q)'
               PROVE  rows'[q].status = PolicyRejected /\ \A d \in Clients : ~Writes(d, q)'
    BY DEF RejectedDraftsAreAlone
  <2>1. CASE DraftedRejected(q)
    BY <1>3, <1>4, <1>5, <2>1 DEF DraftInv, RejectedDraftsAreAlone
  <2>2. CASE q = q0 /\ op[c].action = "create" /\ op[c].row.status = PolicyRejected
    <3>1. ~Writes(c, q)'
      BY <1>1, <1>2, <2>2 DEF DraftInv, CreatesAreAlone, Writes
    <3>2. \A d \in Clients \ {c} : ~Writes(d, q)
      BY <1>0, <2>2 DEF DraftInv, CreatesAreAlone
    <3> QED
      BY <1>3, <1>4, <2>2, <3>1, <3>2
  <2>3. DraftedRejected(q) \/ (q = q0 /\ op[c].action = "create"
                                /\ op[c].row.status = PolicyRejected)
    BY <1>0, <1>1, <1>2 DEF DraftedRejected
  <2> QED
    BY <2>1, <2>2, <2>3
<1> QED
  BY <1>6, <1>7, <1>8

\* The commits after the row, the answer of the network and a crash are quiet.
LEMMA RestKeepsDrafts ==
  ASSUME DraftInv, NEW c \in Clients,
         \/ ReceiveSnapshot(c) \/ SnapshotFails(c) \/ SaveProbabilitySnapshot(c)
         \/ RecordReview(c) \/ RecordAudit(c) \/ Crash(c)
  PROVE  CopiesAreOfDrafts' /\ CreatesAreAlone' /\ RejectedDraftsAreAlone'
<1>0. /\ TypeOK /\ op[c] \in Op /\ op \in [Clients -> Op] /\ IdleOp \in Op
      /\ op[c].action = "create" => op[c].queue = {} /\ op[c].step # "snapshot"
  BY IdleOpType DEF DraftInv, TypeOK, CreatesAreAlone
<1>1. CASE ReceiveSnapshot(c)
  <2>1. /\ op'[c].id = op[c].id /\ op'[c].step = "save" /\ op'[c].queue = op[c].queue
        /\ op'[c].action # "create" /\ op'[c].row.status # Absent /\ op'[c] \in Op
        /\ rows' = rows /\ reviews' = reviews /\ op[c].step = "snapshot"
        /\ \A d \in Clients \ {c} : op'[d] = op[d]
    BY <1>0, <1>1, AnswerShape DEF db
  <2>2. \A q \in Proposals : (Writes(c, q)' => Writes(c, q))
                              /\ (DraftedRejected(q)' => DraftedRejected(q))
    BY <2>1 DEF Writes, DraftedRejected
  <2> QED
    BY <2>1, <2>2, QuietKeepsDrafts
<1>2. CASE SnapshotFails(c)
  <2>1. /\ op'[c].id = op[c].id /\ op'[c].step = "review" /\ op'[c].queue = op[c].queue
        /\ op'[c].action # "create" /\ rows' = rows /\ reviews' = reviews
        /\ op'[c] \in Op /\ \A d \in Clients \ {c} : op'[d] = op[d]
    BY <1>0, <1>2, CommitShape
  <2>2. \A q \in Proposals : (Writes(c, q)' => Writes(c, q))
                              /\ (DraftedRejected(q)' => DraftedRejected(q))
    BY <2>1 DEF Writes, DraftedRejected
  <2> QED
    BY <2>1, <2>2, QuietKeepsDrafts
<1>3. CASE SaveProbabilitySnapshot(c) \/ RecordReview(c)
  <2>1. /\ op'[c].id = op[c].id /\ op'[c].step \in {"review", "audit"}
        /\ op'[c].queue = op[c].queue /\ op'[c].row = op[c].row /\ op'[c] \in Op
        /\ op'[c].action = op[c].action /\ op[c].step \in {"psnap", "review"}
        /\ \A d \in Clients \ {c} : op'[d] = op[d]
    BY ZenonT(60), <1>0, <1>3, CommitShape DEF SnapshotFails, SaveProbabilitySnapshot, RecordReview
  <2>2. rows' = rows
    BY <1>3 DEF SaveProbabilitySnapshot, RecordReview
  <2>3. ASSUME NEW q \in Proposals, NEW i \in DOMAIN reviews'[q],
               reviews'[q][i].action = "create", reviews'[q][i].status = PolicyRejected
        PROVE  DraftedRejected(q)
    <3>1. CASE reviews'[q] = reviews[q]
      BY <2>3, <3>1 DEF DraftedRejected
    <3> DEFINE r == Entry(op[c])
    <3>2. CASE q = op[c].id /\ reviews'[q] = Append(reviews[q], r) /\ op[c].step = "review"
      <4>1. CASE i \in DOMAIN reviews[q] /\ reviews'[q][i] = reviews[q][i]
        BY <2>3, <4>1 DEF DraftedRejected
      <4>2. CASE reviews'[q][i] = r
        BY <1>0, <2>3, <3>2, <4>2, EntryShape DEF DraftedRejected
      <4>3. reviews[q] \in Seq(Review)
        BY <1>0 DEF TypeOK
      <4> QED
        BY <2>3, <3>2, <4>1, <4>2, <4>3
    <3> QED
      BY <1>0, <1>3, <3>1, <3>2 DEF TypeOK, SaveProbabilitySnapshot, RecordReview
  <2>4. \A q \in Proposals : DraftedRejected(q)' => DraftedRejected(q)
    BY <2>1, <2>3 DEF DraftedRejected
  <2>5. \A q \in Proposals : Writes(c, q)' => Writes(c, q)
    BY <2>1 DEF Writes
  <2> QED
    BY SMTT(60), <1>0, <2>1, <2>2, <2>4, <2>5, QuietKeepsDrafts
<1>4. CASE RecordAudit(c) \/ Crash(c)
  <2>1. /\ rows' = rows /\ reviews' = reviews /\ op'[c] \in Op
        /\ \A d \in Clients \ {c} : op'[d] = op[d]
    BY <1>0, <1>4, AuditShape
  <2>2. CASE op'[c] = IdleOp
    <3>1. \A q \in Proposals : (Writes(c, q)' => Writes(c, q))
                                /\ (DraftedRejected(q)' => DraftedRejected(q))
      BY <2>1, <2>2 DEF Writes, DraftedRejected, IdleOp
    <3> QED
      BY <2>1, <2>2, <3>1, QuietKeepsDrafts DEF IdleOp
  <2>3. ASSUME NEW item \in op[c].queue,
               op'[c].id = item.id, op'[c].row = item.row, op'[c].step = "save",
               op'[c].queue = op[c].queue \ {item}, op'[c].action = op[c].action
        PROVE  CopiesAreOfDrafts' /\ CreatesAreAlone' /\ RejectedDraftsAreAlone'
    <3>1. \A q \in Proposals : (Writes(c, q)' => Writes(c, q))
                                /\ (DraftedRejected(q)' => DraftedRejected(q))
      BY <2>1, <2>3 DEF Writes, DraftedRejected
    <3>2. item.row.status # Absent
      BY DEF DraftInv, CopiesAreOfDrafts
    <3> QED
      BY <1>0, <2>1, <2>3, <3>1, <3>2, QuietKeepsDrafts
  <2> QED
    BY <1>0, <1>4, <2>2, <2>3, AuditShape
<1> QED
  BY <1>1, <1>2, <1>3, <1>4

\* Every step keeps a rejected draft rejected, in the table and in the copies.
LEMMA DraftStep == DraftInv /\ [Next]_vars => DraftInv'
<1> SUFFICES ASSUME DraftInv, [Next]_vars  PROVE DraftInv'
  OBVIOUS
<1>0. TypeOK /\ TypeOK'
  BY TypeStep DEF DraftInv
<1>1. ASSUME NEW c \in Clients, Request(c)  PROVE DraftInv'
  BY <1>0, <1>1, RequestStarts, StartKeepsDrafts DEF DraftInv
<1>2. ASSUME NEW c \in Clients, Proceed(c) \/ Crash(c)  PROVE DraftInv'
  BY <1>0, <1>2, SaveKeepsDrafts, RestKeepsDrafts DEF DraftInv, Proceed
<1>3. CASE Tick \/ UNCHANGED vars
  <2>1. rows' = rows /\ reviews' = reviews /\ op' = op
    BY <1>3 DEF Tick, vars, db
  <2> QED
    BY <1>0, <2>1 DEF DraftInv, CopiesAreOfDrafts, CreatesAreAlone, RejectedDraftsAreAlone,
                      DraftedRejected, Writes
<1> QED
  BY <1>1, <1>2, <1>3 DEF Next, Exhausted

\* However the clients interleave and crash, a draft the policy rejected at its
\* creation stays rejected: no stale pending copy of it can be written back.
THEOREM RejectedDraftsStayRejected == Spec => []RejectedDraftIsFinal
<1>1. Init => CopiesAreOfDrafts /\ CreatesAreAlone /\ RejectedDraftsAreAlone
  <2> SUFFICES ASSUME Init  PROVE CopiesAreOfDrafts /\ CreatesAreAlone /\ RejectedDraftsAreAlone
    OBVIOUS
  <2>1. \A c \in Clients : op[c].step = "idle" /\ op[c].queue = {}
    BY DEF Init, IdleOp
  <2>2. \A q \in Proposals : DOMAIN reviews[q] = {}
    BY DEF Init
  <2>3. CopiesAreOfDrafts /\ CreatesAreAlone
    BY <2>1 DEF CopiesAreOfDrafts, CreatesAreAlone
  <2>4. \A q \in Proposals : ~DraftedRejected(q)
    BY <2>1, <2>2 DEF DraftedRejected
  <2> QED
    BY <2>3, <2>4 DEF RejectedDraftsAreAlone
<1>2. Init => TypeOK
  BY BlankType, IdleOpType, BoundsAssumption DEF Init, TypeOK, Time
<1>3. DraftInv => RejectedDraftIsFinal
  BY DEF DraftInv, RejectedDraftsAreAlone, DraftedRejected, RejectedDraftIsFinal
<1> QED
  BY <1>1, <1>2, <1>3, DraftStep, PTL DEF Spec, DraftInv

(***************************************************************************)
(* The trail explains the row                                              *)
(*                                                                         *)
(* Between the commit of a row and the commit of its review the row is     *)
(* explained by what the client carries; between a review and its audit    *)
(* event the audit trail is behind by the clients that are on the way.     *)
(***************************************************************************)
\* A copy carries the timestamp its review will carry, and the status its
\* transition leaves.
CopiesAreStamped ==
  \A c \in Clients :
    /\ op[c].step \in {"save", "psnap"} => op[c].action \in Transitions
    /\ op[c].step \in {"save", "psnap", "review"} /\ op[c].action \in Transitions
         => op[c].row.updated = op[c].at /\ Leaves(Entry(op[c])) = op[c].row.status
    /\ \A item \in op[c].queue : item.row.updated = op[c].at /\ item.row.status = Cancelled
    /\ op[c].queue # {} => op[c].action = "expire" /\ op[c].step # "snapshot"

\* c has committed the row q has now and owes its review.
ReviewDue(c, q) ==
  /\ op[c].id = q /\ op[c].step \in {"psnap", "review"} /\ op[c].action \in Transitions
  /\ <<op[c].at, op[c].row.status, op[c].row.size, op[c].row.price>>
       = <<rows[q].updated, rows[q].status, rows[q].size, rows[q].price>>

RowsAreExplained ==
  crashes = 0 => \A q \in Proposals : rows[q].status # Absent =>
    Explained(q) \/ \E c \in Clients : ReviewDue(c, q)

AuditDue(q) == {c \in Clients : op[c].step = "audit" /\ op[c].id = q}

AuditsFollowReviews ==
  crashes = 0 => \A q \in Proposals :
    /\ IsFiniteSet(AuditDue(q))
    /\ Len(reviews[q]) = audits[q] + Cardinality(AuditDue(q))

\* The sizes and the prices the reviews of q tell, or an edit of q will tell.
Told(q, action) ==
  {c \in Clients : op[c].id = q /\ op[c].step \in {"save", "review"} /\ op[c].action = action}

SizesTold ==
  [q \in Proposals |-> {reviews[q][i].size : i \in DOMAIN reviews[q]}
                       \cup {op[c].row.size : c \in Told(q, "edit_size")}]

PricesTold ==
  [q \in Proposals |-> {reviews[q][i].price : i \in DOMAIN reviews[q]}
                       \cup {op[c].row.price : c \in Told(q, "edit_price")}]

\* The terms of row come from its draft or from those.
Traced(row, sizes, prices) ==
  /\ row.size = row.drafted[1] \/ row.size \in sizes
  /\ row.price = row.drafted[2] \/ row.price \in prices

TermsAreTraced ==
  crashes = 0 =>
    /\ \A q \in Proposals : rows[q].status # Absent => Traced(rows[q], SizesTold[q], PricesTold[q])
    /\ \A c \in Clients :
         /\ op[c].step \in {"snapshot", "save"}
              => Traced(op[c].row, SizesTold[op[c].id], PricesTold[op[c].id])
         /\ \A item \in op[c].queue :
              Traced(item.row, SizesTold[item.id], PricesTold[item.id])

TrailInv == /\ TypeOK /\ CopiesAreStamped /\ RowsAreExplained
            /\ AuditsFollowReviews /\ TermsAreTraced

\* The status a transition leaves follows from the operation's action.
LEMMA EntryLeaves ==
  ASSUME NEW o \in Op
  PROVE  Leaves(Entry(o)) = IF o.action = "create" THEN o.row.status
                            ELSE IF o.action \in Edits THEN Pending
                            ELSE IF o.action = "approve" THEN Approved
                            ELSE IF o.action = "revalidate_reject" THEN PolicyRejected
                            ELSE Cancelled
BY EntryShape DEF Leaves, Edits

\* Every step keeps the copies stamped.
LEMMA StampStep ==
  ASSUME TypeOK, CopiesAreStamped, NEW c \in Clients, Request(c) \/ Proceed(c) \/ Crash(c)
  PROVE  CopiesAreStamped'
<1>1. CASE Request(c)
  <2>1. PICK new \in Op : Starts(c, new)
    BY <1>1, RequestStarts
  <2>2. op'[c] = new /\ \A d \in Clients \ {c} : op'[d] = op[d]
    BY <2>1 DEF TypeOK, Starts
  <2>3. CASE Drafts(new)
    BY <2>1, <2>2, <2>3, EntryLeaves DEF CopiesAreStamped, Starts, Drafts, Transitions
  <2>4. CASE Changes(new)
    <3>1. /\ new.action \in Transitions /\ new.row.updated = new.at
          /\ Leaves(Entry(new)) = new.row.status
      BY <2>1, <2>4, EntryLeaves DEF Starts, Changes, Replaces, Transitions, Edits
    <3>2. \A item \in new.queue : item.row.updated = new.at /\ item.row.status = Cancelled
      BY <2>1, <2>4 DEF Starts, Changes, Replaces, Edits
    <3>3. new.queue # {} => new.action = "expire" /\ new.step # "snapshot"
      BY <2>4 DEF Changes
    <3> QED
      BY <2>2, <3>1, <3>2, <3>3 DEF CopiesAreStamped
  <2>5. CASE Annotates(new) \/ Asks(new)
    BY <2>1, <2>2, <2>5 DEF CopiesAreStamped, Starts, Annotates, Asks, Transitions
  <2> QED
    BY <2>1, <2>3, <2>4, <2>5 DEF Starts
<1>2. CASE ReceiveSnapshot(c)
  <2>1. {"approve", "revalidate_reject"} \subseteq Transitions
    BY DEF Transitions
  <2>2. Leaves(Entry(op'[c])) = op'[c].row.status
    BY <1>2, AnswerShape, EntryLeaves DEF Edits
  <2> QED
    BY <1>2, <2>1, <2>2, AnswerShape DEF CopiesAreStamped
<1>3. CASE SnapshotFails(c)
  <2>1. /\ op'[c].step = "review" /\ op'[c].action \notin Transitions /\ op'[c].queue = {}
        /\ \A d \in Clients \ {c} : op'[d] = op[d]
    BY <1>3, CommitShape DEF CopiesAreStamped, Transitions
  <2> QED
    BY <2>1 DEF CopiesAreStamped
<1>4. CASE SaveRow(c) \/ SaveProbabilitySnapshot(c) \/ RecordReview(c)
  <2>1. ~SnapshotFails(c)
    BY <1>4 DEF SnapshotFails, SaveRow, SaveProbabilitySnapshot, RecordReview
  <2>2. /\ op'[c].row = op[c].row /\ op'[c].at = op[c].at /\ op'[c].action = op[c].action
        /\ op'[c].queue = op[c].queue /\ Entry(op'[c]) = Entry(op[c])
        /\ op[c].step \in {"save", "psnap", "review"}
        /\ op'[c].step \in {"psnap", "review", "audit"}
        /\ op'[c].step = "psnap" => op[c].step = "save"
        /\ \A d \in Clients \ {c} : op'[d] = op[d]
    BY <1>4, <2>1, CommitShape DEF Entry
  <2> QED
    BY <2>2 DEF CopiesAreStamped
<1>5. CASE RecordAudit(c) \/ Crash(c)
  <2>1. op'[c] = IdleOp => CopiesAreStamped'
    BY <1>5, AuditShape DEF CopiesAreStamped, IdleOp
  <2>2. ASSUME NEW item \in op[c].queue,
               op'[c].row = item.row, op'[c].step = "save",
               op'[c].queue = op[c].queue \ {item}, op'[c].action = op[c].action,
               op'[c].at = op[c].at
        PROVE  CopiesAreStamped'
    <3>1. op[c].action = "expire" /\ item.row.updated = op[c].at /\ item.row.status = Cancelled
      BY DEF CopiesAreStamped
    <3>2. Leaves(Entry(op'[c])) = op'[c].row.status /\ "expire" \in Transitions
      BY <1>5, <2>2, <3>1, AuditShape, EntryLeaves DEF Edits, Transitions
    <3> QED
      BY <1>5, <2>2, <3>1, <3>2, AuditShape DEF CopiesAreStamped
  <2> QED
    BY <1>5, <2>1, <2>2, AuditShape
<1> QED
  BY <1>1, <1>2, <1>3, <1>4, <1>5 DEF Proceed

\* The review that explains a row.
Accounts(r, row) ==
  /\ r.action \in Transitions /\ r.at = row.updated /\ Leaves(r) = row.status
  /\ r.size \in {Unsaid, row.size} /\ r.price \in {Unsaid, row.price}

\* A review that is written stays in the trail.
LEMMA AppendKeepsExplained ==
  ASSUME TypeOK, NEW q \in Proposals, NEW r \in Review,
         reviews'[q] = reviews[q] \/ reviews'[q] = Append(reviews[q], r),
         rows'[q] = rows[q], Explained(q)
  PROVE  Explained(q)'
<1>1. reviews[q] \in Seq(Review)
  BY DEF TypeOK
<1>2. PICK i \in DOMAIN reviews[q] : Accounts(reviews[q][i], rows[q])
  BY DEF Explained, Accounts
<1>3. i \in DOMAIN reviews'[q] /\ reviews'[q][i] = reviews[q][i]
  BY <1>1
<1> QED
  BY <1>2, <1>3 DEF Explained, Accounts

\* Every step keeps the rows explained, as long as nothing has crashed.
LEMMA ExplainStep ==
  ASSUME TypeOK, CopiesAreStamped, RowsAreExplained, NEW c \in Clients,
         Request(c) \/ Proceed(c)
  PROVE  RowsAreExplained'
<1> SUFFICES ASSUME crashes' = 0, NEW q \in Proposals, rows'[q].status # Absent
             PROVE  Explained(q)' \/ \E d \in Clients : ReviewDue(d, q)'
  BY DEF RowsAreExplained
<1>0. op[c] \in Op /\ crashes = 0
  <2>1. Request(c) => crashes' = crashes
    BY RequestStarts DEF Starts
  <2>2. Proceed(c) => crashes' = crashes
    BY AnswerShape, CommitShape DEF Proceed, RecordAudit
  <2> QED
    BY <2>1, <2>2 DEF TypeOK
\* Nothing happens to the row or its reviews, and c owes q no review.
<1>1. ASSUME rows'[q] = rows[q], reviews'[q] = reviews[q], ~ReviewDue(c, q),
             \A d \in Clients \ {c} : op'[d] = op[d]
      PROVE  Explained(q)' \/ \E d \in Clients : ReviewDue(d, q)'
  <2>1. Explained(q) \/ \E d \in Clients \ {c} : ReviewDue(d, q)
    BY <1>0, <1>1 DEF RowsAreExplained
  <2> QED
    BY <1>1, <2>1 DEF Explained, ReviewDue
<1>2. CASE Request(c)
  <2>1. PICK new \in Op : Starts(c, new)
    BY <1>2, RequestStarts
  <2> QED
    BY <1>1, <2>1 DEF TypeOK, Starts, db, ReviewDue
<1>3. CASE ReceiveSnapshot(c)
  BY <1>1, <1>3, AnswerShape DEF db, ReviewDue
<1>4. CASE SnapshotFails(c)
  BY <1>1, <1>4, CommitShape DEF ReviewDue
<1>5. CASE SaveRow(c)
  <2>0. /\ op'[c].id = op[c].id /\ op'[c].row = op[c].row /\ op'[c].at = op[c].at
        /\ op'[c].action = op[c].action /\ op[c].step = "save"
        /\ op'[c].step \in {"psnap", "review"} /\ \A d \in Clients \ {c} : op'[d] = op[d]
    BY <1>5, CommitShape DEF SnapshotFails, SaveRow
  <2>1. CASE q = op[c].id
    <3>1. rows'[q] = op[c].row
      BY <1>5, <2>1 DEF TypeOK, SaveRow
    <3>2. op[c].row.updated = op[c].at /\ op[c].action \in Transitions
      BY <2>0 DEF CopiesAreStamped
    <3>3. ReviewDue(c, q)'
      BY <2>0, <2>1, <3>1, <3>2 DEF ReviewDue
    <3> QED
      BY <3>3
  <2>2. CASE q # op[c].id
    BY <1>1, <1>5, <2>0, <2>2 DEF TypeOK, SaveRow, ReviewDue
  <2> QED
    BY <2>1, <2>2
<1>6. CASE SaveProbabilitySnapshot(c)
  <2>1. /\ op'[c].id = op[c].id /\ op'[c].row = op[c].row /\ op'[c].at = op[c].at
        /\ op'[c].action = op[c].action /\ op'[c].step = "review"
        /\ \A d \in Clients \ {c} : op'[d] = op[d]
    BY <1>6, CommitShape DEF SnapshotFails, SaveProbabilitySnapshot
  <2>2. rows' = rows /\ reviews' = reviews
    BY <1>6 DEF SaveProbabilitySnapshot
  <2>3. ReviewDue(c, q) => ReviewDue(c, q)'
    BY <2>1, <2>2 DEF ReviewDue
  <2> QED
    BY <1>1, <2>1, <2>2, <2>3
<1>7. CASE RecordReview(c)
  <2> DEFINE r == Entry(op[c])
  <2>0. /\ rows' = rows /\ reviews' = [reviews EXCEPT ![op[c].id] = Append(reviews[op[c].id], r)]
        /\ r \in Review
    BY <1>0, <1>7, EntryShape DEF RecordReview
  <2>1. \A d \in Clients \ {c} : op'[d] = op[d]
    BY <1>7, CommitShape
  <2>2. CASE ReviewDue(c, q)
    <3>1. reviews'[q] = Append(reviews[q], r) /\ reviews[q] \in Seq(Review)
      BY <2>0, <2>2 DEF TypeOK, ReviewDue
    <3> DEFINE i == Len(reviews[q]) + 1
    <3>2. i \in DOMAIN reviews'[q] /\ reviews'[q][i] = r
      BY <2>0, <3>1
    <3>3. Accounts(r, rows[q])
      <4>1. Leaves(r) = rows[q].status
        BY <1>7, <2>2 DEF ReviewDue, CopiesAreStamped, RecordReview
      <4> QED
        BY <1>0, <2>2, <4>1, EntryShape DEF ReviewDue, Accounts
    <3> HIDE DEF r, i
    <3>4. Explained(q)'
      BY <2>0, <3>2, <3>3 DEF Explained, Accounts
    <3> QED
      BY <3>4
  <2>3. CASE ~ReviewDue(c, q)
    <3>1. reviews'[q] = reviews[q] \/ reviews'[q] = Append(reviews[q], r)
      BY SMTT(60), <2>0 DEF TypeOK
    <3>2. Explained(q) => Explained(q)'
      BY <2>0, <3>1, AppendKeepsExplained
    <3>3. \A d \in Clients \ {c} : ReviewDue(d, q) => ReviewDue(d, q)'
      BY <2>0, <2>1 DEF ReviewDue
    <3> QED
      BY <1>0, <2>0, <2>3, <3>2, <3>3 DEF RowsAreExplained
  <2> QED
    BY <2>2, <2>3
<1>8. CASE RecordAudit(c)
  <2>1. op[c].step = "audit"
    BY <1>8 DEF RecordAudit
  <2> QED
    BY <1>1, <1>8, <2>1, AuditShape DEF ReviewDue
<1> QED
  BY <1>2, <1>3, <1>4, <1>5, <1>6, <1>7, <1>8 DEF Proceed

\* What was told, or was about to be, still is after a step: an edit under way is
\* recorded before it is forgotten.
LEMMA ToldLasts ==
  ASSUME TypeOK, NEW c \in Clients, Request(c) \/ Proceed(c), NEW q \in Proposals
  PROVE  SizesTold[q] \subseteq SizesTold'[q] /\ PricesTold[q] \subseteq PricesTold'[q]
<1>0. op[c] \in Op /\ reviews[q] \in Seq(Review) /\ reviews \in [Proposals -> Seq(Review)]
  BY DEF TypeOK
<1>1. \A d \in Clients \ {c} : op'[d] = op[d]
  <2>1. CASE Request(c)
    BY <2>1, RequestStarts DEF Starts, TypeOK
  <2> QED
    BY <2>1, AnswerShape, CommitShape, AuditShape DEF Proceed
<1>2. \A i \in DOMAIN reviews[q] : i \in DOMAIN reviews'[q] /\ reviews'[q][i] = reviews[q][i]
  <2>1. CASE RecordReview(c)
    <3>1. Entry(op[c]) \in Review
      BY <1>0, EntryShape
    <3>2. reviews'[q] = reviews[q] \/ reviews'[q] = Append(reviews[q], Entry(op[c]))
      BY SMTT(60), <1>0, <2>1 DEF RecordReview
    <3> QED
      BY <1>0, <3>1, <3>2
  <2>2. CASE Request(c)
    BY <2>2, RequestStarts DEF Starts, db
  <2>3. CASE Proceed(c) /\ ~RecordReview(c)
    BY ZenonT(60), <2>3 DEF Proceed, ReceiveSnapshot, SnapshotFails, SaveRow,
                SaveProbabilitySnapshot, RecordAudit, db
  <2> QED
    BY <2>1, <2>2, <2>3
\* What c was about to record is recorded, or is still about to be.
<1>3. ASSUME NEW action \in {"edit_size", "edit_price"}, c \in Told(q, action)
      PROVE  \/ c \in Told(q, action)' /\ op'[c].row = op[c].row
             \/ \E i \in DOMAIN reviews'[q] : reviews'[q][i] = Entry(op[c])
  <2>0. op[c].id = q /\ op[c].step \in {"save", "review"} /\ op[c].action = action
    BY <1>3 DEF Told
  <2>1. CASE Request(c)
    BY <2>0, <2>1, RequestStarts DEF Starts
  <2>2. CASE SaveRow(c)
    BY <1>3, <2>0, <2>2, CommitShape DEF SnapshotFails, SaveRow, Told
  <2>3. CASE RecordReview(c)
    <3>1. Entry(op[c]) \in Review
      BY <1>0, EntryShape
    <3>2. reviews'[q] = Append(reviews[q], Entry(op[c]))
      BY <1>0, <2>0, <2>3 DEF RecordReview
    <3>3. Len(reviews[q]) + 1 \in DOMAIN reviews'[q]
          /\ reviews'[q][Len(reviews[q]) + 1] = Entry(op[c])
      BY <1>0, <3>1, <3>2
    <3> QED
      BY <3>3
  <2> QED
    BY <2>0, <2>1, <2>2, <2>3 DEF Proceed, ReceiveSnapshot, SnapshotFails,
       SaveProbabilitySnapshot, RecordAudit
<1>4. \A action : Told(q, action) \ {c} \subseteq Told(q, action)'
  BY <1>1 DEF Told
<1>5. SizesTold[q] \subseteq SizesTold'[q]
  <2>1. c \in Told(q, "edit_size") => op[c].row.size \in SizesTold'[q]
    <3>1. c \in Told(q, "edit_size") => Entry(op[c]).size = op[c].row.size
      BY <1>0, EntryShape DEF Told
    <3> QED
      BY <1>3, <3>1 DEF SizesTold
  <2>2. \A d \in Told(q, "edit_size") \ {c} : op[d].row.size \in SizesTold'[q]
    BY <1>1, <1>4 DEF SizesTold, Told
  <2> QED
    BY <1>2, <2>1, <2>2 DEF SizesTold
<1>6. PricesTold[q] \subseteq PricesTold'[q]
  <2>1. c \in Told(q, "edit_price") => op[c].row.price \in PricesTold'[q]
    <3>1. c \in Told(q, "edit_price") => Entry(op[c]).price = op[c].row.price
      BY <1>0, EntryShape DEF Told
    <3> QED
      BY <1>3, <3>1 DEF PricesTold
  <2>2. \A d \in Told(q, "edit_price") \ {c} : op[d].row.price \in PricesTold'[q]
    BY <1>1, <1>4 DEF PricesTold, Told
  <2> QED
    BY <1>2, <2>1, <2>2 DEF PricesTold
<1> QED
  BY <1>5, <1>6

\* Every step keeps the terms traced, as long as nothing has crashed.
LEMMA TraceStep ==
  ASSUME TypeOK, TermsAreTraced, NEW c \in Clients, Request(c) \/ Proceed(c)
  PROVE  TermsAreTraced'
<1> SUFFICES ASSUME crashes' = 0  PROVE TermsAreTraced'
  BY DEF TermsAreTraced
<1>0. op[c] \in Op /\ op \in [Clients -> Op] /\ crashes = 0
  <2>1. Request(c) => crashes' = crashes
    BY RequestStarts DEF Starts
  <2>2. Proceed(c) => crashes' = crashes
    BY AnswerShape, CommitShape DEF Proceed, RecordAudit
  <2> QED
    BY <2>1, <2>2 DEF TypeOK
<1>1. \A q \in Proposals : SizesTold[q] \subseteq SizesTold'[q] /\ PricesTold[q] \subseteq PricesTold'[q]
  BY ToldLasts
<1>2. ASSUME NEW q \in Proposals, NEW row, NEW old, Traced(old, SizesTold[q], PricesTold[q]),
             row.drafted = old.drafted, row.size = old.size, row.price = old.price
      PROVE  Traced(row, SizesTold'[q], PricesTold'[q])
  BY <1>1, <1>2 DEF Traced
\* It is enough that the step's own copy, its queue and the rows are traced.
<1>3. ASSUME \A d \in Clients \ {c} : op'[d] = op[d], op'[c] \in Op,
             op'[c].step \in {"snapshot", "save"} =>
               Traced(op'[c].row, SizesTold'[op'[c].id], PricesTold'[op'[c].id]),
             \A item \in op'[c].queue :
               Traced(item.row, SizesTold'[item.id], PricesTold'[item.id]),
             \A q \in Proposals : rows'[q] # rows[q] =>
               op[c].step = "save" /\ q = op[c].id /\ rows'[q] = op[c].row
      PROVE  TermsAreTraced'
  <2>1. ASSUME NEW d \in Clients \ {c}
        PROVE  /\ op'[d].step \in {"snapshot", "save"} =>
                    Traced(op'[d].row, SizesTold'[op'[d].id], PricesTold'[op'[d].id])
               /\ \A item \in op'[d].queue :
                    Traced(item.row, SizesTold'[item.id], PricesTold'[item.id])
    <3>1. op'[d] = op[d] /\ op[d] \in Op
      BY <1>0, <1>3
    <3>2. /\ op[d].step \in {"snapshot", "save"} =>
                Traced(op[d].row, SizesTold[op[d].id], PricesTold[op[d].id])
          /\ \A item \in op[d].queue : Traced(item.row, SizesTold[item.id], PricesTold[item.id])
      BY <1>0 DEF TermsAreTraced
    <3>3. op[d].id \in Proposals /\ \A item \in op[d].queue : item.id \in Proposals
      BY <3>1 DEF Op
    <3>4. op[d].step \in {"snapshot", "save"} =>
            Traced(op[d].row, SizesTold'[op[d].id], PricesTold'[op[d].id])
      BY <1>1, <3>2, <3>3 DEF Traced
    <3>5. \A item \in op[d].queue : Traced(item.row, SizesTold'[item.id], PricesTold'[item.id])
      BY <1>1, <3>2, <3>3 DEF Traced
    <3> QED
      BY <3>1, <3>4, <3>5
  <2>2. ASSUME NEW q \in Proposals, rows'[q].status # Absent
        PROVE  Traced(rows'[q], SizesTold'[q], PricesTold'[q])
    <3>1. Traced(rows'[q], SizesTold[q], PricesTold[q])
      BY <1>0, <1>3, <2>2 DEF TermsAreTraced
    <3> QED
      BY <1>1, <3>1 DEF Traced
  <2> QED
    BY <1>3, <2>1, <2>2 DEF TermsAreTraced
<1>4. CASE Request(c)
  <2>1. PICK new \in Op : Starts(c, new)
    BY <1>4, RequestStarts
  <2>2. op'[c] = new /\ \A d \in Clients \ {c} : op'[d] = op[d]
    BY <2>1 DEF TypeOK, Starts
  <2>3. rows' = rows
    BY <2>1 DEF Starts, db
  <2>4. ASSUME NEW q \in Proposals, NEW row, NEW action, Replaces(q, action, row),
               action = "edit_size" => row.size \in SizesTold'[q],
               action = "edit_price" => row.price \in PricesTold'[q]
        PROVE  Traced(row, SizesTold'[q], PricesTold'[q])
    <3>1. Traced(rows[q], SizesTold[q], PricesTold[q]) /\ Follows(rows[q], action, row)
          /\ action # "create"
      BY <1>0, <2>4 DEF TermsAreTraced, Replaces, Edits
    <3> QED
      BY <1>1, <2>4, <3>1 DEF Traced, Follows
  <2>5. CASE Drafts(new)
    BY <1>3, <2>2, <2>3, <2>5 DEF Drafts, Follows, Traced
  <2>6. CASE Changes(new)
    <3>1. Replaces(new.id, new.action, new.row) /\ new.step = "save" /\ new.id \in Proposals
      BY <2>6 DEF Changes, Op
    <3>2. new.action \in {"edit_size", "edit_price"} => c \in Told(new.id, new.action)'
      BY <2>2, <3>1 DEF Told
    <3>3. /\ new.action = "edit_size" => new.row.size \in SizesTold'[new.id]
          /\ new.action = "edit_price" => new.row.price \in PricesTold'[new.id]
      BY <2>2, <3>1, <3>2 DEF SizesTold, PricesTold
    <3>4. Traced(new.row, SizesTold'[new.id], PricesTold'[new.id])
      BY <2>4, <3>1, <3>3
    <3>5. \A item \in new.queue : item.id \in Proposals /\ Replaces(item.id, "expire", item.row)
      BY <2>6 DEF Changes, Op
    <3>6. \A item \in new.queue : Traced(item.row, SizesTold'[item.id], PricesTold'[item.id])
      BY <2>4, <3>5
    <3> QED
      BY <1>3, <2>2, <2>3, <3>4, <3>6
  <2>7. CASE Annotates(new) \/ Asks(new)
    <3>1. new.row = rows[new.id] /\ rows[new.id].status # Absent /\ new.queue = {}
          /\ new.id \in Proposals
      BY <2>7 DEF Annotates, Asks, Op
    <3>2. Traced(new.row, SizesTold'[new.id], PricesTold'[new.id])
      BY <1>0, <1>1, <3>1 DEF TermsAreTraced, Traced
    <3> QED
      BY <1>3, <2>2, <2>3, <3>1, <3>2
  <2> QED
    BY <2>1, <2>5, <2>6, <2>7 DEF Starts
\* A client that goes on has a copy it had already.
<1>5. ASSUME op'[c] \in Op, \A d \in Clients \ {c} : op'[d] = op[d],
             op'[c].step \in {"snapshot", "save"} =>
               \/ /\ op[c].step \in {"snapshot", "save"} /\ op'[c].id = op[c].id
                  /\ op'[c].row.drafted = op[c].row.drafted
                  /\ op'[c].row.size = op[c].row.size /\ op'[c].row.price = op[c].row.price
               \/ \E item \in op[c].queue : op'[c].id = item.id /\ op'[c].row = item.row,
             op'[c].queue \subseteq op[c].queue,
             \A q \in Proposals : rows'[q] # rows[q] =>
               op[c].step = "save" /\ q = op[c].id /\ rows'[q] = op[c].row
      PROVE  TermsAreTraced'
  <2>1. /\ op[c].step \in {"snapshot", "save"}
            => Traced(op[c].row, SizesTold[op[c].id], PricesTold[op[c].id])
        /\ \A item \in op[c].queue : Traced(item.row, SizesTold[item.id], PricesTold[item.id])
    BY <1>0 DEF TermsAreTraced
  <2>2. op[c].id \in Proposals /\ \A item \in op[c].queue : item.id \in Proposals
    BY <1>0 DEF Op
  <2>3. \A item \in op[c].queue : Traced(item.row, SizesTold'[item.id], PricesTold'[item.id])
    BY <1>1, <2>1, <2>2 DEF Traced
  <2>4. op'[c].step \in {"snapshot", "save"} =>
          Traced(op'[c].row, SizesTold'[op'[c].id], PricesTold'[op'[c].id])
    <3>1. CASE \E item \in op[c].queue : op'[c].id = item.id /\ op'[c].row = item.row
      BY <2>3, <3>1
    <3>2. CASE /\ op[c].step \in {"snapshot", "save"} /\ op'[c].id = op[c].id
               /\ op'[c].row.drafted = op[c].row.drafted
               /\ op'[c].row.size = op[c].row.size /\ op'[c].row.price = op[c].row.price
      <4>1. Traced(op'[c].row, SizesTold'[op[c].id], PricesTold'[op[c].id])
        BY <1>2, <2>1, <2>2, <3>2
      <4> QED
        BY <3>2, <4>1
    <3> QED
      BY <1>5, <3>1, <3>2
  <2> QED
    BY <1>3, <1>5, <2>3, <2>4
<1>6. CASE ReceiveSnapshot(c)
  BY <1>5, <1>6, AnswerShape DEF db
<1>7. CASE SnapshotFails(c) \/ SaveProbabilitySnapshot(c) \/ RecordReview(c)
  <2>1. /\ op'[c] \in Op /\ op'[c].step \notin {"snapshot", "save"} /\ op'[c].queue = op[c].queue
        /\ \A d \in Clients \ {c} : op'[d] = op[d]
    BY <1>7, CommitShape
  <2>2. rows' = rows
    BY <1>7 DEF SnapshotFails, SaveProbabilitySnapshot, RecordReview, db
  <2> QED
    BY <1>5, <2>1, <2>2
<1>8. CASE SaveRow(c)
  <2>1. /\ op'[c] \in Op /\ op'[c].step \notin {"snapshot", "save"} /\ op'[c].queue = op[c].queue
        /\ op[c].step = "save" /\ \A d \in Clients \ {c} : op'[d] = op[d]
    BY <1>8, CommitShape
  <2>2. \A q \in Proposals : rows'[q] = rows[q] \/ (q = op[c].id /\ rows'[q] = op[c].row)
    BY <1>8 DEF TypeOK, SaveRow
  <2> QED
    BY <1>5, <2>1, <2>2
<1>9. CASE RecordAudit(c)
  <2>1. CASE op'[c] = IdleOp
    BY <1>5, <1>9, <2>1, AuditShape DEF IdleOp
  <2>2. CASE \E item \in op[c].queue : /\ op'[c].id = item.id /\ op'[c].row = item.row
                                       /\ op'[c].queue = op[c].queue \ {item}
    BY <1>5, <1>9, <2>2, AuditShape
  <2> QED
    BY <1>9, <2>1, <2>2, AuditShape
<1> QED
  BY <1>4, <1>6, <1>7, <1>8, <1>9 DEF Proceed

\* Every step keeps the two trails together, as long as nothing has crashed.
LEMMA AuditStep ==
  ASSUME TypeOK, AuditsFollowReviews, NEW c \in Clients, Request(c) \/ Proceed(c)
  PROVE  AuditsFollowReviews'
<1> SUFFICES ASSUME crashes' = 0, NEW q \in Proposals
             PROVE  /\ IsFiniteSet(AuditDue(q))'
                    /\ Len(reviews'[q]) = audits'[q] + Cardinality(AuditDue(q))'
  BY DEF AuditsFollowReviews
<1>0. op[c] \in Op /\ crashes = 0
  <2>1. Request(c) => crashes' = crashes
    BY RequestStarts DEF Starts
  <2>2. Proceed(c) => crashes' = crashes
    BY AnswerShape, CommitShape DEF Proceed, RecordAudit
  <2> QED
    BY <2>1, <2>2 DEF TypeOK
<1>1. /\ IsFiniteSet(AuditDue(q)) /\ Cardinality(AuditDue(q)) \in Nat
      /\ Len(reviews[q]) = audits[q] + Cardinality(AuditDue(q))
      /\ reviews[q] \in Seq(Review) /\ audits[q] \in Nat
  BY <1>0, FS_CardinalityType DEF TypeOK, AuditsFollowReviews
\* Nothing is written, and nobody starts or stops owing q an audit event.
<1>2. ASSUME reviews'[q] = reviews[q], audits'[q] = audits[q], AuditDue(q)' = AuditDue(q)
      PROVE  /\ IsFiniteSet(AuditDue(q))'
             /\ Len(reviews'[q]) = audits'[q] + Cardinality(AuditDue(q))'
  BY <1>1, <1>2
<1>3. CASE Request(c)
  <2>1. PICK new \in Op : Starts(c, new)
    BY <1>3, RequestStarts
  <2>2. new.step # "audit" /\ op[c].step # "audit"
    BY <2>1 DEF Starts, Drafts, Changes, Annotates, Asks
  <2>3. op'[c] = new /\ \A d \in Clients \ {c} : op'[d] = op[d]
    BY <2>1 DEF TypeOK, Starts
  <2>4. AuditDue(q)' = AuditDue(q)
    BY <2>2, <2>3 DEF AuditDue
  <2> QED
    BY <1>2, <2>1, <2>4 DEF Starts, db
<1>4. CASE ReceiveSnapshot(c) \/ SnapshotFails(c) \/ SaveRow(c) \/ SaveProbabilitySnapshot(c)
  <2>1. /\ op[c].step # "audit" /\ op'[c].step # "audit"
        /\ \A d \in Clients \ {c} : op'[d] = op[d]
    BY <1>4, AnswerShape, CommitShape
  <2>2. AuditDue(q)' = AuditDue(q)
    BY <2>1 DEF AuditDue
  <2>3. reviews' = reviews /\ audits' = audits
    BY <1>4, AnswerShape DEF SnapshotFails, SaveRow, SaveProbabilitySnapshot, db
  <2> QED
    BY <1>2, <2>2, <2>3
<1>5. CASE RecordReview(c)
  <2>1. /\ op[c].step = "review" /\ op'[c].step = "audit" /\ op'[c].id = op[c].id
        /\ \A d \in Clients \ {c} : op'[d] = op[d]
    BY <1>5, CommitShape
  <2>2. audits' = audits
    BY <1>5 DEF RecordReview
  <2>3. CASE q = op[c].id
    <3>1. AuditDue(q)' = AuditDue(q) \cup {c} /\ c \notin AuditDue(q)
      BY <2>1, <2>3 DEF AuditDue
    <3>2. Len(reviews'[q]) = Len(reviews[q]) + 1
      BY <1>1, <1>5, <2>3 DEF TypeOK, RecordReview
    <3> HIDE DEF AuditDue
    <3>3. IsFiniteSet(AuditDue(q) \cup {c})
          /\ Cardinality(AuditDue(q) \cup {c}) = Cardinality(AuditDue(q)) + 1
      BY <1>1, <3>1, FS_AddElement
    <3> QED
      BY <1>1, <2>2, <3>1, <3>2, <3>3
  <2>4. CASE q # op[c].id
    <3>1. AuditDue(q)' = AuditDue(q)
      BY <2>1, <2>4 DEF AuditDue
    <3> QED
      BY <1>2, <1>5, <2>2, <2>4, <3>1 DEF TypeOK, RecordReview
  <2> QED
    BY <2>3, <2>4
<1>6. CASE RecordAudit(c)
  <2>1. /\ op[c].step = "audit" /\ op'[c].step # "audit"
        /\ \A d \in Clients \ {c} : op'[d] = op[d]
    <3>1. op[c].step = "audit"
      BY <1>6 DEF RecordAudit
    <3>2. IdleOp.step # "audit"
      BY DEF IdleOp
    <3> QED
      BY <1>6, <3>1, <3>2, AuditShape
  <2>2. reviews' = reviews /\ audits' = [audits EXCEPT ![op[c].id] = audits[op[c].id] + 1]
    BY <1>6 DEF RecordAudit
  <2>3. CASE q = op[c].id
    <3>1. AuditDue(q)' = AuditDue(q) \ {c} /\ c \in AuditDue(q)
      BY <2>1, <2>3 DEF AuditDue
    <3>2. audits'[q] = audits[q] + 1
      BY <2>2, <2>3 DEF TypeOK
    <3>3. IsFiniteSet(AuditDue(q) \ {c})
          /\ Cardinality(AuditDue(q) \ {c}) = Cardinality(AuditDue(q)) - 1
      BY <1>1, <3>1, FS_RemoveElement
    <3> QED
      BY <1>1, <2>2, <3>1, <3>2, <3>3
  <2>4. CASE q # op[c].id
    <3>1. AuditDue(q)' = AuditDue(q)
      BY <2>1, <2>4 DEF AuditDue
    <3> QED
      BY <1>2, <2>2, <2>4, <3>1 DEF TypeOK
  <2> QED
    BY <2>3, <2>4
<1> QED
  BY <1>3, <1>4, <1>5, <1>6 DEF Proceed

\* Every step keeps the trails behind the rows by what the clients still have to write.
LEMMA TrailStep == TrailInv /\ [Next]_vars => TrailInv'
<1> SUFFICES ASSUME TrailInv, [Next]_vars  PROVE TrailInv'
  OBVIOUS
<1>0. TypeOK /\ TypeOK'
  BY TypeStep DEF TrailInv
<1>1. ASSUME NEW c \in Clients, Request(c) \/ Proceed(c)  PROVE TrailInv'
  BY <1>0, <1>1, StampStep, ExplainStep, AuditStep, TraceStep DEF TrailInv
<1>2. ASSUME NEW c \in Clients, Crash(c)  PROVE TrailInv'
  <2>1. crashes' # 0
    BY <1>0, <1>2, BoundsAssumption DEF TypeOK, Crash
  <2> QED
    BY <1>0, <1>2, <2>1, StampStep
       DEF TrailInv, RowsAreExplained, AuditsFollowReviews, TermsAreTraced
<1>3. CASE Tick \/ UNCHANGED vars
  <2>1. UNCHANGED <<rows, reviews, audits, op, crashes>>
    BY <1>3 DEF Tick, vars, db
  <2>2. CopiesAreStamped' /\ RowsAreExplained'
    BY <2>1 DEF TrailInv, CopiesAreStamped, RowsAreExplained, Explained, ReviewDue
  <2>3. \A q \in Proposals : AuditDue(q)' = AuditDue(q)
    BY <2>1 DEF AuditDue
  <2>4. AuditsFollowReviews'
    BY <2>1, <2>3 DEF TrailInv, AuditsFollowReviews
  <2>5. \A q \in Proposals : SizesTold'[q] = SizesTold[q] /\ PricesTold'[q] = PricesTold[q]
    BY <2>1 DEF SizesTold, PricesTold, Told
  <2>6. \A c \in Clients : /\ op[c].id \in Proposals
                           /\ \A item \in op[c].queue : item.id \in Proposals
    BY <1>0 DEF TypeOK, Op
  <2>7. TermsAreTraced'
    BY <2>1, <2>5, <2>6 DEF TrailInv, TermsAreTraced
  <2> QED
    BY <1>0, <2>2, <2>4, <2>7 DEF TrailInv
<1> QED
  BY <1>1, <1>2, <1>3 DEF Next, Exhausted

\* Rows and trails are empty at the start.
LEMMA TrailInit == Init => TrailInv
<1> SUFFICES ASSUME Init  PROVE TrailInv
  OBVIOUS
<1>1. TypeOK
  BY BlankType, IdleOpType, BoundsAssumption DEF Init, TypeOK, Time
<1>2. \A c \in Clients : op[c].step = "idle" /\ op[c].queue = {}
  BY DEF Init, IdleOp
<1>3. CopiesAreStamped
  BY <1>2 DEF CopiesAreStamped
<1>4. RowsAreExplained
  BY DEF Init, RowsAreExplained, Blank
<1>5. AuditsFollowReviews
  <2>1. \A q \in Proposals : AuditDue(q) = {} /\ Len(reviews[q]) = 0 /\ audits[q] = 0
    BY <1>2 DEF Init, AuditDue
  <2>2. \A q \in Proposals : IsFiniteSet(AuditDue(q)) /\ Cardinality(AuditDue(q)) = 0
    BY <2>1, FS_EmptySet
  <2> QED
    BY <2>1, <2>2 DEF AuditsFollowReviews
<1>6. TermsAreTraced
  BY <1>2 DEF Init, TermsAreTraced, Blank
<1> QED
  BY <1>1, <1>3, <1>4, <1>5, <1>6 DEF TrailInv

\* However many clients work on a proposal at once, without a crash the row an
\* operator finds is the work of one recorded transition, its size and its price
\* are the draft's or some review's, and no audit event is lost.
THEOREM TrailsExplainRows == Spec => []TrailExplainsRow
<1>1. TrailInv => TrailExplainsRow
  <2> SUFFICES ASSUME TrailInv, NEW q \in Proposals,
                      crashes = 0, rows[q].status # Absent, Settled(q)
               PROVE  Explained(q) /\ Traceable(q) /\ audits[q] = Len(reviews[q])
    BY DEF TrailExplainsRow
  <2>1. AuditDue(q) = {} /\ \A c \in Clients : ~ReviewDue(c, q)
    BY DEF Settled, AuditDue, ReviewDue
  <2>2. Explained(q)
    BY <2>1 DEF TrailInv, RowsAreExplained
  <2>3. Len(reviews[q]) = audits[q] + 0
    BY <2>1, FS_EmptySet DEF TrailInv, AuditsFollowReviews
  <2>4. \A action : Told(q, action) = {}
    BY DEF Settled, Told
  <2>5. Traceable(q)
    BY <2>4 DEF TrailInv, TermsAreTraced, Traced, SizesTold, PricesTold, Traceable
  <2> QED
    BY <2>2, <2>3, <2>5 DEF TrailInv, TypeOK
<1> QED
  BY <1>1, TrailInit, TrailStep, PTL DEF Spec

-------------------------------------------------------------------------------
(***************************************************************************)
(* One client at a time.                                                   *)
(***************************************************************************)
AtMostOneClient == \A c, d \in Clients : c = d

(***************************************************************************)
(* The invariant: what a client read is still what is stored, so its copy  *)
(* may lawfully replace the row, and a row whose review or snapshot is not *)
(* written yet is the one the client is working on.                        *)
(***************************************************************************)
OneAtATime ==
  \A c \in Clients :
    /\ op[c].step = "snapshot" => op[c].row = rows[op[c].id] /\ op[c].row.status = Pending
    /\ op[c].step = "save" =>
         /\ Lawful(rows[op[c].id], op[c].row) /\ Follows(rows[op[c].id], op[c].action, op[c].row)
         /\ rows[op[c].id].status = Absent <=> op[c].action = "create"
    /\ op[c].step \in {"psnap", "review", "audit"} =>
         op[c].row = rows[op[c].id] /\ op[c].row.status # Absent
    /\ op[c].step = "save" /\ op[c].row.status = Approved => op[c].action = "approve"
    /\ \A item \in op[c].queue :
         /\ Lawful(rows[item.id], item.row) /\ item.row.status # Approved
         /\ Follows(rows[item.id], "expire", item.row) /\ rows[item.id].status # Absent
         /\ item.id # op[c].id
         /\ \A other \in op[c].queue : other.id = item.id => other = item

\* c has committed the row of q and owes the review that replays it.
Owes(c, q) ==
  op[c].id = q /\ op[c].step \in {"psnap", "review"} /\ op[c].action \in Transitions

TrailReplays ==
  crashes = 0 => \A q \in Proposals :
    /\ rows[q].status = Absent => reviews[q] = << >>
    /\ rows[q].status # Absent =>
         /\ \A c \in Clients :
              Owes(c, q) => Replays(Append(reviews[q], Entry(op[c])), rows[q])
         /\ (\A c \in Clients : ~Owes(c, q)) => Replays(reviews[q], rows[q])

EvidenceIsLatest ==
  crashes = 0 => \A q \in Proposals : rows[q].status = Approved =>
    \/ Final(psnaps[q]) = [at |-> rows[q].updated, view |-> rows[q].view]
    \/ \E c \in Clients : op[c].id = q /\ op[c].step = "psnap"

SingleInv == TypeOK /\ CopiesAreStamped /\ OneAtATime /\ TrailReplays /\ EvidenceIsLatest

\* What is appended to a trail is its newest entry.
LEMMA FinalOfAppend ==
  ASSUME NEW S, NEW seq \in Seq(S), NEW e
  PROVE  Final(Append(seq, e)) = e
<1>1. Len(Append(seq, e)) = Len(seq) + 1 /\ Len(seq) \in Nat
  OBVIOUS
<1>2. Append(seq, e)[Len(seq) + 1] = e
  OBVIOUS
<1> QED
  BY <1>1, <1>2 DEF Final

\* A client that reads while nobody else works carries a lawful copy.
LEMMA AloneStep ==
  ASSUME AtMostOneClient, TypeOK, CopiesAreStamped, OneAtATime, NEW c \in Clients,
         Request(c) \/ Proceed(c) \/ Crash(c)
  PROVE  OneAtATime'
<1>0. op[c] \in Op /\ Clients = {c}
  BY DEF AtMostOneClient, TypeOK
<1>1. CASE Request(c)
  <2>1. PICK new \in Op : Starts(c, new)
    BY <1>1, RequestStarts
  <2>2. op'[c] = new /\ rows' = rows
    BY <2>1 DEF TypeOK, Starts, db
  <2>3. CASE Drafts(new)
    BY <1>0, <2>2, <2>3 DEF OneAtATime, Drafts, Lawful
  <2>4. CASE Changes(new)
    BY <1>0, <2>2, <2>4 DEF OneAtATime, Changes, Replaces, Edits
  <2>5. CASE Annotates(new) \/ Asks(new)
    BY <1>0, <2>2, <2>5 DEF OneAtATime, Annotates, Asks
  <2> QED
    BY <2>1, <2>3, <2>4, <2>5 DEF Starts
<1>2. CASE ReceiveSnapshot(c)
  <2>1. /\ op'[c].step = "save" /\ op'[c].id = op[c].id /\ op'[c].queue = {}
        /\ op'[c].row.status \in {Approved, PolicyRejected}
        /\ op'[c].row.status = Approved => op'[c].action = "approve"
        /\ op'[c].row.size = op[c].row.size /\ op'[c].row.price = op[c].row.price
        /\ op'[c].row.drafted = op[c].row.drafted
        /\ op'[c].action \in {"approve", "revalidate_reject"}
        /\ op[c].step = "snapshot" /\ rows' = rows
    BY <1>2, AnswerShape DEF CopiesAreStamped, db
  <2>2. op[c].row = rows[op[c].id] /\ op[c].row.status = Pending
    BY <2>1 DEF OneAtATime
  <2>3. /\ Lawful(rows[op[c].id], op'[c].row)
        /\ Follows(rows[op[c].id], op'[c].action, op'[c].row)
    BY <2>1, <2>2 DEF Lawful, Follows
  <2> QED
    BY <1>0, <2>1, <2>2, <2>3 DEF OneAtATime
<1>3. CASE SnapshotFails(c)
  <2>1. /\ op'[c].step = "review" /\ op'[c].id = op[c].id /\ op'[c].row = op[c].row
        /\ op'[c].queue = {} /\ op[c].step = "snapshot" /\ rows' = rows
    BY <1>3, CommitShape DEF CopiesAreStamped
  <2> QED
    BY <1>0, <2>1 DEF OneAtATime
<1>4. CASE SaveRow(c)
  <2>1. /\ op'[c].step \in {"psnap", "review"} /\ op'[c].id = op[c].id
        /\ op'[c].row = op[c].row /\ op'[c].queue = op[c].queue
    BY <1>4, CommitShape
  <2>2. /\ rows'[op[c].id] = op[c].row
        /\ \A q \in Proposals \ {op[c].id} : rows'[q] = rows[q]
        /\ \A item \in op[c].queue : item.id \in Proposals
    BY <1>0, <1>4 DEF TypeOK, SaveRow, Op
  <2>3. op[c].row.status # Absent
    BY <1>4 DEF OneAtATime, Lawful, SaveRow
  <2> QED
    BY <1>0, <2>1, <2>2, <2>3 DEF OneAtATime
<1>5. CASE SaveProbabilitySnapshot(c) \/ RecordReview(c)
  <2>1. /\ op'[c].step \in {"review", "audit"} /\ op'[c].id = op[c].id
        /\ op'[c].row = op[c].row /\ op'[c].queue = op[c].queue
        /\ op[c].step \in {"psnap", "review"}
    BY <1>5, CommitShape
  <2>2. rows' = rows
    BY <1>5 DEF SaveProbabilitySnapshot, RecordReview
  <2> QED
    BY <1>0, <2>1, <2>2 DEF OneAtATime
<1>6. CASE RecordAudit(c) \/ Crash(c)
  <2>0. rows' = rows
    BY <1>6, AuditShape
  <2>1. CASE op'[c] = IdleOp
    BY <1>0, <2>0, <2>1 DEF OneAtATime, IdleOp
  <2>2. ASSUME NEW item \in op[c].queue,
               op'[c].id = item.id, op'[c].row = item.row, op'[c].step = "save",
               op'[c].queue = op[c].queue \ {item}, op'[c].action = op[c].action
        PROVE  OneAtATime'
    <3>1. op'[c].action = "expire"
      BY <2>2 DEF CopiesAreStamped
    <3> QED
      BY <1>0, <2>0, <2>2, <3>1 DEF OneAtATime
  <2> QED
    BY <1>6, <2>1, <2>2, AuditShape
<1> QED
  BY <1>1, <1>2, <1>3, <1>4, <1>5, <1>6 DEF Proceed

\* What was told last of a term, after one more review.
LEMMA LastToldGrows ==
  ASSUME NEW n \in Nat, NEW told, NEW more, NEW drafted, NEW value,
         DOMAIN told = 1 .. n, DOMAIN more = 1 .. (n + 1),
         \A i \in 1 .. n : more[i] = told[i],
         \/ more[n + 1] = value
         \/ more[n + 1] = Unsaid /\ LastTold(told, drafted, value)
  PROVE  LastTold(more, drafted, value)
<1>1. CASE more[n + 1] = value
  <2>1. n + 1 \in DOMAIN more /\ \A j \in DOMAIN more : ~(j > n + 1)
    OBVIOUS
  <2> QED
    BY <1>1, <2>1 DEF LastTold
<1>2. CASE more[n + 1] = Unsaid /\ LastTold(told, drafted, value)
  <2>1. CASE value = drafted /\ \A i \in DOMAIN told : told[i] = Unsaid
    <3>1. \A i \in DOMAIN more : more[i] = Unsaid
      BY <1>2, <2>1
    <3> QED
      BY <2>1, <3>1 DEF LastTold
  <2>2. ASSUME NEW i \in DOMAIN told, told[i] = value,
               \A j \in DOMAIN told : j > i => told[j] = Unsaid
        PROVE  LastTold(more, drafted, value)
    <3>1. i \in DOMAIN more /\ more[i] = value
      BY <2>2
    <3>2. \A j \in DOMAIN more : j > i => more[j] = Unsaid
      BY <1>2, <2>2
    <3> QED
      BY <3>1, <3>2 DEF LastTold
  <2> QED
    BY <1>2, <2>1, <2>2 DEF LastTold
<1> QED
  BY <1>1, <1>2

\* A trail that replays to a row, with a note at its end, still does.
LEMMA NoteKeepsReplay ==
  ASSUME NEW trail \in Seq(Review), NEW r \in Review, NEW row, Replays(trail, row),
         r.action \in Notes, r.size = Unsaid, r.price = Unsaid
  PROVE  Replays(Append(trail, r), row)
<1> DEFINE n == Len(trail)
           more == Append(trail, r)
<1>1. /\ n \in Nat /\ DOMAIN trail = 1 .. n /\ DOMAIN more = 1 .. (n + 1)
      /\ more[n + 1] = r /\ \A i \in 1 .. n : more[i] = trail[i]
  OBVIOUS
<1> HIDE DEF n, more
<1>2. PICK i \in DOMAIN trail :
        /\ trail[i].action \in Transitions /\ Leaves(trail[i]) = row.status
        /\ \A j \in DOMAIN trail : j > i => trail[j].action \in Notes
  BY DEF Replays
<1>3. /\ i \in DOMAIN more /\ more[i].action \in Transitions /\ Leaves(more[i]) = row.status
      /\ \A j \in DOMAIN more : j > i => more[j].action \in Notes
  BY <1>1, <1>2
<1>4. LastTold([k \in DOMAIN more |-> more[k].size], row.drafted[1], row.size)
  <2> DEFINE told == [k \in DOMAIN trail |-> trail[k].size]
             tolds == [k \in DOMAIN more |-> more[k].size]
  <2>1. /\ DOMAIN told = 1 .. n /\ DOMAIN tolds = 1 .. (n + 1)
        /\ tolds[n + 1] = Unsaid /\ \A k \in 1 .. n : tolds[k] = told[k]
    BY <1>1
  <2>2. LastTold(told, row.drafted[1], row.size)
    BY DEF Replays
  <2> HIDE DEF told, tolds
  <2>3. LastTold(tolds, row.drafted[1], row.size)
    BY <1>1, <2>1, <2>2, LastToldGrows
  <2> QED
    BY <2>3 DEF tolds
<1>5. LastTold([k \in DOMAIN more |-> more[k].price], row.drafted[2], row.price)
  <2> DEFINE told == [k \in DOMAIN trail |-> trail[k].price]
             tolds == [k \in DOMAIN more |-> more[k].price]
  <2>1. /\ DOMAIN told = 1 .. n /\ DOMAIN tolds = 1 .. (n + 1)
        /\ tolds[n + 1] = Unsaid /\ \A k \in 1 .. n : tolds[k] = told[k]
    BY <1>1
  <2>2. LastTold(told, row.drafted[2], row.price)
    BY DEF Replays
  <2> HIDE DEF told, tolds
  <2>3. LastTold(tolds, row.drafted[2], row.price)
    BY <1>1, <2>1, <2>2, LastToldGrows
  <2> QED
    BY <2>3 DEF tolds
<1> QED
  BY <1>3, <1>4, <1>5 DEF Replays, more

\* A transition from the row a trail replays to, with its review at the end.
LEMMA ReplayGrows ==
  ASSUME NEW trail \in Seq(Review), NEW o \in Op, NEW old,
         o.action \in Transitions, Leaves(Entry(o)) = o.row.status,
         Follows(old, o.action, o.row),
         IF o.action = "create" THEN trail = << >> ELSE Replays(trail, old)
  PROVE  Replays(Append(trail, Entry(o)), o.row)
<1> DEFINE n == Len(trail)
           r == Entry(o)
           more == Append(trail, r)
<1>0. r \in Review
  BY EntryShape
<1>1. /\ n \in Nat /\ DOMAIN trail = 1 .. n /\ DOMAIN more = 1 .. (n + 1)
      /\ more[n + 1] = r /\ \A i \in 1 .. n : more[i] = trail[i]
  BY <1>0
<1>2. /\ r.action \in Transitions /\ Leaves(r) = o.row.status
      /\ r.size = o.row.size \/ (r.size = Unsaid /\ o.action # "edit_size")
      /\ r.price = o.row.price \/ (r.price = Unsaid /\ o.action # "edit_price")
      /\ r.size = IF o.action \in {"edit_size", "approve"} THEN o.row.size ELSE Unsaid
      /\ r.price = IF o.action \in {"edit_price", "approve"} THEN o.row.price ELSE Unsaid
  BY EntryShape
<1> HIDE DEF n, r, more
<1>3. /\ n + 1 \in DOMAIN more /\ \A j \in DOMAIN more : ~(j > n + 1)
      /\ more[n + 1].action \in Transitions /\ Leaves(more[n + 1]) = o.row.status
  BY <1>1, <1>2
<1>4. LastTold([k \in DOMAIN more |-> more[k].size], o.row.drafted[1], o.row.size)
  <2>1. r.size = o.row.size \/ LastTold([k \in DOMAIN trail |-> trail[k].size],
                                        o.row.drafted[1], o.row.size)
    <3>1. CASE o.action = "create"
      <4>1. o.row.size = o.row.drafted[1]
        BY <3>1 DEF Follows
      <4>2. DOMAIN trail = {}
        BY <3>1
      <4> QED
        BY <4>1, <4>2 DEF LastTold
    <3>2. CASE o.action # "create"
      BY <1>2, <3>2 DEF Follows, Replays
    <3> QED
      BY <3>1, <3>2
  <2> DEFINE told == [k \in DOMAIN trail |-> trail[k].size]
             tolds == [k \in DOMAIN more |-> more[k].size]
  <2>2. /\ DOMAIN told = 1 .. n /\ DOMAIN tolds = 1 .. (n + 1)
        /\ tolds[n + 1] = r.size /\ \A k \in 1 .. n : tolds[k] = told[k]
    BY <1>1
  <2>3. r.size = o.row.size \/ LastTold(told, o.row.drafted[1], o.row.size)
    BY <2>1
  <2> HIDE DEF told, tolds
  <2>4. \/ tolds[n + 1] = o.row.size
        \/ tolds[n + 1] = Unsaid /\ LastTold(told, o.row.drafted[1], o.row.size)
    BY <1>2, <2>2, <2>3
  <2>5. LastTold(tolds, o.row.drafted[1], o.row.size)
    BY <1>1, <2>2, <2>4, LastToldGrows
  <2> QED
    BY <2>5 DEF tolds
<1>5. LastTold([k \in DOMAIN more |-> more[k].price], o.row.drafted[2], o.row.price)
  <2>1. r.price = o.row.price \/ LastTold([k \in DOMAIN trail |-> trail[k].price],
                                          o.row.drafted[2], o.row.price)
    <3>1. CASE o.action = "create"
      <4>1. o.row.price = o.row.drafted[2]
        BY <3>1 DEF Follows
      <4>2. DOMAIN trail = {}
        BY <3>1
      <4> QED
        BY <4>1, <4>2 DEF LastTold
    <3>2. CASE o.action # "create"
      BY <1>2, <3>2 DEF Follows, Replays
    <3> QED
      BY <3>1, <3>2
  <2> DEFINE told == [k \in DOMAIN trail |-> trail[k].price]
             tolds == [k \in DOMAIN more |-> more[k].price]
  <2>2. /\ DOMAIN told = 1 .. n /\ DOMAIN tolds = 1 .. (n + 1)
        /\ tolds[n + 1] = r.price /\ \A k \in 1 .. n : tolds[k] = told[k]
    BY <1>1
  <2>3. r.price = o.row.price \/ LastTold(told, o.row.drafted[2], o.row.price)
    BY <2>1
  <2> HIDE DEF told, tolds
  <2>4. \/ tolds[n + 1] = o.row.price
        \/ tolds[n + 1] = Unsaid /\ LastTold(told, o.row.drafted[2], o.row.price)
    BY <1>2, <2>2, <2>3
  <2>5. LastTold(tolds, o.row.drafted[2], o.row.price)
    BY <1>1, <2>2, <2>4, LastToldGrows
  <2> QED
    BY <2>5 DEF tolds
<1> QED
  BY <1>3, <1>4, <1>5 DEF Replays, more, r

\* Only a save makes a review due, and the trail with that review replays the row.
LEMMA ReplayStep ==
  ASSUME AtMostOneClient, TypeOK, CopiesAreStamped, OneAtATime, TrailReplays,
         NEW c \in Clients, Request(c) \/ Proceed(c)
  PROVE  TrailReplays'
<1> SUFFICES ASSUME crashes' = 0, NEW q \in Proposals
             PROVE  /\ rows'[q].status = Absent => reviews'[q] = << >>
                    /\ rows'[q].status # Absent =>
                         /\ Owes(c, q)' => Replays(Append(reviews'[q], Entry(op'[c])), rows'[q])
                         /\ ~Owes(c, q)' => Replays(reviews'[q], rows'[q])
  BY DEF TrailReplays, AtMostOneClient
<1>0. op[c] \in Op /\ Clients = {c} /\ crashes = 0 /\ reviews[q] \in Seq(Review)
  <2>1. Request(c) => crashes' = crashes
    BY RequestStarts DEF Starts
  <2>2. Proceed(c) => crashes' = crashes
    BY AnswerShape, CommitShape DEF Proceed, RecordAudit
  <2> QED
    BY <2>1, <2>2 DEF AtMostOneClient, TypeOK
<1>1. /\ rows[q].status = Absent => reviews[q] = << >>
      /\ rows[q].status # Absent =>
           /\ Owes(c, q) => Replays(Append(reviews[q], Entry(op[c])), rows[q])
           /\ ~Owes(c, q) => Replays(reviews[q], rows[q])
  BY <1>0 DEF TrailReplays
\* Nothing happens to the row or its reviews, and no review of q becomes due.
<1>2. ASSUME rows'[q] = rows[q], reviews'[q] = reviews[q], ~Owes(c, q), ~Owes(c, q)'
      PROVE  /\ rows'[q].status = Absent => reviews'[q] = << >>
             /\ rows'[q].status # Absent =>
                  /\ Owes(c, q)' => Replays(Append(reviews'[q], Entry(op'[c])), rows'[q])
                  /\ ~Owes(c, q)' => Replays(reviews'[q], rows'[q])
  BY <1>1, <1>2
<1>3. CASE Request(c)
  <2>1. PICK new \in Op : Starts(c, new)
    BY <1>3, RequestStarts
  <2>2. op'[c] = new /\ op[c].step = "idle" /\ rows' = rows /\ reviews' = reviews
    BY <2>1 DEF TypeOK, Starts, db
  <2>3. ~(new.step \in {"psnap", "review"} /\ new.action \in Transitions)
    BY <2>1 DEF Starts, Drafts, Changes, Annotates, Asks, Transitions
  <2> QED
    BY <1>2, <2>2, <2>3 DEF Owes
<1>4. CASE ReceiveSnapshot(c) \/ SnapshotFails(c)
  <2>1. /\ op[c].step = "snapshot" /\ rows' = rows /\ reviews' = reviews
        /\ op'[c].step = "save" \/ op'[c].action = "snapshot_error"
    BY <1>4, AnswerShape, CommitShape DEF db
  <2>2. "snapshot_error" \notin Transitions
    BY DEF Transitions
  <2> QED
    BY <1>2, <2>1, <2>2 DEF Owes
<1>5. CASE SaveRow(c)
  <2>1. /\ op'[c].id = op[c].id /\ op'[c].step \in {"psnap", "review"}
        /\ op[c].step = "save" /\ op'[c].action = op[c].action /\ op'[c].row = op[c].row
        /\ op'[c].at = op[c].at
    BY <1>5, CommitShape DEF SnapshotFails, SaveRow
  <2>2. reviews' = reviews /\ ~Owes(c, q)
    BY <1>5, <2>1 DEF SaveRow, Owes
  <2>3. CASE q = op[c].id
    <3>1. rows'[q] = op[c].row /\ Entry(op'[c]) = Entry(op[c])
      BY <1>5, <2>1, <2>3 DEF TypeOK, SaveRow, Entry
    <3>2. op[c].action \in Transitions /\ Leaves(Entry(op[c])) = op[c].row.status
      BY <2>1 DEF CopiesAreStamped
    <3>3. /\ Follows(rows[q], op[c].action, op[c].row) /\ op[c].row.status # Absent
          /\ rows[q].status = Absent <=> op[c].action = "create"
      BY <2>1, <2>3 DEF OneAtATime, Lawful
    <3>4. IF op[c].action = "create" THEN reviews[q] = << >> ELSE Replays(reviews[q], rows[q])
      BY <1>1, <2>2, <3>3
    <3>5. Replays(Append(reviews[q], Entry(op[c])), op[c].row)
      BY <1>0, <3>2, <3>3, <3>4, ReplayGrows
    <3>6. Owes(c, q)'
      BY <2>1, <2>3, <3>2 DEF Owes
    <3> QED
      BY <2>2, <3>1, <3>3, <3>5, <3>6
  <2>4. CASE q # op[c].id
    <3>1. ~Owes(c, q)' /\ rows'[q] = rows[q]
      BY <1>5, <2>1, <2>4 DEF Owes, TypeOK, SaveRow
    <3> QED
      BY <1>2, <2>2, <3>1
  <2> QED
    BY <2>3, <2>4
<1>6. CASE SaveProbabilitySnapshot(c)
  <2>1. /\ op'[c].id = op[c].id /\ op'[c].step = "review" /\ op[c].step = "psnap"
        /\ op'[c].action = op[c].action /\ op'[c].row = op[c].row /\ op'[c].at = op[c].at
    BY <1>6, CommitShape DEF SnapshotFails, SaveProbabilitySnapshot
  <2>2. rows' = rows /\ reviews' = reviews
    BY <1>6 DEF SaveProbabilitySnapshot
  <2>3. Owes(c, q)' <=> Owes(c, q)
    BY <2>1 DEF Owes
  <2>4. Entry(op'[c]) = Entry(op[c])
    BY <2>1 DEF Entry
  <2> QED
    BY <1>1, <2>2, <2>3, <2>4
<1>7. CASE RecordReview(c)
  <2>1. op[c].step = "review" /\ op'[c].step = "audit"
    BY <1>7, CommitShape
  <2>2. ~Owes(c, q)' /\ rows' = rows
    BY <1>7, <2>1 DEF Owes, RecordReview
  <2>3. CASE q = op[c].id
    <3>1. reviews'[q] = Append(reviews[q], Entry(op[c]))
      BY <1>7, <2>3 DEF TypeOK, RecordReview
    <3>2. rows[q] = op[c].row
      BY <2>1, <2>3 DEF OneAtATime
    <3>3. rows[q].status # Absent
      BY <2>1, <2>3 DEF OneAtATime
    <3>4. CASE Owes(c, q)
      BY <1>1, <2>2, <3>1, <3>3, <3>4
    <3>5. CASE ~Owes(c, q)
      <4>1. op[c].action \in Notes
        BY <1>0, <2>1, <2>3, <3>5 DEF Owes, Op
      <4>2. Entry(op[c]) \in Review /\ Entry(op[c]).action \in Notes
            /\ Entry(op[c]).size = Unsaid /\ Entry(op[c]).price = Unsaid
        BY <1>0, <4>1, EntryShape DEF Notes
      <4>3. Replays(reviews[q], rows[q])
        BY <1>1, <3>3, <3>5
      <4>4. Replays(Append(reviews[q], Entry(op[c])), rows[q])
        BY <1>0, <4>2, <4>3, NoteKeepsReplay
      <4> QED
        BY <2>2, <3>1, <3>3, <4>4
    <3> QED
      BY <3>4, <3>5
  <2>4. CASE q # op[c].id
    <3>1. reviews'[q] = reviews[q] /\ ~Owes(c, q)
      BY <1>7, <2>4 DEF TypeOK, RecordReview, Owes
    <3> QED
      BY <1>2, <2>2, <3>1
  <2> QED
    BY <2>3, <2>4
<1>8. CASE RecordAudit(c)
  <2>1. op[c].step = "audit" /\ UNCHANGED <<rows, reviews>>
    BY <1>8 DEF RecordAudit
  <2>2. IdleOp.step = "idle"
    BY DEF IdleOp
  <2>3. op'[c].step \in {"idle", "save"}
    BY <1>8, <2>2, AuditShape
  <2> QED
    BY <1>2, <2>1, <2>3 DEF Owes
<1> QED
  BY <1>3, <1>4, <1>5, <1>6, <1>7, <1>8 DEF Proceed

\* An approval is committed with its snapshot due, and nothing else changes the
\* newest snapshot of an approved proposal.
LEMMA EvidenceStep ==
  ASSUME AtMostOneClient, TypeOK, CopiesAreStamped, OneAtATime, EvidenceIsLatest,
         NEW c \in Clients, Request(c) \/ Proceed(c)
  PROVE  EvidenceIsLatest'
<1> SUFFICES ASSUME crashes' = 0, NEW q \in Proposals, rows'[q].status = Approved
             PROVE  \/ Final(psnaps'[q]) = [at |-> rows'[q].updated, view |-> rows'[q].view]
                    \/ op'[c].id = q /\ op'[c].step = "psnap"
  BY DEF EvidenceIsLatest, Final
<1>0. op[c] \in Op /\ Clients = {c}
  BY DEF AtMostOneClient, TypeOK
\* Nothing happens to the row or its snapshots, and no snapshot of q is due.
<1>1. ASSUME crashes' = crashes, rows'[q] = rows[q], psnaps'[q] = psnaps[q],
             ~(op[c].id = q /\ op[c].step = "psnap")
      PROVE  Final(psnaps'[q]) = [at |-> rows'[q].updated, view |-> rows'[q].view]
  BY <1>0, <1>1 DEF EvidenceIsLatest
<1>2. CASE Request(c)
  <2>1. PICK new \in Op : Starts(c, new)
    BY <1>2, RequestStarts
  <2> QED
    BY <1>1, <2>1 DEF Starts, db
<1>3. CASE ReceiveSnapshot(c) \/ SnapshotFails(c)
  BY <1>1, <1>3, AnswerShape, CommitShape DEF db
<1>4. CASE SaveRow(c)
  <2>1. /\ op'[c].id = op[c].id /\ op[c].step = "save" /\ crashes' = crashes
        /\ op[c].action = "approve" => op'[c].step = "psnap"
    BY <1>4, CommitShape
  <2>2. CASE q = op[c].id
    <3>1. rows'[q] = op[c].row
      BY <1>4, <2>2 DEF TypeOK, SaveRow
    <3>2. op[c].action = "approve"
      BY <2>1, <3>1 DEF OneAtATime
    <3> QED
      BY <2>1, <2>2, <3>2
  <2>3. CASE q # op[c].id
    BY <1>1, <1>4, <2>1, <2>3 DEF TypeOK, SaveRow
  <2> QED
    BY <2>2, <2>3
<1>5. CASE SaveProbabilitySnapshot(c)
  <2>1. op[c].step = "psnap" /\ crashes' = crashes /\ rows' = rows
    BY <1>5, CommitShape DEF SaveProbabilitySnapshot
  <2>2. CASE q = op[c].id
    <3>1. op[c].row = rows[q] /\ op[c].row.updated = op[c].at
      BY <2>1, <2>2 DEF OneAtATime, CopiesAreStamped
    <3>2. /\ psnaps'[q] = Append(psnaps[q], [at |-> op[c].at, view |-> op[c].row.view])
          /\ psnaps[q] \in Seq(Evidence)
      BY <1>5, <2>2 DEF TypeOK, SaveProbabilitySnapshot
    <3>3. Final(psnaps'[q]) = [at |-> op[c].at, view |-> op[c].row.view]
      BY <3>2, FinalOfAppend
    <3> QED
      BY <2>1, <3>1, <3>3
  <2>3. CASE q # op[c].id
    BY <1>1, <1>5, <2>1, <2>3 DEF TypeOK, SaveProbabilitySnapshot
  <2> QED
    BY <2>2, <2>3
<1>6. CASE RecordReview(c) \/ RecordAudit(c)
  <2>1. op[c].step \in {"review", "audit"} /\ UNCHANGED <<rows, psnaps, crashes>>
    BY <1>6 DEF RecordReview, RecordAudit
  <2> QED
    BY <1>1, <2>1
<1> QED
  BY <1>2, <1>3, <1>4, <1>5, <1>6 DEF Proceed

\* Every step keeps what one client alone relies on.
LEMMA SingleStep ==
  ASSUME AtMostOneClient  PROVE SingleInv /\ [Next]_vars => SingleInv'
<1> SUFFICES ASSUME SingleInv, [Next]_vars  PROVE SingleInv'
  OBVIOUS
<1>0. TypeOK /\ TypeOK'
  BY TypeStep DEF SingleInv
<1>1. ASSUME NEW c \in Clients, Request(c) \/ Proceed(c)  PROVE SingleInv'
  BY <1>0, <1>1, StampStep, AloneStep, ReplayStep, EvidenceStep DEF SingleInv
<1>2. ASSUME NEW c \in Clients, Crash(c)  PROVE SingleInv'
  <2>1. crashes' # 0
    BY <1>0, <1>2, BoundsAssumption DEF TypeOK, Crash
  <2> QED
    BY <1>0, <1>2, <2>1, StampStep, AloneStep DEF SingleInv, TrailReplays, EvidenceIsLatest
<1>3. CASE Tick \/ UNCHANGED vars
  <2>1. UNCHANGED <<rows, reviews, psnaps, op, crashes>>
    BY <1>3 DEF Tick, vars, db
  <2> QED
    BY <1>0, <2>1 DEF SingleInv, CopiesAreStamped, OneAtATime, TrailReplays,
                      Owes, EvidenceIsLatest
<1> QED
  BY <1>1, <1>2, <1>3 DEF Next, Exhausted

\* It holds at the start.
LEMMA SingleInit == Init => SingleInv
<1> SUFFICES ASSUME Init  PROVE SingleInv
  OBVIOUS
<1>1. TypeOK /\ CopiesAreStamped
  BY TrailInit DEF TrailInv
<1>2. \A c \in Clients : op[c].step = "idle" /\ op[c].queue = {}
  BY DEF Init, IdleOp
<1>3. OneAtATime
  BY <1>2 DEF OneAtATime
<1>4. TrailReplays /\ EvidenceIsLatest
  BY DEF Init, TrailReplays, EvidenceIsLatest, Blank
<1> QED
  BY <1>1, <1>3, <1>4 DEF SingleInv

\* With one client at a time and no crash, the reviews of a proposal, replayed on
\* its draft, give the status, size and price its row has.
THEOREM ReviewsReplayRows ==
  ASSUME AtMostOneClient  PROVE Spec => []ReviewsReplayRow
<1>1. SingleInv => ReviewsReplayRow
  BY DEF SingleInv, TrailReplays, ReviewsReplayRow, Owes, Settled
<1> QED
  BY <1>1, SingleInit, SingleStep, PTL DEF Spec

\* With one client at a time and no crash, the newest probability snapshot of an
\* approved proposal is the evidence its approval was decided on.
THEOREM ApprovalsKeepTheirEvidence ==
  ASSUME AtMostOneClient  PROVE Spec => []ApprovedOnLatestEvidence
<1>1. SingleInv => ApprovedOnLatestEvidence
  BY DEF SingleInv, EvidenceIsLatest, ApprovedOnLatestEvidence, Settled
<1> QED
  BY <1>1, SingleInit, SingleStep, PTL DEF Spec

(***************************************************************************)
(* Implementation                                                          *)
(***************************************************************************)
\* The commit of a lawful copy is a step of the contract.
LEMMA SaveImplements ==
  ASSUME TypeOK, OneAtATime, NEW c \in Clients, SaveRow(c)
  PROVE  Contract!Next
<1>0. PICK q0 \in Proposals : q0 = op[c].id
  BY DEF TypeOK, Op
<1> DEFINE row == op[c].row
           st == [q \in Proposals |-> rows[q].status]
           tm == [q \in Proposals |-> <<rows[q].size, rows[q].price>>]
<1>1. /\ q0 \in Proposals /\ row \in Row
      /\ rows' = [rows EXCEPT ![q0] = row] /\ Lawful(rows[q0], row)
  BY <1>0 DEF TypeOK, Op, SaveRow, OneAtATime
<1>2. /\ st' = [st EXCEPT ![q0] = row.status]
      /\ tm' = [tm EXCEPT ![q0] = <<row.size, row.price>>]
  BY <1>1 DEF TypeOK
<1>3. st[q0] = rows[q0].status /\ tm[q0] = <<rows[q0].size, rows[q0].price>>
  BY <1>1
<1>4. tm'[q0] = <<row.size, row.price>> /\ tm'[q0] \in Sizes \X Prices
  BY <1>1, <1>2 DEF Row
<1>5. Contract!Rewrite(q0)
  BY <1>2, <1>4 DEF Contract!Rewrite
<1>6. CASE rows[q0].status = Absent /\ row.status \in {Pending, PolicyRejected}
  <2>1. Contract!Draft(q0)
    BY <1>2, <1>3, <1>5, <1>6 DEF Contract!Draft, Contract!Pending
  <2> QED
    BY <1>1, <2>1 DEF Contract!Next
<1>7. CASE rows[q0].status = Pending /\ row.status = Pending
  <2>1. st' = st
    BY <1>1, <1>2, <1>7
  <2>2. Contract!Edit(q0)
    BY <1>3, <1>5, <1>7, <2>1 DEF Contract!Edit, Contract!Pending
  <2> QED
    BY <1>1, <2>2 DEF Contract!Next
<1>8. CASE <<row.size, row.price>> = <<rows[q0].size, rows[q0].price>>
           /\ (\/ rows[q0].status = Pending /\ row.status \in {Approved, PolicyRejected, Cancelled}
               \/ rows[q0].status = Approved /\ row.status = Cancelled)
  <2>1. tm' = tm
    BY <1>1, <1>2, <1>3, <1>8
  <2>2. Contract!Decide(q0) \/ Contract!Withdraw(q0)
    BY ZenonT(60), <1>2, <1>3, <1>8, <2>1 DEF Contract!Decide, Contract!Withdraw, Contract!Pending
  <2> QED
    BY <1>1, <2>2 DEF Contract!Next
<1> QED
  BY <1>1, <1>6, <1>7, <1>8 DEF Lawful

\* Every step with one client is a step of the contract or leaves it alone.
LEMMA ContractStep ==
  ASSUME SingleInv, [Next]_vars
  PROVE  [Contract!Next]_<<[q \in Proposals |-> rows[q].status],
                           [q \in Proposals |-> <<rows[q].size, rows[q].price>>]>>
<1>1. ASSUME NEW c \in Clients, SaveRow(c)  PROVE Contract!Next
  BY <1>1, SaveImplements DEF SingleInv
<1>2. ASSUME NEW c \in Clients, Request(c)  PROVE rows' = rows
  BY <1>2, RequestStarts DEF SingleInv, Starts, db
<1>3. ASSUME NEW c \in Clients, Proceed(c) \/ Crash(c), ~SaveRow(c)  PROVE rows' = rows
  BY ZenonT(60), <1>3 DEF Proceed, ReceiveSnapshot, SnapshotFails, SaveProbabilitySnapshot,
              RecordReview, RecordAudit, Crash, db
<1>4. CASE Tick \/ UNCHANGED vars
  BY <1>4 DEF Tick, vars, db
<1> QED
  BY <1>1, <1>2, <1>3, <1>4 DEF Next, Exhausted

\* With one client at a time, crashes included, the lifecycle implements the
\* workflow's contract: statuses move forward only, terms change only while the
\* proposal is pending.
THEOREM LifecycleImplementsContract ==
  ASSUME AtMostOneClient  PROVE Spec => ImplementsContract
<1>1. Init => Contract!Init
  BY DEF Init, Blank, Contract!Init, Contract!Blank
<1> QED
  BY <1>1, SingleInit, SingleStep, ContractStep, PTL DEF Spec, ImplementsContract, Contract!Spec
==============================================================================
