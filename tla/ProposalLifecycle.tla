-------------------------- MODULE ProposalLifecycle --------------------------
(***************************************************************************)
(* ProposalLifecycleService over the shared SQLite file.  Every client (a  *)
(* CLI command, the Telegram bot, the background scan) has a connection of *)
(* its own, and every repository call commits by itself.  An operation is  *)
(* therefore a read with its guards, possibly a wait for the network, and  *)
(* then a chain of separate commits:                                       *)
(*                                                                         *)
(*    read+guard -> [snapshot] -> save -> [psnap] -> review -> audit       *)
(*                                                                         *)
(* "save" replaces the whole row by the copy computed from the row read at *)
(* the start; nothing locks the row or compares versions.                  *)
(***************************************************************************)
EXTENDS Integers, Sequences

CONSTANTS
  Clients,           \* OS processes with a connection to the database
  Proposals,         \* proposal ids
  Views,             \* what revalidation sees: market, probability, price, data age
  MidPrice,          \* midpoint of a view, in 1/10000
  RecommendedSizes,  \* sizes the sizing engine may recommend, in cents
  MaxAllowedSize,    \* max_allowed_size_usd, in cents
  TypedAmounts,      \* sizes an operator may type, in tenths of a cent
  TypedPrices,       \* prices an operator may type, in 1/100000
  Allowed,           \* the (size, view) pairs the composite policy allows
  TTL,               \* approvals.proposal_ttl_minutes
  MaxTime,           \* bound on the clock
  MaxOps,            \* bound on the operations started
  MaxCrashes         \* bound on the crashes

Sizes  == 0 .. MaxAllowedSize
Prices == 0 .. 10000
Time   == 0 .. MaxTime

ASSUME ViewsAssumption   == Views # {} /\ MidPrice \in [Views -> Prices]
ASSUME SizesAssumption   == MaxAllowedSize \in Nat /\ RecommendedSizes \subseteq Sizes
ASSUME AllowedAssumption == Allowed \subseteq Sizes \X Views
\* round() breaks a tie on a binary float either way: no typed value is a tie.
ASSUME TypedAssumption   == /\ TypedAmounts \subseteq Int /\ TypedPrices \subseteq Int
                            /\ \A x \in TypedAmounts \cup TypedPrices : x % 10 # 5
ASSUME BoundsAssumption  == {TTL, MaxTime, MaxOps, MaxCrashes} \subseteq Nat
ASSUME IdsAssumption     == Proposals # {}

Absent         == "absent"
Pending        == "pending_manual_confirmation"
Approved       == "approved"
PolicyRejected == "policy_rejected"
Cancelled      == "cancelled"
Statuses       == {Absent, Pending, Approved, PolicyRejected, Cancelled}

\* The columns of trade_proposals the lifecycle reads or writes; drafted is
\* recommended_size_usd and suggested_limit_price, which nothing changes.
Row == [status : Statuses, size : Sizes, price : Prices, drafted : Sizes \X Prices,
        view : Views, updated : Time, expires : 0 .. (MaxTime + TTL)]

Blank == [status |-> Absent, size |-> 0, price |-> 0, drafted |-> <<0, 0>>,
          view |-> CHOOSE v \in Views : TRUE, updated |-> 0, expires |-> 0]

Transitions == {"create", "edit_size", "edit_price", "reject", "cancel",
                "approve", "revalidate_reject", "expire"}
Notes       == {"request_analysis", "snapshot_error"}

\* A review's payload names some fields only, see Entry: Absent and Unsaid stand for
\* the others.  Previous status, reasons and evidence are left out.
Unsaid == -1
Review == [action : Transitions \cup Notes, at : Time, status : Statuses,
           size : Sizes \cup {Unsaid}, price : Prices \cup {Unsaid}]
Evidence == [at : Time, view : Views]

Steps == {"idle", "snapshot", "save", "psnap", "review", "audit"}
Op == [step : Steps, action : Transitions \cup Notes, id : Proposals,
       row : Row, at : Time, queue : SUBSET [id : Proposals, row : Row]]

IdleOp == [step |-> "idle", action |-> "create", id |-> CHOOSE q \in Proposals : TRUE,
           row |-> Blank, at |-> 0, queue |-> {}]

VARIABLES
  rows,      \* trade_proposals
  reviews,   \* proposal_reviews, in insertion order
  psnaps,    \* probability_snapshots, in insertion order
  audits,    \* how many audit_events each proposal has
  op,        \* the operation each client is executing
  clock,     \* utc_now()
  started,   \* operations started so far
  crashes    \* crashes so far

db   == <<rows, reviews, psnaps, audits>>
vars == <<rows, reviews, psnaps, audits, op, clock, started, crashes>>

TypeOK ==
  /\ rows \in [Proposals -> Row]
  /\ reviews \in [Proposals -> Seq(Review)]
  /\ psnaps \in [Proposals -> Seq(Evidence)]
  /\ audits \in [Proposals -> Nat]
  /\ op \in [Clients -> Op]
  /\ clock \in Time
  /\ started \in 0 .. MaxOps
  /\ crashes \in 0 .. MaxCrashes

Init ==
  /\ rows = [q \in Proposals |-> Blank]
  /\ reviews = [q \in Proposals |-> << >>]
  /\ psnaps = [q \in Proposals |-> << >>]
  /\ audits = [q \in Proposals |-> 0]
  /\ op = [c \in Clients |-> IdleOp]
  /\ clock = 0
  /\ started = 0
  /\ crashes = 0

(***************************************************************************)
(* Helpers                                                                 *)
(***************************************************************************)
\* round(amount, 2) and round(price, 4): one decimal digit goes.
Rounded(x) == (x + 5) \div 10

\* Mutant: the timestamp is left alone.
Moved_OldTimestamp(row, status) == [row EXCEPT !.status = status]

\* replace(proposal, status=status, updated_at=transition_at)
Moved(row, status) == [row EXCEPT !.status = status, !.updated = clock]

Expired(row) == row.expires <= clock

\* The service has read row and passed its guards; the first commit is due.
Begin(c, step, action, q, row) ==
  /\ op[c].step = "idle"
  /\ started < MaxOps
  /\ started' = started + 1
  /\ op' = [op EXCEPT ![c] = [step |-> step, action |-> action, id |-> q,
                              row |-> row, at |-> clock, queue |-> {}]]
  /\ UNCHANGED <<db, clock, crashes>>

(***************************************************************************)
(* Operations: the read and the guards                                     *)
(***************************************************************************)
create(c, q) ==
  /\ rows[q].status = Absent
  /\ \A d \in Clients : op[d].step # "idle" => op[d].id # q
  /\ \E view \in Views, size \in RecommendedSizes :
       Begin(c, "save", "create", q,
             [status |-> IF <<size, view>> \in Allowed THEN Pending ELSE PolicyRejected,
              size |-> size, price |-> MidPrice[view],
              drafted |-> <<size, MidPrice[view]>>, view |-> view,
              updated |-> clock, expires |-> clock + TTL])

\* Mutants: no upper bound; approved proposals stay editable.
edit_size_NoCap(c, q) ==
  /\ rows[q].status = Pending
  /\ \E amount \in TypedAmounts :
       /\ 0 < amount
       /\ Begin(c, "save", "edit_size", q,
                [Moved(rows[q], Pending) EXCEPT !.size = Rounded(amount)])

edit_size_Approved(c, q) ==
  /\ rows[q].status \in {Pending, Approved}
  /\ \E amount \in TypedAmounts :
       /\ 0 < amount /\ amount <= 10 * MaxAllowedSize
       /\ Begin(c, "save", "edit_size", q,
                [Moved(rows[q], rows[q].status) EXCEPT !.size = Rounded(amount)])

edit_size(c, q) ==
  /\ rows[q].status = Pending
  /\ \E amount \in TypedAmounts :
       /\ 0 < amount /\ amount <= 10 * MaxAllowedSize
       /\ Begin(c, "save", "edit_size", q,
                [Moved(rows[q], Pending) EXCEPT !.size = Rounded(amount)])

edit_price(c, q) ==
  /\ rows[q].status = Pending
  /\ \E price \in TypedPrices :
       /\ 0 < price /\ price <= 100000
       /\ Begin(c, "save", "edit_price", q,
                [Moved(rows[q], Pending) EXCEPT !.price = Rounded(price)])

reject(c, q) ==
  /\ rows[q].status = Pending
  /\ Begin(c, "save", "reject", q, Moved(rows[q], Cancelled))

\* Mutant: no status guard.
cancel_Any(c, q) ==
  /\ rows[q].status # Absent
  /\ Begin(c, "save", "cancel", q, Moved(rows[q], Cancelled))

cancel(c, q) ==
  /\ rows[q].status \in {Pending, Approved}
  /\ Begin(c, "save", "cancel", q, Moved(rows[q], Cancelled))

\* No status guard: any stored proposal can be annotated.
request_additional_analysis(c, q) ==
  /\ rows[q].status # Absent
  /\ Begin(c, "review", "request_analysis", q, rows[q])

\* approve() up to the request for a fresh snapshot.
approve(c, q) ==
  /\ rows[q].status = Pending
  /\ \/ /\ Expired(rows[q])
        /\ Begin(c, "save", "expire", q, Moved(rows[q], Cancelled))
     \/ /\ ~Expired(rows[q])
        /\ Begin(c, "snapshot", "approve", q, rows[q])

\* expire_stale(): one listing, then a save, a review and an audit per item.
expire_stale(c) ==
  LET stale == {[id |-> q, row |-> Moved(rows[q], Cancelled)] :
                q \in {p \in Proposals : rows[p].status = Pending /\ Expired(rows[p])}}
  IN \E item \in stale :
       /\ op[c].step = "idle"
       /\ started < MaxOps
       /\ started' = started + 1
       /\ op' = [op EXCEPT ![c] = [step |-> "save", action |-> "expire",
                                   id |-> item.id, row |-> item.row, at |-> clock,
                                   queue |-> stale \ {item}]]
       /\ UNCHANGED <<db, clock, crashes>>

(***************************************************************************)
(* The network answers an approval                                         *)
(***************************************************************************)
\* Mutant: the verdict is the one on the stored view.
Revalidated_StaleVerdict(row, view, at) ==
  [row EXCEPT !.status = IF <<row.size, row.view>> \in Allowed THEN Approved ELSE PolicyRejected,
              !.view = view, !.updated = at]

\* The rest of approve() before the first commit: the row read at the start,
\* with the fresh market fields and the policy's verdict on them.
Revalidated(row, view, at) ==
  [row EXCEPT !.status = IF <<row.size, view>> \in Allowed THEN Approved ELSE PolicyRejected,
              !.view = view, !.updated = at]

ReceiveSnapshot(c) ==
  /\ op[c].step = "snapshot"
  /\ \E view \in Views :
       LET row == Revalidated(op[c].row, view, op[c].at)
       IN  op' = [op EXCEPT ![c] =
                    [@ EXCEPT !.step = "save", !.row = row,
                              !.action = IF row.status = Approved THEN "approve"
                                         ELSE "revalidate_reject"]]
  /\ UNCHANGED <<db, clock, started, crashes>>

\* PolymarketAdapterError: a note in both trails, the row stays as it is.
SnapshotFails(c) ==
  /\ op[c].step = "snapshot"
  /\ op' = [op EXCEPT ![c] = [@ EXCEPT !.step = "review", !.action = "snapshot_error",
                                       !.at = clock]]
  /\ UNCHANGED <<db, clock, started, crashes>>

(***************************************************************************)
(* The commits                                                             *)
(***************************************************************************)
Goto(c, step) == op' = [op EXCEPT ![c] = [@ EXCEPT !.step = step]]

\* Mutant: an approval keeps no evidence.
SaveRow_NoEvidence(c) ==
  /\ op[c].step = "save"
  /\ rows' = [rows EXCEPT ![op[c].id] = op[c].row]
  /\ Goto(c, IF op[c].action = "create" THEN "psnap" ELSE "review")
  /\ UNCHANGED <<reviews, psnaps, audits, clock, started, crashes>>

SaveRow(c) ==
  /\ op[c].step = "save"
  /\ rows' = [rows EXCEPT ![op[c].id] = op[c].row]
  /\ Goto(c, IF op[c].action \in {"create", "approve"} THEN "psnap" ELSE "review")
  /\ UNCHANGED <<reviews, psnaps, audits, clock, started, crashes>>

SaveProbabilitySnapshot(c) ==
  /\ op[c].step = "psnap"
  /\ psnaps' = [psnaps EXCEPT ![op[c].id] =
                  Append(@, [at |-> op[c].at, view |-> op[c].row.view])]
  /\ Goto(c, "review")
  /\ UNCHANGED <<rows, reviews, audits, clock, started, crashes>>

\* Mutant: the review of an edited price does not tell the price.
Entry_NoPrice(o) ==
  [action |-> o.action, at |-> o.at,
   status |-> IF o.action \in {"create", "request_analysis"} THEN o.row.status ELSE Absent,
   size  |-> IF o.action \in {"edit_size", "approve"} THEN o.row.size ELSE Unsaid,
   price |-> IF o.action = "approve" THEN o.row.price ELSE Unsaid]

\* The review each operation records, with what its payload tells.
Entry(o) ==
  [action |-> o.action, at |-> o.at,
   status |-> IF o.action \in {"create", "request_analysis"} THEN o.row.status ELSE Absent,
   size  |-> IF o.action \in {"edit_size", "approve"} THEN o.row.size ELSE Unsaid,
   price |-> IF o.action \in {"edit_price", "approve"} THEN o.row.price ELSE Unsaid]

RecordReview(c) ==
  /\ op[c].step = "review"
  /\ reviews' = [reviews EXCEPT ![op[c].id] = Append(@, Entry(op[c]))]
  /\ Goto(c, "audit")
  /\ UNCHANGED <<rows, psnaps, audits, clock, started, crashes>>

\* The next round of expire_stale()'s loop.
NextItem(o, item) ==
  [o EXCEPT !.step = "save", !.id = item.id, !.row = item.row, !.queue = o.queue \ {item}]

\* Mutant: the loop never takes its next item.
RecordAudit_NoLoop(c) ==
  /\ op[c].step = "audit"
  /\ op[c].queue = {}
  /\ audits' = [audits EXCEPT ![op[c].id] = @ + 1]
  /\ op' = [op EXCEPT ![c] = IdleOp]
  /\ UNCHANGED <<rows, reviews, psnaps, clock, started, crashes>>

\* The last commit of an operation; expire_stale() goes on with its next item.
RecordAudit(c) ==
  /\ op[c].step = "audit"
  /\ audits' = [audits EXCEPT ![op[c].id] = @ + 1]
  /\ \/ /\ op[c].queue = {}
        /\ op' = [op EXCEPT ![c] = IdleOp]
     \/ \E item \in op[c].queue : op' = [op EXCEPT ![c] = NextItem(@, item)]
  /\ UNCHANGED <<rows, reviews, psnaps, clock, started, crashes>>

(***************************************************************************)
(* Environment                                                             *)
(***************************************************************************)
\* The process dies, or an exception other than PolymarketAdapterError leaves
\* the service: what was committed stays, the rest never happens.
Crash(c) ==
  /\ op[c].step # "idle"
  /\ crashes < MaxCrashes
  /\ crashes' = crashes + 1
  /\ op' = [op EXCEPT ![c] = IdleOp]
  /\ UNCHANGED <<db, clock, started>>

Tick ==
  /\ clock < MaxTime
  /\ clock' = clock + 1
  /\ UNCHANGED <<db, op, started, crashes>>

\* The bounds are used up and every client is idle.
Exhausted ==
  /\ started = MaxOps /\ clock = MaxTime
  /\ \A c \in Clients : op[c].step = "idle"
  /\ UNCHANGED vars

Request(c) ==
  \/ \E q \in Proposals :
       \/ create(c, q) \/ edit_size(c, q) \/ edit_price(c, q)
       \/ reject(c, q) \/ cancel(c, q) \/ approve(c, q)
       \/ request_additional_analysis(c, q)
  \/ expire_stale(c)

Proceed(c) ==
  \/ ReceiveSnapshot(c) \/ SnapshotFails(c)
  \/ SaveRow(c) \/ SaveProbabilitySnapshot(c) \/ RecordReview(c) \/ RecordAudit(c)

Next ==
  \/ \E c \in Clients : Request(c) \/ Proceed(c) \/ Crash(c)
  \/ Tick
  \/ Exhausted

Spec == Init /\ [][Next]_vars

\* A process that is running keeps running, and a request has a timeout.
FairSpec == Spec /\ \A c \in Clients : WF_vars(Proceed(c))

(***************************************************************************)
(* Properties of any number of clients                                     *)
(***************************************************************************)
\* No operation that is still running has q as its subject.
Settled(q) ==
  \A c \in Clients : op[c].step # "idle" =>
    op[c].id # q /\ \A item \in op[c].queue : item.id # q

\* A row that says approved carries exactly the size and the market view that
\* one revalidation looked at and the policy allowed, and the approval was
\* requested before the TTL ran out.  Concurrent edits, stale copies and
\* crashes cannot combine a size with a verdict given for another size.
ApprovedIsRevalidated ==
  \A q \in Proposals : rows[q].status = Approved =>
    /\ <<rows[q].size, rows[q].view>> \in Allowed
    /\ rows[q].updated < rows[q].expires

\* A draft the policy rejected when it was created stays rejected: no client
\* can hold a stale pending copy of it to write back.
RejectedDraftIsFinal ==
  \A q \in Proposals : \A i \in DOMAIN reviews[q] :
    (reviews[q][i].action = "create" /\ reviews[q][i].status = PolicyRejected)
      => rows[q].status = PolicyRejected

\* The status the transition of a review left behind.
Leaves(r) ==
  IF r.action = "create" THEN r.status
  ELSE IF r.action \in {"edit_size", "edit_price"} THEN Pending
  ELSE IF r.action = "approve" THEN Approved
  ELSE IF r.action = "revalidate_reject" THEN PolicyRejected
  ELSE Cancelled

\* A transition recorded with the row's timestamp left its status, and tells no
\* other terms than its own.
Explained(q) ==
  \E i \in DOMAIN reviews[q] :
    LET r == reviews[q][i]
    IN  /\ r.action \in Transitions /\ r.at = rows[q].updated /\ Leaves(r) = rows[q].status
        /\ r.size \in {Unsaid, rows[q].size} /\ r.price \in {Unsaid, rows[q].price}

\* The row's terms are the drafted ones or in a review.
Traceable(q) ==
  /\ \/ rows[q].size = rows[q].drafted[1]
     \/ \E i \in DOMAIN reviews[q] : reviews[q][i].size = rows[q].size
  /\ \/ rows[q].price = rows[q].drafted[2]
     \/ \E i \in DOMAIN reviews[q] : reviews[q][i].price = rows[q].price

\* Without crashes, and although clients lose each other's edits, the version of a
\* row an operator sees is the work of one recorded transition, neither of its
\* terms comes from nowhere, and the audit trail is as long as the review trail.
TrailExplainsRow ==
  \A q \in Proposals : (crashes = 0 /\ rows[q].status # Absent /\ Settled(q))
    => Explained(q) /\ Traceable(q) /\ audits[q] = Len(reviews[q])

\* Every operation ends, whether the network answers or fails and however many
\* stale proposals a listing has to expire.
OperationsFinish ==
  \A c \in Clients : (op[c].step # "idle") ~> (op[c].step = "idle")

(***************************************************************************)
(* Properties of one client at a time                                      *)
(***************************************************************************)
Final(seq) == seq[Len(seq)]

\* What the reviews told last of a term; the draft's if none told it.
LastTold(told, drafted, value) ==
  \/ value = drafted /\ \A i \in DOMAIN told : told[i] = Unsaid
  \/ \E i \in DOMAIN told :
       told[i] = value /\ \A j \in DOMAIN told : j > i => told[j] = Unsaid

Replays(trail, row) ==
  /\ \E i \in DOMAIN trail :
       /\ trail[i].action \in Transitions /\ Leaves(trail[i]) = row.status
       /\ \A j \in DOMAIN trail : j > i => trail[j].action \in Notes
  /\ LastTold([i \in DOMAIN trail |-> trail[i].size], row.drafted[1], row.size)
  /\ LastTold([i \in DOMAIN trail |-> trail[i].price], row.drafted[2], row.price)

\* The partial payloads of the reviews are enough: whoever replays the trail of a
\* proposal on its draft finds the row, so nothing an operator wrote was lost.
ReviewsReplayRow ==
  \A q \in Proposals : (crashes = 0 /\ rows[q].status # Absent /\ Settled(q))
    => Replays(reviews[q], rows[q])

\* The newest probability snapshot of an approved proposal is the evidence its
\* approval was decided on (what the drift and research views compare with).
ApprovedOnLatestEvidence ==
  \A q \in Proposals : (crashes = 0 /\ rows[q].status = Approved /\ Settled(q)) =>
    Final(psnaps[q]) = [at |-> rows[q].updated, view |-> rows[q].view]

\* The contract of docs/SEMI_AUTO_WORKFLOW.md, items 3 to 7.
Contract == INSTANCE ProposalContract WITH
  Terms  <- Sizes \X Prices,
  status <- [q \in Proposals |-> rows[q].status],
  terms  <- [q \in Proposals |-> <<rows[q].size, rows[q].price>>]

\* Implementation: with one client at a time every commit is a step the
\* contract allows; in particular cancelled and policy_rejected are final and
\* the terms of an approved proposal are frozen.
ImplementsContract == Contract!Spec

(***************************************************************************)
(* What the documentation says and the code does not keep                  *)
(***************************************************************************)
\* Item 7: a manual rejection moves the proposal to cancelled.  A cancelled
\* proposal does not turn up approved.
RejectionHolds ==
  [][\A q \in Proposals : rows[q].status = Cancelled => rows'[q].status # Approved]_rows

\* Item 8: every transition is in the review records and in the audit log.
EveryTransitionRecorded ==
  \A q \in Proposals : (rows[q].status # Absent /\ Settled(q))
    => Explained(q) /\ audits[q] = Len(reviews[q])
==============================================================================
