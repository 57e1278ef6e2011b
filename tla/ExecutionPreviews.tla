-------------------------- MODULE ExecutionPreviews --------------------------
(***************************************************************************)
(* Execution previews: a dry run of a proposal against the optional        *)
(* gateway, kept in SQLite and shown on the review card, where it is stale *)
(* if the proposal row changed since.  A preview reads the row, then takes *)
(* its time; a writer of the row takes its time, then commits; several     *)
(* processes do both.  The row is reduced to what a preview looks at; its  *)
(* writers, which all stamp updated_at, are module ProposalLifecycle's.    *)
(* The size is left out: like the price it is copied, and only the price   *)
(* is compared.  Prices are in cents.                                      *)
(***************************************************************************)
EXTENDS Integers, FiniteSets, SequencesExt

CONSTANTS
  Previewers,       \* processes that build previews
  RowWriters,       \* processes that change the proposal
  GatewayModes,     \* among "missing", "disabled", "enabled"
  LimitPrices,
  QuotedPrices,     \* reference prices of the gateway's order book
  MaxPreviews,      \* bound: previews begun
  MaxChanges        \* bound: changes of the row

ASSUME PricesAreCents == LimitPrices \subseteq Nat /\ QuotedPrices \subseteq Nat

VARIABLES
  gateway,          \* the configuration of the gateway
  previewed,        \* the proposal row: status, price, updated_at, and its version
  execution_previews, \* the saved previews
  previewing,       \* process -> the preview it builds
  changing,         \* process -> the change it makes
  moment,           \* the clock: every time that is taken is another
  begun             \* history: previews begun, changes begun, the times of the committed

previewVars == <<gateway, previewed, execution_previews, previewing, changing, moment, begun>>

NoPreview == [at |-> "idle"]

PreviewInit ==
  /\ gateway \in GatewayModes
  /\ \E price \in LimitPrices :
       previewed = [status |-> "pending_manual_confirmation", price |-> price, updated_at |-> 0,
                    version |-> 0]
  /\ execution_previews = <<>>
  /\ previewing = [p \in Previewers |-> NoPreview]
  /\ changing = [w \in RowWriters |-> NoPreview]
  /\ moment = 0 /\ begun = [previews |-> 0, changes |-> 0, committed |-> <<>>]

\* A writer takes its time, then commits a price or a status with it.
BeginChange(w) ==
  /\ changing[w] = NoPreview /\ begun.changes < MaxChanges
  /\ moment' = moment + 1
  /\ changing' = [changing EXCEPT ![w] = [at |-> "commit", now |-> moment']]
  /\ begun' = [begun EXCEPT !.changes = @ + 1]
  /\ UNCHANGED <<gateway, previewed, execution_previews, previewing>>

CommitChange(w) ==
  LET Write(status, price) ==
        previewed' = [status |-> status, price |-> price, updated_at |-> changing[w].now,
                      version |-> previewed.version + 1]
  IN  /\ changing[w].at = "commit"
      /\ \/ \E price \in LimitPrices : Write(previewed.status, price)
         \/ \E status \in {"approved", "cancelled", "policy_rejected"} : Write(status, previewed.price)
      /\ changing' = [changing EXCEPT ![w] = NoPreview]
      /\ begun' = [begun EXCEPT !.committed = Append(@, changing[w].now)]
      /\ UNCHANGED <<gateway, execution_previews, previewing, moment>>

\* preview_proposal: the row, read before build_preview takes its time.
get_proposal(p) ==
  /\ previewing[p] = NoPreview /\ begun.previews < MaxPreviews
  /\ previewing' = [previewing EXCEPT ![p] = [at |-> "build", proposal |-> previewed]]
  /\ begun' = [begun EXCEPT !.previews = @ + 1]
  /\ UNCHANGED <<gateway, previewed, execution_previews, changing, moment>>

\* _resolve_token: the side's own token, the asset as a fallback with a warning,
\* or none, which stands for an exception of the gateway too.
Tokens == {"side", "asset", "none"}

\* What the gateway answers: its book's price, the token, whether it resolved
\* the proposal's market.
Answers == [price : QuotedPrices, token : Tokens, market : BOOLEAN]

\* quote_order's price against the limit.
Differs(price, limit) == price - limit >= 2 \/ limit - price >= 2

validation_errors(proposal, answer) ==
  \/ proposal.status \notin {"pending_manual_confirmation", "approved"}
  \/ gateway # "enabled"
  \/ ~answer.market \/ answer.token = "none"

warnings(proposal, answer) ==
  answer.token = "asset" \/ Differs(answer.price, proposal.price)

status_for(proposal, answer) ==
  IF validation_errors(proposal, answer) THEN "blocked"
  ELSE IF warnings(proposal, answer) THEN "ready_with_warnings" ELSE "ready"

\* build_preview takes its time and asks the gateway, unless the audit log
\* refuses the request's event: then nothing comes of it.
build_preview(p) ==
  LET proposal == previewing[p].proposal
  IN  /\ previewing[p].at = "build"
      /\ moment' = moment + 1
      /\ \E answer \in Answers :
           previewing' = [previewing EXCEPT ![p] =
             [at |-> "persist", proposal |-> proposal, created_at |-> moment',
              quoted |-> IF validation_errors(proposal, answer) THEN 0 ELSE answer.price,
              status |-> status_for(proposal, answer)]]
      /\ UNCHANGED <<gateway, previewed, execution_previews, changing, begun>>

save_preview(row) == execution_previews' = Append(execution_previews, row)

\* _log_preview_result, _persist_preview.
persist_preview(p) ==
  /\ previewing[p].at = "persist"
  /\ save_preview([previewing[p] EXCEPT !.at = "saved"])
  /\ previewing' = [previewing EXCEPT ![p] = NoPreview]
  /\ UNCHANGED <<gateway, previewed, changing, moment, begun>>

\* The audit event of the request or of the result raises, or the save fails
\* and is only logged: no row, and the card keeps the preview before.
LosePreview(p) ==
  /\ previewing[p].at \in {"build", "persist"}
  /\ previewing' = [previewing EXCEPT ![p] = NoPreview]
  /\ UNCHANGED <<gateway, previewed, execution_previews, changing, moment, begun>>

PreviewNext ==
  \/ \E w \in RowWriters : BeginChange(w) \/ CommitChange(w)
  \/ \E p \in Previewers :
       get_proposal(p) \/ build_preview(p) \/ persist_preview(p) \/ LosePreview(p)

PreviewSpec == PreviewInit /\ [][PreviewNext]_previewVars

\* list_for_proposal with limit 1: by created_at, not in the order of saving.
latest_preview ==
  CHOOSE preview \in ToSet(execution_previews) :
    \A other \in ToSet(execution_previews) : other.created_at <= preview.created_at

\* Mutant: warnings are shown as an OK.
review_state_WarningsAreOk(preview) == IF preview.status = "blocked" THEN "failed" ELSE "ok"

review_state(preview) ==
  CASE preview.status = "ready" -> "ok"
    [] preview.status = "ready_with_warnings" -> "warn"
    [] OTHER -> "failed"

is_stale(preview) == preview.created_at < previewed.updated_at

(***************************************************************************)
(* FreshOkIsSound: a card that shows an OK and does not call it stale      *)
(* shows a proposal that can still be approved or prepared, whose limit is *)
(* within two cents of the price the gateway had resolved.  The exception: *)
(* a change that was under way when the preview was made, committed after  *)
(* the row was read; as it carries the earlier time nothing tells it, not  *)
(* even if a later change had made the preview stale before.               *)
(***************************************************************************)
FreshOkIsSound ==
  execution_previews # <<>> =>
    LET preview == latest_preview
        overtaken == \E v \in preview.proposal.version + 1 .. previewed.version :
                       begun.committed[v] < preview.created_at
    IN  review_state(preview) = "ok" /\ ~is_stale(preview) /\ ~overtaken =>
          /\ previewed.status \in {"pending_manual_confirmation", "approved"}
          /\ preview.quoted \in previewed.price - 1 .. previewed.price + 1
==============================================================================
