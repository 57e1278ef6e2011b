------------------------------ MODULE PolicyDesk ------------------------------
(***************************************************************************)
(* What an operator's commands do with the settings: a command loads them  *)
(* (each may run under another profile), makes a draft from an estimate or *)
(* approves one it finds.  Storage, expiry and the other decisions are the *)
(* subject of ProposalLifecycle.                                           *)
(***************************************************************************)
EXTENDS TradePolicies, Sequences, FiniteSetsExt

CONSTANTS
  Base,           \* base.yaml
  Profiles,       \* the profile documents
  ModeOverrides,  \* values of BOT_MODE
  Snapshots,      \* cached market snapshots
  SeedEstimates,  \* estimates that do not come from the scanner
  MaxDrafts       \* bound: drafts made

Estimates ==
  [fair : 0 .. Unit, confidence : 0 .. Unit, agreement : Nat, trusted : BOOLEAN,
   sources : SUBSET STRING]

ASSUME PricesAreShares ==
  /\ \A snapshot \in Snapshots :
       /\ snapshot.mid \in 0 .. Unit /\ snapshot.reference \in 0 .. Unit \cup {None}
       /\ {snapshot.spread, snapshot.market.liquidity, snapshot.market.rules} \subseteq Int
  /\ SeedEstimates \subseteq Estimates

VARIABLES
  settings,       \* of the command that runs
  drafts          \* the proposals, each with what it was made from

policyVars == <<settings, drafts>>

PolicyInit == settings = ConfigError /\ drafts = <<>>

\* A command starts.
LoadSettings ==
  /\ \E profile \in Profiles, mode \in ModeOverrides :
       settings' = load_settings(Base, profile, mode)
  /\ UNCHANGED drafts

\* create() of the bridge or of the seed.
CreateDraft ==
  /\ settings # ConfigError /\ Len(drafts) < MaxDrafts
  /\ \E snapshot \in Snapshots :
     \E probability \in estimate_probability(snapshot) \cup SeedEstimates :
     \E context \in InFloats(create_default_context(snapshot.market, probability, snapshot.mid)) :
     \E proposal \in create_proposal(settings, context) :
       drafts' = Append(drafts, proposal)
  /\ UNCHANGED settings

\* approve() of draft i; the fresh snapshot may differ in everything.
ApproveDraft(i) ==
  /\ settings # ConfigError /\ drafts[i].status = Pending
  /\ \E snapshot \in Snapshots :
     \E exact \in RevalidationContexts(settings, drafts[i], snapshot.market, snapshot.mid) :
     \E context \in InFloats(exact) :
       LET draft == drafts[i]
           reasons == Evaluate(settings, context)
       IN  /\ snapshot.market.id = draft.market
           /\ drafts' = [drafts EXCEPT ![i] =
                [draft EXCEPT
                   !.status = IF reasons = {} THEN "approved" ELSE PolicyRejected,
                   !.reasons = reasons,
                   !.price = snapshot.mid, !.probability = context.probability,
                   !.refusedAt = IF reasons = {} THEN None ELSE snapshot.mid,
                   !.samePolicies = settings = draft.madeUnder
                                      /\ snapshot.market = draft.madeFor]]
  /\ UNCHANGED settings

PolicyNext == LoadSettings \/ CreateDraft \/ \E i \in DOMAIN drafts : ApproveDraft(i)

PolicySpec == PolicyInit /\ [][PolicyNext]_policyVars

Drafts == {drafts[i] : i \in DOMAIN drafts}

(***************************************************************************)
(* SemiAutoIsStrict: no order of files and of BOT_MODE gives a command in  *)
(* semi_auto mode settings that let something run without the operator.    *)
(***************************************************************************)
SemiAutoIsStrict ==
  settings # ConfigError /\ settings.mode = "semi_auto" =>
    semi_auto_strict(settings) /\ ~settings.gateway.allow_live_order_submission

(***************************************************************************)
(* SizesRespectLimits: a size the sizing engine chose exceeds no limit of  *)
(* the settings it was chosen under by more than the half cent it was      *)
(* rounded by, and a draft is refused for its size only for that half.     *)
(***************************************************************************)
SizesRespectLimits ==
  \A draft \in Drafts :
    LET limits == draft.madeUnder.position_limits
        bankroll == draft.madeUnder.bankroll.total
        over(share) == Unit * draft.size - bankroll * share
    IN  /\ draft.size <= draft.max_allowed
        /\ \A share \in {limits.max_position_pct, limits.max_theme_exposure_pct,
                         limits.max_unresolved_exposure_pct,
                         Unit - draft.madeUnder.bankroll.reserve_ratio} : 2 * over(share) <= Unit
        /\ draft.reasons \cap SizeReasons # {} /\ draft.refusedAt = None =>
             \E share \in {limits.max_position_pct, limits.max_unresolved_exposure_pct} :
               over(share) > 0

(***************************************************************************)
(* PriceMoveRefusesOnlyAnEdge: a draft that the policies allowed, approved *)
(* under the same settings for a market with the same metadata, is refused *)
(* only when the edge it carries over no longer fits below 1, was just the *)
(* least there may be, or is cut below it by the rounding, however far the *)
(* price has moved.                                                        *)
(***************************************************************************)
EdgeIsTight(draft, price) ==
  LET carried == price + draft.edge
      spare == draft.edge - draft.madeUnder.entry_rules.min_edge_pct
  IN  carried > Unit \/ spare = 0 \/ (carried % Grain # 0 /\ 2 * spare <= Grain)

PriceMoveRefusesOnlyAnEdge ==
  \A draft \in Drafts :
    draft.refusedAt # None /\ draft.samePolicies => EdgeIsTight(draft, draft.refusedAt)

(***************************************************************************)
(* UnresolvedExposureCapped: what is approved and not settled stays within *)
(* the share of the bankroll that the settings give to unresolved markets. *)
(***************************************************************************)
UnresolvedExposureCapped ==
  LET approved == {i \in DOMAIN drafts : drafts[i].status = "approved"}
  IN  settings # ConfigError =>
        Unit * MapThenSumSet(LAMBDA i : drafts[i].size, approved)
          <= settings.bankroll.total * settings.position_limits.max_unresolved_exposure_pct
==============================================================================
