------------------------- MODULE MCProposalLifecycle -------------------------
(***************************************************************************)
(* Small instances of ProposalLifecycle for TLC.                           *)
(***************************************************************************)
EXTENDS ProposalLifecycle, TLC

CONSTANTS calm, wild   \* two views: the policy allows more in a calm market

MCMidPrice == calm :> 4800 @@ wild :> 5600

\* 2000 cents pass in a calm market only; 1000 and the size 0 that rounding can
\* store pass in both, as no policy has a minimum size.
MCAllowed == ({0, 1000, 2000} \X {calm}) \cup ({0, 1000} \X {wild})

Symmetry == Permutations(Clients)
==============================================================================
