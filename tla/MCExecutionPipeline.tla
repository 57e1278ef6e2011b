------------------------- MODULE MCExecutionPipeline -------------------------
(***************************************************************************)
(* Small instances of ExecutionPipeline for TLC.                           *)
(***************************************************************************)
EXTENDS ExecutionPipeline, TLC

\* 75.00 fills in two fragments, expires at 40% or is cancelled at 25%; a limit
\* price that rounding took to 0 is rejected by the simulation.
MCTerms == {<<7500, 4800>>, <<4000, 0>>}

\* The order contract says nothing of terms.
MCFilling == {<<7500, 4800>>}

\* No bid or ask is passed: the limit price stands in for them.
MCQuotes == {<<Unquoted, Unquoted>>}

MCYes == [q \in Proposals |-> "yes"]
MCNo  == [q \in Proposals |-> "no"]

MCExpires == [q \in Proposals |-> 1]

Symmetry == Permutations(Clients)
==============================================================================
