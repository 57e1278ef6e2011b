--------------------------- MODULE ProposalContract ---------------------------
(***************************************************************************)
(* What the semi-automatic workflow promises of a proposal, one proposal   *)
(* at a time: its status moves forward only, its terms change only while   *)
(* an operator may still edit them, and cancelled and policy_rejected are  *)
(* final.                                                                  *)
(***************************************************************************)
EXTENDS Naturals

CONSTANTS Proposals, Terms

VARIABLES status, terms

Blank   == <<0, 0>>
Pending == "pending_manual_confirmation"

Init ==
  /\ status = [q \in Proposals |-> "absent"]
  /\ terms = [q \in Proposals |-> Blank]

\* Any terms for q, nobody else's.
Rewrite(q) == terms'[q] \in Terms /\ terms' = [terms EXCEPT ![q] = terms'[q]]

\* Items 1 to 3: a candidate is stored pending, or rejected by the policy.
Draft(q) ==
  /\ status[q] = "absent"
  /\ \E s \in {Pending, "policy_rejected"} : status' = [status EXCEPT ![q] = s]
  /\ Rewrite(q)

\* Item 4: size and price may change while the proposal is pending.
Edit(q) ==
  /\ status[q] = Pending
  /\ Rewrite(q)
  /\ UNCHANGED status

\* Items 5 to 7: approval, failed revalidation, rejection or expiry.
Decide(q) ==
  /\ status[q] = Pending
  /\ \E s \in {"approved", "policy_rejected", "cancelled"} :
       status' = [status EXCEPT ![q] = s]
  /\ UNCHANGED terms

\* Cancelling an approved proposal.
Withdraw(q) ==
  /\ status[q] = "approved"
  /\ status' = [status EXCEPT ![q] = "cancelled"]
  /\ UNCHANGED terms

Next == \E q \in Proposals : Draft(q) \/ Edit(q) \/ Decide(q) \/ Withdraw(q)

Spec == Init /\ [][Next]_<<status, terms>>
==============================================================================
