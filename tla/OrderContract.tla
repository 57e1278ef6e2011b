---------------------------- MODULE OrderContract ----------------------------
(***************************************************************************)
(* What the docs promise of order intents: at most one active intent per   *)
(* proposal, a terminal intent never comes back, and a terminal simulated  *)
(* intent is not simulated again.                                          *)
(***************************************************************************)
EXTENDS Naturals

CONSTANTS Intents, Proposals

VARIABLES
  stage,   \* "none", "active" or "terminal" for each intent
  owner,   \* the proposal of each intent
  runs     \* how many executions each intent has

Init ==
  /\ stage = [i \in Intents |-> "none"]
  /\ \E q \in Proposals : owner = [i \in Intents |-> q]
  /\ runs = [i \in Intents |-> 0]

Open(i, q) ==
  /\ stage[i] = "none"
  /\ \A j \in Intents : stage[j] = "active" => owner[j] # q
  /\ stage' = [stage EXCEPT ![i] = "active"]
  /\ owner' = [owner EXCEPT ![i] = q]
  /\ UNCHANGED runs

Close(i) ==
  /\ stage[i] = "active"
  /\ stage' = [stage EXCEPT ![i] = "terminal"]
  /\ UNCHANGED <<owner, runs>>

Execute(i) ==
  /\ stage[i] = "terminal" /\ runs[i] = 0
  /\ runs' = [runs EXCEPT ![i] = 1]
  /\ UNCHANGED <<stage, owner>>

Next == \E i \in Intents : Close(i) \/ Execute(i) \/ \E q \in Proposals : Open(i, q)

Spec == Init /\ [][Next]_<<stage, owner, runs>>
==============================================================================
