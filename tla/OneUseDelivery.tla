----------------------------- MODULE OneUseDelivery -----------------------------
(***************************************************************************)
(* What automation resolution promises its executors, without locks,       *)
(* receipts or a vault: a dispatch is claimed at most once, a claim is     *)
(* answered at most once, and a dispatch that was spent without an answer  *)
(* stays spent.                                                            *)
(***************************************************************************)
EXTENDS Naturals

CONSTANT Dispatch     \* (execution, nonce, step, reference) keys

VARIABLES
    state,            \* [Dispatch -> {"unused", "claimed", "answered", "burnt"}]
    answers           \* [Dispatch -> Nat], bundles handed out

oneUseVars == <<state, answers>>

Init ==
    /\ state = [k \in Dispatch |-> "unused"]
    /\ answers = [k \in Dispatch |-> 0]

Move(k, from, to) == state[k] \in from /\ state' = [state EXCEPT ![k] = to]

Claim(k) == Move(k, {"unused"}, "claimed") /\ UNCHANGED answers

Answer(k) ==
    /\ Move(k, {"claimed"}, "answered")
    /\ answers' = [answers EXCEPT ![k] = 1]

\* A claim is abandoned, or a reservation became durable without its claimant.
Burn(k) == Move(k, {"unused", "claimed"}, "burnt") /\ UNCHANGED answers

Next == \E k \in Dispatch : Claim(k) \/ Answer(k) \/ Burn(k)

Spec == Init /\ [][Next]_oneUseVars

\* No claim stays open for ever.
Fairness == \A k \in Dispatch : WF_oneUseVars(Answer(k) \/ (state[k] = "claimed" /\ Burn(k)))

FairSpec == Spec /\ Fairness

================================================================================
