---------------------------- MODULE OneTimeGrant ----------------------------
(***************************************************************************)
(* What every link, code and state promises, whichever server redeems it:  *)
(* it is good once.  A grant is open until it is redeemed, or lost; one    *)
(* that has been taken out of the store and not paid yet can still go      *)
(* either way, and nothing comes back.                                     *)
(***************************************************************************)
EXTENDS Naturals

CONSTANT Grant

VARIABLES state,       \* state[g]
          redemptions  \* redemptions[g]: how often somebody got what g is for

GrantState == {"open", "taken", "redeemed", "void"}

GrantTypeOK == state \in [Grant -> GrantState] /\ redemptions \in [Grant -> Nat]

Init ==
  /\ state = [g \in Grant |-> "open"]
  /\ redemptions = [g \in Grant |-> 0]

Become(g, s) == state' = [state EXCEPT ![g] = s]

Take(g) ==
  /\ state[g] = "open"
  /\ Become(g, "taken")
  /\ UNCHANGED redemptions

Redeem(g) ==
  /\ state[g] \in {"open", "taken"}
  /\ Become(g, "redeemed")
  /\ redemptions' = [redemptions EXCEPT ![g] = @ + 1]

Lose(g) ==
  /\ state[g] \in {"open", "taken"}
  /\ Become(g, "void")
  /\ UNCHANGED redemptions

Next == \E g \in Grant : Take(g) \/ Redeem(g) \/ Lose(g)

Spec == Init /\ [][Next]_<<state, redemptions>>

\* A grant is redeemed once, and only while it says so.
GoodOnce == \A g \in Grant : redemptions[g] = IF state[g] = "redeemed" THEN 1 ELSE 0
=============================================================================
