---------------------------- MODULE MCMixStore ----------------------------
(* MixStore for TLC: the model values, and the page that is kept open.     *)
EXTENDS MixStore, TLC

Alike == Permutations(Coins) \cup Permutations(Seats) \cup Permutations(Pools)

(* The wallet is opened again whenever it was closed, its ledger walks     *)
(* with the chain, and every walk is followed by the settle pass           *)
(* (afterSync), which in the end gets through its writes.                  *)
Fairness ==
  /\ WF_vars(Boot)
  /\ WF_vars(Walk)
  /\ SF_vars(\E done \in SUBSET DOMAIN recs : SettlePass(done, FALSE))

FairSpec == Spec /\ Fairness

(* A record whose pool the chain has settled is wiped in the end, and no   *)
(* later copy carries it (section 9 rule 3).                               *)
SettledIsWiped ==
  \A a \in Attempts, coin \in Coins :
    (a \in DOMAIN recs /\ recs[a] = coin /\ Settled(a, coin))
      ~> (~(a \in DOMAIN recs /\ recs[a] = coin))
=============================================================================
