----------------------------- MODULE MCMixPool -----------------------------
(* MixPool for TLC: the model values, and the undisturbed pool.            *)
EXTENDS MixPool, TLC

Others == Permutations(Byzantine)

-----------------------------------------------------------------------------
(* A pool in which nothing goes wrong: every record is saved, every coin   *)
(* check answers well, every channel opens, nobody leaves or runs out of   *)
(* time, and the one relay delivers everything, no message ahead of those  *)
(* its sender had read when it was posted.  Of the posts of a member (its  *)
(* registration, view, nonces, partial signatures, funding signature) it   *)
(* had by then read as many of every other member as ReadBefore says.       *)
ReadBefore == [inputs |-> 0, payout |-> 1, view |-> 1, nonces |-> 1,
               psigs |-> 3, fsigs |-> 4]

InOrder(p, kind) ==
  /\ \A q \in Sessions : st[p].cursor[q] >= ReadBefore[kind]
  /\ kind \in {"inputs", "payout"} \/ Cardinality(st[p].heard) = N

Calm(p) ==
  \/ \E q \in Sessions :
       /\ ReadPost(p, q, "saved")
       /\ InOrder(p, Kind(posts[q][st[p].cursor[q] + 1]))
  \/ \E out \in payouts : InOrder(p, "payout") /\ ReadPayout(p, out)
  \/ CoinResults(p, {}, {})
  \/ PayoutGiven(p)
  \/ ChannelSaved(p)

CalmNext == \E p \in Honest : Calm(p)

(* No step of a calm pool is undone or disabled by another, so that "some  *)
(* step is taken as long as one can be" already delivers everything.       *)
CalmSpec == Init /\ [][CalmNext]_vars /\ WF_vars(CalmNext)

(* Every phone of an undisturbed pool signs, and collects the funding      *)
(* signature of every member: nothing a phone drops because it comes too   *)
(* early for it (a payout before registration is complete, on_output; a    *)
(* funding signature before the funding is built, collect_witnesses) is    *)
(* needed later.                                                           *)
CalmPoolCompletes == <>(\A p \in Honest : st[p].complete)
=============================================================================
