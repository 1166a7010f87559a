---------------------------- MODULE MCOnchainPay ----------------------------
(* OnchainPay for TLC.                                                     *)
EXTENDS OnchainPay

(* The page is open again and again: the walk and the watch run on their   *)
(* timers, the block-filter server answers in the end, LDK says its word,  *)
(* and the provider ends what it holds.                                    *)
FairSpec ==
  /\ Spec
  /\ WF_vars(Walking) /\ SF_vars(WalkRead)
  /\ WF_vars(Watching) /\ WF_vars(Ages)
  /\ WF_vars(LdkSays) /\ WF_vars(Provider)

(* The lock is seen, unless T comes first: the report may come after the   *)
(* walk has passed its block, the walk may fail, and the page may close.   *)
LockIsSeen ==
  lock.at # 0 /\ rec.st = "locked" ~> rec.st # "locked" \/ tip >= lock.t

(* Every pay ends, or waits for blocks, whatever was lost on the way: a    *)
(* page closed between two payments, a provider that never answered, a     *)
(* lock that was never seen.  One thing it does not survive: LDK tells of  *)
(* a payment that came back once, and a write that fails then is not made  *)
(* again.                                                                  *)
PayEnds ==
  rec.st \in Open ~>
    \/ rec.st \in Ended
    \/ lock.copy # 0 /\ tip < MaxTip
    \/ \E p \in {"a", "b"} : told[p] = "lost"
=============================================================================
