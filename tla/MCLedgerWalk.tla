--------------------------- MODULE MCLedgerWalk ---------------------------
(* LedgerWalk for TLC: the wallet that is kept open.                       *)
EXTENDS LedgerWalk

(* The page calls the walk again and again, and a reorganisation gets      *)
(* through; the chain, the failures and the page's closing come to an end  *)
(* (their bounds).                                                         *)
FairSpec ==
  /\ Spec
  /\ WF_vars(Sync)
  /\ WF_vars(Tip < highest /\ Mine({}))

Current == disk.top = Tip /\ disk.topHash = chain[Tip].hash

(* The top of the ledger reaches the tip of the chain ("self-heals later", *)
(* the page after three failed calls).                                     *)
TopCatchesUp == <>[](pc = "idle" => Current)

(* Its history reaches the birthday ("each call reads up to max_batches    *)
(* batches below it until the birthday", sync_down), unless the lowest     *)
(* block read was orphaned: nothing moves the down cursor up again.        *)
HistoryCompletesOrOrphaned ==
  <>[](\/ disk.opened /\ disk.done
       \/ disk.opened /\ (disk.low > Tip \/ chain[disk.low].hash # disk.lowHash))
===========================================================================
