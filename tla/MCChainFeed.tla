---------------------------- MODULE MCChainFeed ----------------------------
(* ChainFeed for TLC: a wallet that is open, and servers that answer; the  *)
(* provider may be silent for ever.  Every tick begins with the pass over  *)
(* the monitors' events.                                                   *)
EXTENDS ChainFeed

FairSpec ==
  /\ Spec
  /\ WF_vars(Tick) /\ WF_vars(Drain) /\ WF_vars(DrainSaved) /\ WF_vars(EndTick)
  /\ SF_vars(MonitorEvents)
  /\ \A c \in Channels : SF_vars(HealAsk(c)) /\ SF_vars(HealApply(c))
                         /\ SF_vars(SpendCheck(c))

(* A funding that is on the chain makes its channel ready on this side in  *)
(* the end, without the provider: the funding heal finds it.               *)
FundingIsNoticed ==
  \A c \in Channels : ldk.chan[c].st = "open" /\ conf[c] # 0
                        ~> ldk.chan[c].ours \/ ldk.chan[c].st # "open"

(* A funding that is spent closes its channel in the end: the walk over    *)
(* the funding outpoints finds it, the monitor tells the manager once, and *)
(* a page closed before any of the writes (the monitor's, the manager's)   *)
(* loses nothing for good.                                                 *)
SpendIsNoticed ==
  \A c \in Channels : spent[c] # 0 ~> ldk.chan[c].st # "open"
=============================================================================
