----------------------------- MODULE ChainFeed -----------------------------
(***************************************************************************)
(* How blocks and confirmations reach LDK: the provider's chain messages   *)
(* (cooperative_chain_bridge.rs), the coordinator that routes them         *)
(* (chain_coordinator.rs), the tick that drains them in order              *)
(* (node.rs background_tick), the two lanes that bypass the provider (the  *)
(* funding heal and the funding-spend walk), LDK's own bookkeeping of a    *)
(* funding's depth (channel.rs, channelmanager.rs) and of a funding's      *)
(* spend (channelmonitor.rs), and the saves of the channel manager and of  *)
(* its monitors that a restart goes back to.                               *)
(*                                                                         *)
(* LDK force-closes a channel whose funding it finds with no               *)
(* confirmations.  The provider's tip lags the chain and may step back;    *)
(* confirmations are replayed in any order, before or after their tip;     *)
(* the independent servers see the chain as it is.  The page is one        *)
(* thread: nothing comes between the steps of a tick, but it can be        *)
(* closed at any of them, and each save can fail.                          *)
(***************************************************************************)
EXTENDS Naturals, FiniteSets

CONSTANTS
  Channels,     \* the channels of the wallet with its provider
  Old,          \* those that are ready at first, confirmed in block 1
  MaxTip,       \* bound: the height of the chain
  MaxMoves,     \* bound: a funding's block is replaced by a higher one
  MaxRestarts,  \* bound: the page closed
  MaxFails      \* bound: saves that fail

ASSUME FeedAssumption ==
  /\ Old \subseteq Channels
  /\ MaxTip > 0
  /\ {MaxTip, MaxMoves, MaxRestarts, MaxFails} \subseteq Nat

VARIABLES
  tip,      \* the chain: its height,
  conf,     \*   the block of each channel's funding (0: none),
  spent,    \*   the block of the transaction that spends the funding (0)
  bridge,   \* BridgeState: last_block_height, pending_confirmations
  coord,    \* ChainCoordinator: tip_height, ldk_best_floor, confirmed_txs
  ldk,      \* the channel manager: its best block and its channels
  mon,      \* the channel monitors, in memory and on disk
  dirty,    \* manager_dirty
  saved,    \* the channel manager on disk
  phase,    \* where the tick is
  ready,    \* the confirmations the tick is draining
  heal,     \* the answers the funding heal awaits to apply (0: none)
  budget    \* what is left of the bounds

chain == <<tip, conf, spent>>
tick == <<phase, ready>>
node == <<ldk, mon, dirty>>
vars == <<chain, bridge, coord, node, saved, tick, heal, budget>>

Heights == 0..MaxTip
Confirmations == Channels \X (1..MaxTip)
Max2(a, b) == IF a > b THEN a ELSE b

(* A channel: open or why not, channel_ready sent and received, the        *)
(* funding's height and whether it was ever seen; and, for the properties, *)
(* whether the heal recorded the funding above LDK's best block.           *)
NoChannel == [st |-> "none", ours |-> FALSE, theirs |-> FALSE,
              fund |-> 0, seen |-> FALSE, early |-> FALSE]
OldChannel == [st |-> "open", ours |-> TRUE, theirs |-> TRUE,
               fund |-> 1, seen |-> TRUE, early |-> FALSE]

(* A monitor: funding_spend_seen, a CommitmentTxConfirmed among its        *)
(* pending events, and an update (ChannelForceClosed) that a manager saved *)
(* before the close does not know.                                         *)
NewMonitor == [seen |-> FALSE, event |-> FALSE, ahead |-> FALSE]

(* ChainCoordinator::new(0, ..): the tip is not persisted.                 *)
FreshCoord == [tip |-> 0, floor |-> 0, fund |-> [c \in Channels |-> 0],
               spend |-> {}]

(* hydrate_from_channels: the channels with a short channel id.            *)
Hydrated(k) ==
  [FreshCoord EXCEPT !.fund =
     [c \in Channels |-> IF k.chan[c].st = "open" THEN k.chan[c].fund ELSE 0]]

FreshBridge == [height |-> 0, pending |-> {}]

Init ==
  /\ tip = 1
  /\ conf = [c \in Channels |-> IF c \in Old THEN 1 ELSE 0]
  /\ spent = [c \in Channels |-> 0]
  /\ ldk = [best |-> 1, chan |-> [c \in Channels |->
                                   IF c \in Old THEN OldChannel ELSE NoChannel]]
  /\ bridge = FreshBridge /\ coord = Hydrated(ldk)
  /\ mon = [live |-> [c \in Channels |-> NewMonitor], disk |-> [c \in Channels |-> NewMonitor]]
  /\ saved = ldk /\ dirty = FALSE
  /\ phase = "idle" /\ ready = {}
  /\ heal = [c \in Channels |-> 0]
  /\ budget = [moves |-> MaxMoves, restarts |-> MaxRestarts, fails |-> MaxFails]

Spent(what) == budget[what] > 0 /\ budget' = [budget EXCEPT ![what] = @ - 1]

-----------------------------------------------------------------------------
(* LDK's channels.                                                         *)

(* get_funding_tx_confirmations                                            *)
Confs(k, h) == IF k.fund = 0 \/ h < k.fund THEN 0 ELSE h - k.fund + 1

(* A channel's best_block_updated(h): no confirmations take the funding    *)
(* height away, and close the channel if it was ready and had been seen    *)
(* confirmed.                                                              *)
BestOn(k, h) ==
  IF k.st # "open" \/ Confs(k, h) > 0 THEN k
  ELSE [k EXCEPT !.fund = 0,
                 !.st = IF k.ours /\ k.seen THEN "unconfirmed" ELSE "open"]

(* A channel's transactions_confirmed of its funding: recorded once, and   *)
(* deep enough for channel_ready at once (check_get_channel_ready with     *)
(* the height of the block, minimum_depth at most 1).                      *)
FundOn(k, h) ==
  IF k.st # "open" \/ k.fund # 0 THEN k
  ELSE [k EXCEPT !.fund = h, !.seen = TRUE, !.ours = TRUE]

(* What a call into LDK leaves: the manager, and the monitors.  A channel  *)
(* that the manager closes gives its monitor an update, which is written   *)
(* at once; the monitors in synced are written with the chain's data.      *)
(* Every write of a monitor makes the manager dirty.                       *)
Leaves(best, chan, live, synced, touched) ==
  LET closed == {c \in Channels : ldk.chan[c].st = "open" /\ chan[c].st # "open"}
      after == [c \in Channels |-> [live[c] EXCEPT !.ahead = @ \/ c \in closed]]
  IN  /\ ldk' = [best |-> best, chan |-> chan]
      /\ mon' = [live |-> after,
                 disk |-> [c \in Channels |->
                             IF c \in closed \cup synced THEN after[c] ELSE mon.disk[c]]]
      /\ dirty' = (dirty \/ touched \/ closed \cup synced # {})

(* Mutant: the tip jumps six blocks ahead (until Step C.4 of node.rs).     *)
BestBlockSynthetic(h) ==
  Leaves(h + 6, [c \in Channels |-> BestOn(ldk.chan[c], h + 6)], mon.live, {}, TRUE)

(* best_block_updated: the monitors, some of which are due to be written   *)
(* at this height, and the manager.                                        *)
BestBlockUpdated(h) ==
  \E synced \in SUBSET Channels :
    Leaves(h, [c \in Channels |-> BestOn(ldk.chan[c], h)], mon.live, synced, TRUE)

(* transactions_confirmed: the monitors (live), of which those with claims *)
(* pending are written, then the manager: a block below the best one has   *)
(* every channel checked against the best block again.                     *)
Confirmed(chan, live, h) ==
  \E synced \in SUBSET {c \in Channels : live[c].seen} :
    Leaves(ldk.best,
           IF h < ldk.best THEN [c \in Channels |-> BestOn(chan[c], ldk.best)] ELSE chan,
           live, synced, FALSE)

FundingConfirmed(c, h) ==
  Confirmed([ldk.chan EXCEPT ![c] = FundOn(@, h)], mon.live, h)

HealConfirmed(c, h) ==
  LET k == ldk.chan[c]
      above == k.st = "open" /\ k.fund = 0 /\ h > ldk.best
  IN  Confirmed([ldk.chan EXCEPT ![c] =
                   [FundOn(k, h) EXCEPT !.early = k.early \/ above]], mon.live, h)

(* Mutant: the manager is told, the monitors are not.                      *)
SpendConfirmedUnmonitored(c, h) == Confirmed(ldk.chan, mon.live, h)

(* The spend of a funding closes nothing by itself: the monitor, the first *)
(* time it sees one, has an event for the manager.                         *)
SpendConfirmed(c, h) ==
  LET m == mon.live[c]
  IN  Confirmed(ldk.chan,
                [mon.live EXCEPT ![c] = [m EXCEPT !.seen = TRUE, !.event = m.event \/ ~m.seen]],
                h)

-----------------------------------------------------------------------------
(* The chain and the provider.                                             *)

(* A block, with the fundings of some channels and the closes of others.   *)
Mine(funds, closes) ==
  /\ tip < MaxTip
  /\ \A c \in funds : ldk.chan[c].st # "none" /\ conf[c] = 0
  /\ \A c \in closes : conf[c] # 0 /\ spent[c] = 0
  /\ tip' = tip + 1
  /\ conf' = [c \in Channels |-> IF c \in funds THEN tip + 1 ELSE conf[c]]
  /\ spent' = [c \in Channels |-> IF c \in closes THEN tip + 1 ELSE spent[c]]
  /\ UNCHANGED <<bridge, coord, node, saved, tick, heal, budget>>

(* The newest block is replaced by two, and the funding moves into the     *)
(* second.                                                                 *)
Move(c) ==
  /\ conf[c] = tip /\ tip < MaxTip /\ Spent("moves")
  /\ tip' = tip + 1 /\ conf' = [conf EXCEPT ![c] = tip + 1]
  /\ UNCHANGED <<spent, bridge, coord, node, saved, tick, heal>>

(* The provider's messages, as dispatch leaves them to the next tick:      *)
(* ChainDataBundle, BlockHeightUpdate - of a provider that may be behind,  *)
(* or step back - ...                                                      *)
LspSendsTip(h) ==
  /\ phase = "idle" /\ h <= tip
  /\ bridge' = [bridge EXCEPT !.height = h]
  /\ UNCHANGED <<chain, coord, node, saved, tick, heal, budget>>

(* ... and FundingTxConfirmed, also again: the provider replays them to a  *)
(* wallet that subscribes.                                                 *)
LspSendsConf(c) ==
  /\ phase = "idle" /\ conf[c] # 0
  /\ bridge' = [bridge EXCEPT !.pending = @ \cup {<<c, conf[c]>>}]
  /\ UNCHANGED <<chain, coord, node, saved, tick, heal, budget>>

(* A channel whose funding is signed: minimum_depth is 1, or 0 and it is   *)
(* ready at once.                                                          *)
Open(c, zeroConf) ==
  /\ phase = "idle" /\ ldk.chan[c].st = "none" /\ conf[c] = 0
  /\ ldk' = [ldk EXCEPT !.chan[c] =
               [NoChannel EXCEPT !.st = "open", !.ours = zeroConf]]
  /\ saved' = ldk'
  /\ UNCHANGED <<chain, bridge, coord, mon, dirty, tick, heal, budget>>

(* The provider's channel_ready.                                           *)
TheirReady(c) ==
  /\ phase = "idle" /\ ldk.chan[c].st = "open" /\ ~ldk.chan[c].theirs
  /\ ldk.chan[c].ours \/ conf[c] # 0
  /\ ldk' = [ldk EXCEPT !.chan[c].theirs = TRUE]
  /\ UNCHANGED <<chain, bridge, coord, mon, dirty, saved, tick, heal, budget>>

-----------------------------------------------------------------------------
(* The coordinator.                                                        *)

(* seed_floor                                                              *)
SeedFloor(k) == [k EXCEPT !.floor = Max2(@, ldk.best)]

(* ingest_bridge_tip and emit_best_block: the coordinator after the tip,   *)
(* and whether LDK is told.                                                *)
IngestBridgeTip(k, h) ==
  IF h <= k.tip THEN [to |-> k, tell |-> FALSE]
  ELSE IF h < k.floor THEN [to |-> [k EXCEPT !.tip = h], tell |-> FALSE]
  ELSE [to |-> [k EXCEPT !.tip = h, !.floor = h], tell |-> TRUE]

-----------------------------------------------------------------------------
(* background_tick.                                                        *)

(* Mutant: whatever tip the provider sends is LDK's (until v198).          *)
TipStepAny(h) ==
  IF h = 0 THEN UNCHANGED <<coord, node>>
  ELSE coord' = [coord EXCEPT !.tip = h] /\ BestBlockUpdated(h)

(* The tip before the confirmations: LDK is told of a provider's tip above *)
(* its best block.                                                         *)
TipStep(h) ==
  LET seeded == SeedFloor(coord)
      r == IngestBridgeTip(seeded, h)
  IN  IF h <= ldk.best
      THEN coord' = seeded /\ UNCHANGED node
      ELSE /\ coord' = r.to
           /\ IF r.tell THEN BestBlockUpdated(h) ELSE UNCHANGED node

(* Mutant: nothing waits for its tip (until v231).                         *)
TickUnheld ==
  /\ phase = "idle"
  /\ TipStep(bridge.height)
  /\ ready' = bridge.pending
  /\ bridge' = [bridge EXCEPT !.pending = {}]
  /\ phase' = IF ready' = {} THEN "end" ELSE "drain"
  /\ UNCHANGED <<chain, saved, heal, budget>>

(* The tip, and the split of the confirmations into those at or below the  *)
(* coordinator's tip and those that are put back.                          *)
Tick ==
  /\ phase = "idle"
  /\ TipStep(bridge.height)
  /\ ready' = {p \in bridge.pending : p[2] <= coord'.tip}
  /\ bridge' = [bridge EXCEPT !.pending = @ \ ready']
  /\ phase' = IF ready' = {} THEN "end" ELSE "drain"
  /\ UNCHANGED <<chain, saved, heal, budget>>

(* One confirmation, the lowest first: ingest_bridge_conf, and LDK.        *)
Drain ==
  /\ phase = "drain"
  /\ \E p \in ready :
       /\ \A q \in ready : p[2] <= q[2]
       /\ coord' = [coord EXCEPT !.fund[p[1]] = p[2]]
       /\ FundingConfirmed(p[1], p[2])
       /\ ready' = ready \ {p}
  /\ phase' = IF ready' = {} THEN "save" ELSE "drain"
  /\ UNCHANGED <<chain, bridge, saved, heal, budget>>

(* The save after the confirmations; a failed one ends the tick.           *)
DrainSaved ==
  /\ phase = "save"
  /\ \/ saved' = ldk /\ phase' = "end" /\ UNCHANGED budget
     \/ Spent("fails") /\ phase' = "idle" /\ UNCHANGED saved
  /\ UNCHANGED <<chain, bridge, coord, node, ready, heal>>

(* The end of the tick: a save when the manager is dirty, and after events *)
(* and every ten ticks; a failed one leaves it dirty.                      *)
EndTick ==
  /\ phase = "end" /\ phase' = "idle"
  /\ \/ saved' = ldk /\ dirty' = FALSE /\ UNCHANGED budget
     \/ ~dirty /\ UNCHANGED <<saved, dirty, budget>>
     \/ Spent("fails") /\ UNCHANGED <<saved, dirty>>
  /\ UNCHANGED <<chain, bridge, coord, ldk, mon, ready, heal>>

-----------------------------------------------------------------------------
(* The lanes that bypass the provider.                                     *)

(* Mutant: only channels the provider is not ready on.                     *)
HealAskUnready(c) ==
  /\ phase = "idle" /\ heal[c] = 0 /\ conf[c] # 0
  /\ ldk.chan[c].st = "open" /\ ~ldk.chan[c].theirs
  /\ heal' = [heal EXCEPT ![c] = conf[c]]
  /\ UNCHANGED <<chain, bridge, coord, node, saved, tick, budget>>

(* Every thirty ticks the fundings of channels that are not ready are      *)
(* looked up at the independent servers ...                                *)
HealAsk(c) ==
  /\ phase = "idle" /\ heal[c] = 0 /\ conf[c] # 0
  /\ ldk.chan[c].st = "open" /\ ~(ldk.chan[c].ours /\ ldk.chan[c].theirs)
  /\ heal' = [heal EXCEPT ![c] = conf[c]]
  /\ UNCHANGED <<chain, bridge, coord, node, saved, tick, budget>>

(* ... and the answer goes to LDK through ingest_independent_confirmation, *)
(* which drops a height it holds.                                          *)
HealApply(c) ==
  /\ phase = "idle" /\ heal[c] # 0
  /\ heal' = [heal EXCEPT ![c] = 0]
  /\ IF coord.fund[c] = heal[c] THEN UNCHANGED <<coord, node>>
     ELSE /\ coord' = [coord EXCEPT !.fund[c] = heal[c]]
          /\ HealConfirmed(c, heal[c])
  /\ UNCHANGED <<chain, bridge, saved, tick, budget>>

(* check_funding_outpoints_for_spends: a confirmed spend of a funding.     *)
SpendCheck(c) ==
  /\ phase = "idle" /\ ldk.chan[c].st # "none"
  /\ spent[c] # 0 /\ c \notin coord.spend
  /\ coord' = [coord EXCEPT !.spend = @ \cup {c}]
  /\ SpendConfirmed(c, spent[c])
  /\ UNCHANGED <<chain, bridge, saved, tick, heal, budget>>

(* process_pending_monitor_events, before the tick and after every inbound *)
(* byte: the manager takes the monitors' events and closes the channels.   *)
MonitorEvents ==
  /\ phase = "idle" /\ \E c \in Channels : mon.live[c].event
  /\ Leaves(ldk.best,
            [c \in Channels |->
               IF mon.live[c].event /\ ldk.chan[c].st = "open"
               THEN [ldk.chan[c] EXCEPT !.st = "closed"] ELSE ldk.chan[c]],
            [c \in Channels |-> [mon.live[c] EXCEPT !.event = FALSE]], {}, FALSE)
  /\ UNCHANGED <<chain, bridge, coord, saved, tick, heal, budget>>

-----------------------------------------------------------------------------
(* The page closed and opened again.                                       *)

(* Mutant: the manager is taken at its word.                               *)
RestoredAsSaved == saved

(* ChannelManager's read: a channel whose monitor is ahead of the manager  *)
(* is force-closed.                                                        *)
Restored ==
  [saved EXCEPT !.chan = [c \in Channels |->
     IF saved.chan[c].st = "open" /\ mon.disk[c].ahead
     THEN [saved.chan[c] EXCEPT !.st = "closed"] ELSE saved.chan[c]]]

(* The manager and the monitors come from the disk; the bridge and the     *)
(* coordinator are new.                                                    *)
Restart ==
  /\ Spent("restarts")
  /\ ldk' = Restored /\ coord' = Hydrated(Restored)
  /\ mon' = [mon EXCEPT !.live = mon.disk]
  /\ bridge' = FreshBridge /\ dirty' = FALSE
  /\ phase' = "idle" /\ ready' = {}
  /\ heal' = [c \in Channels |-> 0]
  /\ UNCHANGED <<chain, saved>>

Next ==
  \/ \E funds, closes \in SUBSET Channels : Mine(funds, closes)
  \/ \E c \in Channels : \/ Move(c) \/ LspSendsConf(c) \/ TheirReady(c) \/ HealAsk(c) \/ HealApply(c)
                         \/ SpendCheck(c)
                         \/ \E zeroConf \in BOOLEAN : Open(c, zeroConf)
  \/ \E h \in 1..MaxTip : LspSendsTip(h)
  \/ Tick \/ Drain \/ DrainSaved \/ EndTick \/ MonitorEvents \/ Restart

Spec == Init /\ [][Next]_vars

-----------------------------------------------------------------------------
Chan == [st : {"none", "open", "unconfirmed", "closed"}, ours : BOOLEAN,
         theirs : BOOLEAN, fund : Heights, seen : BOOLEAN, early : BOOLEAN]
Monitors == [Channels -> [seen : BOOLEAN, event : BOOLEAN, ahead : BOOLEAN]]
Manager == [best : Heights, chan : [Channels -> Chan]]

(* The types: what each lane, LDK and the disk hold (node.rs,              *)
(* chain_coordinator.rs, cooperative_chain_bridge.rs).                     *)
TypeOK ==
  /\ tip \in 1..MaxTip
  /\ conf \in [Channels -> Heights] /\ spent \in [Channels -> Heights]
  /\ bridge \in [height : Heights, pending : SUBSET Confirmations]
  /\ coord \in [tip : Heights, floor : Heights, fund : [Channels -> Heights],
                spend : SUBSET Channels]
  /\ ldk \in Manager /\ saved \in Manager /\ dirty \in BOOLEAN
  /\ mon \in [live : Monitors, disk : Monitors]
  /\ phase \in {"idle", "drain", "save", "end"}
  /\ ready \subseteq Confirmations
  /\ heal \in [Channels -> Heights]
  /\ budget \in [{"moves", "restarts", "fails"} -> Nat]

(* A channel whose funding is on the chain is not force-closed for a       *)
(* funding "un-confirmed", whatever is replayed, late, out of order or     *)
(* lost with the page - unless the heal recorded the funding above LDK's   *)
(* best block (NeverAboveBest).                                            *)
HealthyNotClosed ==
  \A c \in Channels : ldk.chan[c].st = "unconfirmed" => ldk.chan[c].early

(* A spend that a monitor has seen is not lost, though it is told once: as *)
(* long as the manager holds the channel open, the event still waits for   *)
(* it, in memory and, should the page close now, on the disk.              *)
SpendIsKept ==
  \A c \in Channels :
    /\ mon.live[c].seen /\ ldk.chan[c].st = "open" => mon.live[c].event
    /\ mon.disk[c].seen /\ Restored.chan[c].st = "open" => mon.disk[c].event

(* "LDK never records a transaction in a block newer than the newest block *)
(* it knows" (node.rs, v231).                                              *)
NeverAboveBest == \A c \in Channels : ldk.chan[c].fund <= ldk.best

(* LDK's best block never steps back while the page is open (v200, the     *)
(* wallet-level ratchet), though the provider's does.                      *)
BestNeverFalls == [][ldk'.best >= ldk.best \/ ldk' = Restored]_vars
=============================================================================
