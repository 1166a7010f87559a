# TLA+ models of Lightning in a Jar

Lightning in a Jar is a self-custodial Lightning and on-chain wallet that runs
in a browser page: a Rust core (`src/lij/lij-core`), its WebAssembly bindings
(`src/lij/lij-wasm`), the page itself (`src/lij-pwa/frontend/wallet`) and small
servers beside a node (`src/ops`). Nothing in it can rely on staying alive: the
page is closed at any moment, storage writes fail, the relay and the servers
answer late or from another state than before. What it promises about money has
to hold through all of that, and it is the part a unit test reaches least.

This directory holds TLA+ modules for the parts of the wallet where that matters
most, TLC runs that check them on small instances, and TLAPS proofs.

    tlc -workers 2 -config MixPool_table.cfg MCMixPool  # one run
    tlapm MixPoolProofs.tla                             # the proofs of a module

`PROJECT.json` lists the runs, the source lines behind each definition, the
mutants that show each property can fail, the findings and the hazards.

## 1. The system: inventory

Status: M modelled, P partly, – not yet.

| Component | State it keeps | Operations | Talks to | |
|---|---|---|---|---|
| Mix pool machine (`tatara/machine.rs`, `checks.rs`, `caps.rs`, `rederive.rs`) | one attempt: phase, registrations, payouts, views, nonces, partial signatures, flags | `on` (one message), `on_coins`, `payout_given`, `channel_saved`, `channel_failed`, `record_saved`, `leave`, `timeout` | phone driver | M |
| Mix phone driver and wire (`phone.rs`, `wire.rs`) | events seen, coin checks asked for, witnesses, deadlines | `read`, `coin_result`, `tick`, `try_complete`; the handshake of a public room | machine, relay, page | P |
| Mix store (`store.rs`, `records.rs`, `wallet.rs`) | seats, records of signed exits, holds on coins | `seat_new/drop`, `record_save/wipe`, `after`, `settle_pass`, `reconcile`, keep-out | storage, ledger | P |
| Mix bindings and page (`lij-wasm/src/lib.rs`, `index.html`) | attempts of this page, seats claimed | start, step, stop, notice, finish, give up | all of the above, provider | P |
| Mix client, coin proofs, fee bump (`client.rs`, `coin.rs`, `bump.rs`) | none | request bodies, proofs, fee arithmetic | provider | – |
| On-chain ledger walk (`tier2_wallet.rs`, `tier2_sync.rs`, `tier2.rs`) | the view: cursor, down cursor, coins, pending spends | `sync_down`, `sync_step`, `sync_step_down`, `reorg_check`, `rollback`, `apply_txs`, rebuild | filter server, storage | P |
| Block-filter server (`ops/lij-tier2-filters.py`) | a node's best chain | tip, headers, filters, block | ledger walk | P |
| Silent payments (`silent_payment.rs`, `sp_scan.rs`, `ops/lij-sp-index.py`) | a second walk, tweaks, coins found | scan, hand over | ledger, index server | – |
| Chain coordinator (`chain_coordinator.rs`, `cooperative_chain_*`, `independent.rs`, `priority_scan.rs`) | tip accepted, floor, confirmations forwarded; the bridge's inbox | `ingest_bridge_tip`, `ingest_*_confirmation`, drain, heal, funding-spend walk, resubscribe | LDK, LSP, servers | P |
| Broadcaster (`broadcaster.rs`) | queue of transactions | enqueue, retry, drop | servers, LDK | – |
| Sync state, cold start (`sync_state.rs`, `cold_start.rs`, `black_start.rs`, `progress.rs`) | progress of a start | stages, retries | coordinator, page | – |
| Closed channels, cancelled opens (`closed_channel_*.rs`, `close_attempt.rs`, `cancelled_open.rs`, `sweeper.rs`) | logs of closes, watches | notice, watch, sweep | LDK, ledger | – |
| Storage (`storage.rs`, `persist.rs`, `persisted_counter.rs`, `kit_merge.rs`, `tx_store.rs`, `seed_vault.rs`) | keys and values, counters, copies | put, merge, restore | everybody | – |
| On-chain sends (`onchain_send.rs`, `onchain_scan.rs`, `coin_select.rs`, `fee_estimator.rs`) | pending sends, reservations | plan, select, send, bump | ledger, holds | – |
| On-chain pay (`onchain_pay.rs`, `node.rs` `onchain_pay_*`, `lijOnchainPay` on the page) | one record a pay: state, T, the lock seen, the release | quote, open, pay A and B, lock report, release, hand over, latch | provider, ledger walk, LDK | P |
| In-flight payments, Push Keys (`inflight.rs`, `push.rs`) | payments under way | lock, claim, refund | LSP | – |
| Lightning sends (`lij-wasm` `send_loop`, `continue_payment`; `doSend`, the ledger rows, the fate tick on the page) | the loop's try and payment id, outcomes, rows, the question | probe, route, dispatch, wait, abandon, ask, reconcile | LDK, provider, page | P |
| LSP, LSPS2, just-in-time channels (`lsp.rs`, `lsps2.rs`, `jit_funding.rs`, `channel_open.rs`) | orders, quotes | order, open, fail | LSP | – |
| Nostr Wallet Connect (`nwc.rs`, `lnurl_auth.rs`, `invoice_facts.rs`) | budgets, requests seen | pay, refuse | relay, node | – |
| Node, wallet, keys (`node.rs`, `wallet.rs`, `peer.rs`, `signer.rs`, `musig.rs`, ...) | the channel manager and its saves, payment outcomes | the background tick, events, saves | LDK | P |
| Service worker (`sw.js`) | cached assets | – | page | – |
| Patched LDK (`channel.rs`, `channelmanager.rs`, `outbound_payment.rs`), joinstr, secp | channels' fundings, outbound payments | confirmations, claims, failures, abandon | node | P |

How the modelled parts meet. A **pool** (a mix; Tatara) is a CoinJoin-like round
between phones over a Nostr relay: members register coins, then payouts under
one-time keys, agree on the view, exchange MuSig nonces and partial signatures
for the *exits*, and only then sign the *funding* transaction that puts all
coins into a shared output. The machine is told by the driver what arrives; the
page's `after` saves the **record** of the signed exits in the store before the
machine may sign the funding. The **store** ties seats (this wallet's places on
a provider's list), records and holds on coins together, and drops a record
when the **ledger** shows that the chain has settled it. The ledger is read by
the **walk** from compact filters a server hands out.

The **chain feed** is a second reading of the chain, for LDK: the provider sends
tips and confirmations, the coordinator decides what LDK is told of them, and
the independent servers fill in what the provider never said. **Sends** go from
the Send screen through the engine's retry loop to LDK, whose events and lists
tell the loop, and later the ledger row, what became of each HTLC. An **on-chain
pay** ties three of these together: two Lightning payments to the provider, a
lock on the chain that the walk must see, and a secret that must leave neither
too early nor too late.

Hard behaviours, and what makes each part correct:

* *Pool.* Posts of different members interleave arbitrarily, a member may post
  anything, a deadline races a late message, the save of the record may fail or
  be torn. Correct means: a funding signature is never out without a record on
  disk whose exits everybody signed; a phone that stopped moved nothing; nonces
  sign once; nobody honest is named (and so refused later).
* *Store.* Several keys are written one after another, any write may fail and
  the page may be closed between them; a copy may be restored; reorganisations
  undo what settled a pool; one seat may run attempt after attempt. Correct
  means: the signed exits stay until they are no longer needed, the coin is not
  spent under them, and a coin is not held for ever.
* *Walk.* Every request may be answered from a different chain, may fail, and
  the page saves in between. Correct means: nothing of an orphaned block stays
  in the ledger, nothing in the blocks read is missed, and the walk gets done.
* *Chain feed.* The provider's tip lags and steps back, confirmations are
  replayed in any order at every subscription, the coordinator forgets with the
  page while LDK comes back from the disk, a save fails in the middle of a tick.
  Correct means: no healthy channel is closed because LDK was led to believe its
  funding is gone, and what happens on the chain is noticed without the provider.
* *Sends.* An HTLC cannot be recalled, silence is not failure, abandoning a
  payment is not the end of its HTLC, and the page may be closed at any await.
  Nothing keeps a second send of the invoice from starting meanwhile. Correct
  means: one try of a send at a time, its question "Try more" only when its own
  tries are back, no send past a payment that was left behind, and a row that is
  closed in the end.
* *On-chain pay.* Three sources may end a record (the provider, LDK, the walk),
  each late, in any order and against a state read before an await; the secret
  is worth the whole payment once it has left. Correct means: the provider never
  has both the payment and its coins back, a record that has ended says what
  happened, and every pay ends.

The full list, with lines, is `hazards` in `PROJECT.json`.

## 2. The modules

### MixPool (machine.rs, phone.rs, store::after)

One pool. `st[p]` is the memory of an honest phone `p` (the fields of `Attempt`
and `Phone`), `disk[p]` its record, `posts[q]` what session `q` posted, `payouts`
what came under one-time keys. Each handler of the machine is an operator from a
phone's state to a result (state, posts, payout, error), as the Rust handlers
mutate `self` and return actions or an error; what a handler changed before it
returned an error stays changed. `Read` is `Phone::read`, `After` is
`store::after` with the three ways a save may end (done; failed with nothing
written; torn, the record written and the hold not).

Actions: `ReadPost`, `ReadPayout`, `ClearSeen`, `CoinResults`, `TimeOut`,
`PayoutGiven`, `ChannelSaved`, `ChannelFailed`, `Leave`, `Close` of the honest
phones; `Forge`, `ForgePayout` of everyone else. A forged post comes into being
when its first reader reads it: an unread post changes nothing. One that its
first reader drops makes a difference only if that reader meets it again, or if
another phone reads it in another state; such posts (nonces ahead of their
sender's registration) are made of the kinds in `Dropped`.

Abstractions. Cryptography by what it accepts: a ring signature by its image, a
partial signature by the view and the nonces it signs, a view hash by the view.
A registration is one of four kinds the rules tell apart (in order, short, a bad
coin, a refused coin). Posts of one session are read in the order they were
posted, each once, until `ClearSeen` lets all of them come again. Deadlines may
pass at any moment of their phase.

`PoolCommit` is the abstract specification: members bind themselves to one view,
put a coin in only when every honest member of that view is bound to it, and put
nothing in once they quit. `MixPool` ends with the refinement mapping: what a phone
has signed and whether it quit are read off its posts, what it has put in off its
record.

### MixStore (store.rs, records.rs, lij-wasm, the page)

One wallet: `recs`, `locks`, `seats` are storage, `live` the attempts in the page,
each known by its pool id and its seat (`Attempts`), `up` whether the page runs,
`copy` the last copy, `chain` the blocks that matter (fundings, exits, sends of this
wallet's coins) and `scanned` how far the ledger has read. An operation that writes
two keys may be *cut* between them. Actions: `SeatNew`, `SeatDrop`, `Start`,
`RecordSave`, `Sign`, `Stop`, `Notice`, `Finish`, `GiveUp`, `SettlePass`, `Send`,
`KeepOut`, `Crash`, `Boot`, `Backup`, `Restore`, and the environment's `Block`,
`Reorg`, `Walk`, `Rollback`.

A seat runs one attempt at a time (`mix_seat_claim`), and a pool id that a record
has is refused (`mix_refuse_known_pool`); a pool id that another seat's attempt is
running under is not, so two attempts may share one. The store knows records by
the pool id alone: `put` replaces and `wipe` removes whichever attempt's record it
finds there. `clashed` remembers the pool ids under which two attempts ran at
once, and the safety properties speak of the attempts that were alone under
theirs (`Sole`); what happens to the others is in section 4.

Abstractions. What happens inside an attempt is the pool module's; here it is running,
saved, signed. That no seat or record names a coin when it takes a seat is the page's
check (`heldHere`), not the store's; a payout to another wallet, which the code asks
chain servers about, is seen with the ledger's height. A reorganisation of fewer than
`SETTLE_DEPTH` blocks is replaced by one more empty block. Pending rows (`pool_rows`)
are left out: they additionally reserve a record's coin from the send picker. A
restored copy that is older than a record has lost it (`lost`); the properties exempt
exactly that. Not modelled: quotes, hand-out of addresses, close joins.

### LedgerWalk (tier2_wallet.rs, tier2_sync.rs, tier2_onchain_sync)

One wallet and one server. `chain` is the server's best chain, `view` the
`Tier2View` in memory, `disk` the one saved last, `pc` and `call` the position
and locals of the running call. Every request is an action of its own, so a
reorganisation, a failure or a closed page can fall between any two: `Begin`
(tip), `Open`, `Check` (`reorg_check`), `ForwardHeaders`, `ForwardFilters`,
`DownHeaders`, `DownFilters`, `FetchBlock`, `Commit`, `End`; `Fail`,
`PageClosed`, `Rewalk`, `Rebuild`; the chain's `Mine`, `Reorg`. The matched
blocks of a batch are a set, fetched in the order the code sorts them (`InTurn`);
`torn` records that a call failed between two blocks of a batch, or that a re-walk
took the anchor of a top within reach of a reorganisation.

Abstractions. One coin: the block that pays it and the one that spends it. A
filter matches exactly the blocks with the coin's transactions (a false match
only fetches a block with nothing in it). A filter header is the identity of its
block. A reorganisation reaches at most `REORG_WINDOW` below the highest tip.
One call at a time (the page's in-flight guard). Not modelled: taproot hints,
the silent-payment scan, hand-over events, the browser's 60 s cache, a birthday
that is lowered later.

### ChainFeed (node.rs background_tick, chain_coordinator.rs, cooperative_chain_bridge.rs, LDK)

One wallet with its provider. `tip`, `conf`, `spent` are the chain; `bridge` is what
the provider's messages left behind, `coord` the coordinator, `ldk` the channel
manager in memory and `saved` the one on disk, `mon` the channel monitors in memory
and on disk (whether one has seen the funding's spend, holds the event about it, is
ahead of the manager), `phase` and `ready` where the tick is. The tick is modelled
step by step: `Tick` (the tip, the hold of confirmations above it), `Drain` (one
confirmation after the other, best block first), `DrainSaved` (the save, which may
fail and end the tick), `EndTick`; beside it `HealAsk`/`HealApply` (the funding heal,
with the await between) and `SpendCheck` (the funding-spend walk) and `MonitorEvents`
(the pass over the monitors' events that begins every tick). `LspSendsTip`,
`LspSendsConf`, `Open`, `TheirReady`, `Mine`, `Move` and `Restart` are the world.
LDK's part is `FundOn` and `BestOn`: the height it records for a funding and the close
when it finds it with no confirmations; and `SpendConfirmed`: a spend is noticed by
the monitor, once (`funding_spend_seen`, `channelmonitor.rs:5679-5703`), whose event
closes the channel when the manager reads it (`channelmanager.rs:12155-12186`). The
manager itself does not look at spends: the comment at `channel.rs:11300-11302` is
older than the code under it.

The monitor keeps its event until a copy of the monitor without it is written, and
the writes of monitors and manager are separate: chain data may or may not bring a
monitor to disk at once (`Leaves`; LDK spreads these writes over blocks). After
`Restart` a manager that is behind its monitor closes the channel (`Restored`,
`channelmanager.rs:16838-16896`). A monitor that cannot be written makes LDK stop,
which is a closed page.

Abstractions. Confirmation depths are small (a channel is ready at one
confirmation); transactions are known by their channel; headers are not
compared. Of a monitor only the funding's spend is kept. Not modelled: the
sweeper, claims of a monitor on HTLCs, splices, the funding
timeout of 2016 blocks, abandoned fundings, fee quotes, resubscription.

### SendLoop (lij-wasm send_loop, outbound_payment.rs, doSend and the rows)

One invoice. `pay` are LDK's payments with its hash (state and HTLC, which end at
different times), `events` and `outcomes` how LDK's word reaches the loop, `loop[c]`
where the loop of call `c` is, `row` the newest ledger row, `ask` the call whose
question is up, `verdict` the provider's answer on its way, `unsaved` the abandonments
a restart forgets. Actions: `DoSend`, `TryMore`, `Stop` of the user; `Inherited`,
`NoTry`, `Dispatch`, `WaitDone`, `WaitTimeout`, `ReleaseDone`, `ReleaseTimeout` of the
loop; `Claim`, `FailBack`, `Forget`, `HandleEvents`, `Save` of LDK; `FateTick`,
`LspAnswers`, `Reconcile` of the row; `Restart`.

A call is a `doSend`, with the "Try more" that follow it. Several run at once:
`doSend` has no check of its own, the Review button comes back with the next input
(`index.html:31490-31492`, 15253), a held send gives the screen back while the
engine waits (14578-14586), and a wallet connection calls `doSend` itself (20133).
`MaxAtOnce` bounds how many. Whether an HTLC is out the page asks with
`lijHtlcInFlight`, which knows (`Answers`) or cannot say because the engine is busy
(null; `lib.rs:6017-6022`), and null is taken as no. A question that is up is
replaced by that of a later call, and a "Try more" that throws fails the row
without asking, which is the last alternative of `EndSend`.

Abstractions. Amounts, routes and reasons are left out; a try is one HTLC. An
outcome that no loop waits for is never read, and left out. Not modelled: payments
in several parts, LNURL, Max, the retry for a channel that is not ready
(`_armReadyRetry`), a monitor newer than the manager.

### OnchainPay (node.rs onchain_pay, lijOnchainPay, tier2_onchain_sync)

One pay. `tip`, `forked`, `lock`, `spend`, `rel` are the chain and the mempool;
`prov` and `htlc` the provider and the payments A (its fees) and B (the amount,
under the wallet's hash); `rec` the record, `view` the walk's cursor and its
hand-over event, `call` the running walk, `send`, `sync`, `out` the page's two
activities. `secret` says whether the secret has left. Actions: `Quote`,
`OpenAsk`, `PayCheck`, `PaySend`, `Leave`, `Ages` of the send; `SyncAsk`,
`SyncApply`, `Release`, `MarkReleased`, `Hand`, `SyncEnd` of the watch;
`WalkBegin`, `WalkRead`, `WalkEnd`, `WalkFails`; `Latch` (LDK's word); the
provider's `ProvLock`, `ProvCancel`, `ProvReject`, `ProvCollect`, `ProvReturn`;
`Mine`, `Reorg`, `Restart`. Every write of the record may fail, as it may in
`onchain_pay_save`.

LDK's word comes in two kinds. A payment that was collected is an event and is also
listed for a while, so `status_json` reads it again; one that came back is an event
only (`node.rs:2332`), after which LDK has no such payment. `told` says of the
latter whether it was handled and whether the record was written then; a restart
may bring back an event that was handled after the manager was saved.

Abstractions. The provider is modelled from what the code expects of it: it
follows the protocol but collects B as soon as it knows the secret. A release in
the mempool is in a block after `StopBlocks + 1` blocks at the latest, which is
what the margin before T is for. Addresses, amounts, fee rates and the checks of
a quote and of a report are taken as passed; the speed-up is one more release of
the same lock. Blocks are counted from the lock on; `Birthday`
is the wallet's, below which there is no re-walk (0 in the run: an older wallet).

## 3. The runs

| Run | Module, cfg | Checks | Instance |
|---|---|---|---|
| `table` | MCMixPool, `MixPool_table` | `SignedIsCovered`, `HonestNotBlamed`, `ImplementsCommit` | public pool of 3 seats: 2 honest phones, 1 other client with two payouts, one of them to another script, a registration that may be short, and nonces that its first reader drops |
| `channel` | `MixPool_channel` | `TypeOK`, `StoppedMovedNothing`, `SignedIsCovered`, `NonceOnce`, `OursIsIn` | a provider's channel pool of 2 seats: 1 honest phone, 2 sessions that post registrations (short, with bad and refused coins), aborts, junk, views, nonces, signatures and a payout to the phone's own script; the phone may once forget what it saw and read everything again |
| `calm` | `MixPool_calm` | `CalmPoolCompletes` | 3 honest phones, nothing fails |
| `store` | MCMixStore, `MixStore_store` | `TypeOK`, `SignedIsKept`, `SignedIsHeld`, `NoOrphanHold`, `SendSparesSigned` | 2 coins, 2 seats, 2 pool ids, 2 attempts, at once or one after the other and under one id or two; 3 blocks, 1 cut write |
| `store_settles` | `MixStore_settles` | `SignedIsKept`, `SignedIsHeld`, `SettledIsWiped` | 1 coin, 1 seat, 2 pool ids, 2 attempts, 3 blocks, 1 cut write, 1 restore, 1 rollback of the ledger, under fairness |
| `walk` | MCLedgerWalk, `LedgerWalk_walk` | `TypeOK`, `NoPhantom`, `NothingMissed`, `TopCatchesUp`, `HistoryCompletesOrOrphaned` | 4 blocks, the walk opens at 3; 1 reorganisation, 1 failure, 1 closed page, 1 re-read, 1 re-walk, under fairness |
| `feed` | MCChainFeed, `ChainFeed_feed` | `TypeOK`, `HealthyNotClosed`, `SpendIsKept`, `BestNeverFalls`, `FundingIsNoticed`, `SpendIsNoticed` | 1 channel, 3 blocks, 1 funding that moves, 1 restart, 1 failed save, under fairness |
| `send` | MCSendLoop, `SendLoop_send` | `TypeOK`, `OneTryAtATime`, `AskedSendIsBack`, `OvertakesOnlyRunning`, `RowSettles` | 2 sends that may run at once, 2 tries each, any number of "Try more", 3 payments, 1 restart, under fairness |
| `pay` | MCOnchainPay, `OnchainPay_pay` | `TypeOK`, `NeverBoth`, `EndIsTrue`, `LockIsSeen`, `PayEnds` | T five blocks after the lock, a margin of two, 7 blocks; 1 reorganisation, 1 fault (a write that fails or a closed page), under fairness |

What they show is the `about` of each run in `PROJECT.json`.

**Bounds.** *Pool:* three seats are the smallest pool in which two phones can disagree
about a third (the channel run has two, and a third session that can take the seat);
`MaxPosts` is the number of posts a member needs to take the others through the whole
protocol (three in a public pool, where no view is asked for, four in a provider's),
and the kinds of messages are divided between the runs so that each question keeps the
messages that could refute it: `table` has the nonces on either side of a registration
(`Dropped`), both runs the short registration, and `channel` the phone that forgets
what it has read. *Store:* two pool ids let one attempt follow another on the same
coin, which is where records, holds and seats get out of step; two coins and two seats
let two attempts run at once, under two ids or one, and the record of one hold another
coin than that of the other. Restores and rollbacks are in `store_settles`, on one
seat; `SettleDepth = 2` is the least depth at which a settlement can be seen and not
yet be deep enough, and three blocks hold a funding, its exit and its depth, or a
reorganisation of the exit. *Walk:* batches of two and two batches a call make a call
end in the middle of the history; a window of two lets a reorganisation replace both
the top and the block below it; with the opening at three and a tip of four there are
blocks on both sides of the point where a walk opens. *Feed:* three blocks are a
funding, a tip behind it and a tip ahead of it; the second channel that a replay of an
older confirmation needs is in `feed_above`. *Send:* two tries and three payments let
a call retry, be asked about and go on, and another call, later or beside it, meet its
HTLC. *Pay:* with T at six and the margin at two there is room for a lock in block
two, a replaced lock in block three that can still be released, the stop block and the
take-back.

**Deadlock.** A pool attempt ends, and so does an invoice once its calls are
used up: the pool and send runs switch the deadlock check off. The store, the
walk, the feed and the pay never stop, and their runs check that.

**Fairness.** `CalmSpec`: weak fairness of the undisturbed pool's steps - the relay
delivers, the coin checks answer. It also assumes that no message arrives ahead of
those its sender had read when it posted it, which one relay that forwards in order of
arrival gives; without it a payout can come before a registration is complete and is
dropped. `MixStore` `FairSpec`: the page is opened again (`Boot`), the ledger is read
(`Walk`) and `settle_pass`, which the page calls after every sync, is not cut for
ever. `LedgerWalk` `FairSpec`: the page calls the walk again and again, its requests
are answered, and a chain that was cut by a reorganisation grows again. `ChainFeed`
`FairSpec`: the tick runs on its timer, every tick begins with the pass over the
monitors' events, and the independent servers answer the heal and the spend walk in
the end (strong fairness: other steps of the page come between); nothing is assumed of
the provider. `SendLoop` `FairSpec`: every wait of a loop is bounded by a timer, for
each call by itself, LDK's events are handled, an HTLC is claimed or comes back before
its timelock, the fate tick runs and the provider's answer arrives. `OnchainPay`
`FairSpec`: the walk and the watch run on their timers, a walk gets its answers in the
end, LDK's word is handled (once, if the payment came back), and the provider ends
what it holds (an HTLC must be settled or failed before it expires); it may never
answer the status question, and blocks may stop coming.

## 4. Findings

Three runs are expected to be violated. Each checks what a comment of the code
promises and TLC shows a behaviour of the code that does otherwise; `findings`
in `PROJECT.json` quotes both.

| Run | Property | What happens |
|---|---|---|
| `store_twice` | `CoinSignedOnce` | a seat whose signed attempt left the page signs its coin into a second pool |
| `feed_above` | `NeverAboveBest` | the funding heal gives LDK a funding above the best block LDK knows; a later, lower tip or the replay of another channel's confirmation then closes the channel |
| `send_stack` | `OneInFlight` | an abandoned payment whose HTLC is still out is not `Pending`, so a second send of the invoice, begun after the first has ended, passes the in-flight probe and sends a second HTLC with the same hash |

**Known limits.** The passing runs state what holds next to these, and next to
other corners that a property exempts or the model leaves out. Those that were
met while modelling:

* `on_inputs` checks all registrations in the handler of the last one and names the
  sender of that message, so an honest member that registers last is named for
  another's short registration (`machine.rs:494`, against 333-335, "it is that
  member's doing and it is named"): `HonestNotBlamed` exempts a pool with a short
  registration;
* nonces dropped because they came ahead of their sender's registration are taken
  when they come again, so a phone that forgot what it had read may hold others
  than the rest of a provider's pool (`phone.rs:639`, "a replay after a clear is
  idempotent for the machine"), and the partial signatures of the honest then look
  invalid to each other (`on_psigs`): `HonestNotBlamed` exempts a provider's pool in
  which a member posted two nonces and a phone forgot. No run has both (`table` is
  public, `channel` has one honest phone): for a provider's pool of several phones
  the property rests on the theorem of section 5;
* `record_wipe` frees every input of the record, also one that a seat still on
  the list or another record names (`store.rs:87`, against
  `tier2_wallet.rs:152-154`): `SignedIsHeld` and `SendSparesSigned` exempt a coin
  that another attempt recorded;
* two seats can run attempts under one pool id, which its creator chose
  (`mix_attempt_join`, `lib.rs:2457-2473`, asks about the seat and the stored
  records only; the page refuses the same *attempt* id twice, `index.html:22886`,
  22900). The second `records::put` then replaces the first one's record
  (`records.rs:140-145`), and the stop of either wipes it: the signed exits of one are
  gone, its coin keeps a hold without a reason until the page starts again, and is
  then free to be sent. The four safety properties of the store exempt a pool id that
  two attempts ran under at once (`clashed`); without the exemption TLC violates
  each of them;
* `rollback` leaves the down cursor's hash (`tier2_wallet.rs:1490`): when the
  lowest block read is orphaned, the history below it is never read
  (`HistoryCompletesOrOrphaned` exempts it, against 2113-2115);
* a call that fails between two blocks of a batch saves the view with the first
  of them applied and the cursor where it was. `reorg_check` compares the cursor
  only, so a coin of that block stays in the ledger if the block is orphaned
  before the next call. `NoPhantom` and `NothingMissed` exempt such a call
  (`torn`) until the ledger is rebuilt;
* the re-walk for an on-chain pay calls `rollback`, which clears the hash that
  `reorg_check` compares: a reorganisation below the re-walked block that falls
  between the two goes unseen. The safety properties of the walk exempt a re-walk
  from within the reach of a reorganisation;
* `sync_step` moves the top by the number of headers and keeps the filter header
  of the last filter, without requiring as many of one as of the other. Answers
  from the middle of a reorganisation could differ in length; the model answers
  before or after one;
* `HealthyNotClosed` exempts a channel whose funding the heal recorded above
  LDK's best block (`feed_above`);
* `lijAskLspOutcome` reads the row before it asks the provider and writes it
  afterwards without reading it again. A row can be marked failed while "Try
  more" sends again under it, and only LDK's list of fulfilled payments puts it
  right; a wait inherited from an earlier send that ends as paid returns a
  failure to the Send screen. `RowSettles` says only that the row is closed;
* two calls of `doSend` for one invoice may each pass the probe before either has
  sent, and a retry does not probe: both then have an HTLC out. `OvertakesOnlyRunning`
  exempts a pending payment that another running call waits for, and `OneTryAtATime`
  and `AskedSendIsBack` speak of one send each;
* while the engine is busy `lijHtlcInFlight` answers null (`index.html:12222-12235`),
  and `_holdIfInFlight` (14482) goes on as if nothing were out: the row is marked
  failed, or the question comes up, with the HTLC of an earlier send still out. The
  catch of "Try more" (14829-14836) does not ask at all. The engine's `can_continue`
  still keeps a send's question down while its own HTLC is out. "Stop" under the
  question of one call may mark a row failed that another call has completed;
* a payment of an on-chain pay that came back is told once. When the write of the
  record fails then (`onchain_pay_save` only logs it) and the provider never answers
  the status question, the record stays open. `PayEnds` exempts such a write;
* the release of an on-chain pay is held against the stop block by the walk's own
  top (`lib.rs:5181`), which is behind the chain when the page slept; `hand()`
  (`index.html:13901`) is held against nothing, so a release that the quorum
  refused is handed to the provider on a later pass, even after T; and
  `note_events` never takes `lock_seen` back when a reorganisation removes the
  lock, nor adopts another copy of it once the record is `released`. Against
  `node.rs:5097-5099` ("Only while the lock is seen ... and the tip is below the
  stop block"). `NeverBoth` and `EndIsTrue` exempt a secret that left so
  (`exposed`);
* `rewalk_done` clears `walk_from` of every record, also of one reported after
  the running walk took its scripts; with two pays at once the second lock could
  be passed. The model has one pay.

## 5. The proofs

`MixPoolProofs` proves, for any set of sessions, any number of them not honest,
any number of seats, both kinds of pool and any bounds, from `PoolAssumption`
(the types of the constants) alone:

| Theorem | States |
|---|---|
| `TypeCorrect` | `Spec => []TypeOK` |
| `SignedStaysCovered` | `Spec => []SignedIsCovered` |
| `NoncesSignOnce` | `Spec => []NonceOnce` |
| `StopMovesNothing` | `Spec => []StoppedMovedNothing` |
| `RecordsAgree` | `Spec => []OneView`: two honest members of one pool never hold records of two different sets of exits |

None of these is inductive. `SignedIsCovered` speaks of a post, a record and
other phones' posts; that `try_fund` posts it only over a saved record of the
view in memory needs to know that memory and storage agree while a record is
saved, that every partial signature a phone holds of an honest member was posted
by that member, and that an honest member that posted one has long left the
phases in which its view could still change. The inductive invariant `Inv` is
the type invariant with

* `Sound`, per phone: at most `N` registrations; the phone's own payout is among
  the exits once the view is built; nonces and partial signatures are complete,
  and all over this view, once they are aggregated; the record counts as saved
  only from the funding on, and always once it is signed;
* the relations between posts, phases and storage: whoever posted a funding
  signature is past it, whoever posted an abort stopped or left, every saved
  record is on disk, every signature of an honest member that is held or stored
  was sent by it, and nobody sent two.

The argument: every handler makes only `Moves` (one lemma per handler, `...Fine`);
`store::after` turns a handler's moves into a `Turn` of the whole phone
(`AfterTurn`); a turn keeps `Inv` (`TurnInv`); and each action is a turn or
leaves the phones alone (one lemma per action, `...Inv`).

`OneView` is proved and not run: two guards of the code (the views compared in
`try_sign`, the signatures verified in `on_psigs`) each give it, so no single
change of the code breaks it.

`MixBlameProofs` proves, from the same assumption and for the same generality,

| Theorem | States |
|---|---|
| `NobodyHonestIsBlamed` | `Spec => []HonestNotBlamed` |
| `PayoutsWaitForOurs` | `Spec => []OursIsIn` |

Both speak of what a phone has *read*: that what makes it name a member is that
member's, and that it cannot have read its own payout before it sent it. The
inductive invariant `BlameInv` speaks of a *world* (`World`): what every session has
said, which nonces of a session a phone may hold, which sessions may have sent a
payout. It says of every phone

* `Heard`: registrations, views and partial signatures it holds were said by their
  senders, its nonces are among those the world allows, its payouts are of sessions
  that may have sent one;
* `Word` and `Own`: what an honest session says, and what this one has said by this
  phase - good registrations, at most one view, at most one signature, of that view
  and under nonces that the others may hold too;
* `Poised`: the errors a handler could make for reasons of its own cannot occur (its
  nonces are there when it is to sign, its own coin is not among those it checks);
* `Clean`: whom it has named; this is what the theorem is read off;
* `History`: how far it has read each session and what it made of it. As long as a
  phone has forgotten nothing, it took the registration it read first and then the
  first nonces after it. So all such phones hold the *same* nonces of a session
  (`FirstNonces`, `FirstLemma`), whenever they read them, and that is why an honest
  partial signature verifies for every honest phone.

Each handler is *fair* (one lemma per handler, `...Fair`): from a phone that is good
in a world it makes one that is good in it. A world only grows, and what a phone
relies on stays true in a larger one (`WorldGrows`, `GoodGrows`, `HistoryGrows`).
`DoFair` carries that through the page's step, and each action has its lemma
(`...Blame`). The first attempt at the proof failed for a good reason: with nonces
posted ahead of a registration and a phone that reads them twice, two honest phones
can hold different nonces of one member, and one names the other. The property now
names that case (`Equivocated`) and the other one that the code knows of
(`Shortfall`), and the model posts such nonces (`Dropped`).

`SendLoopProofs` proves, for any numbers of tries (at least one), payments, calls,
calls at once and restarts, from `SendAssumption`:

| Theorem | States |
|---|---|
| `SendTypeCorrect` | `Spec => []TypeOK` |
| `NeverTwoTries` | `Spec => []OneTryAtATime` |
| `AskIsHonest` | `Spec => []AskedSendIsBack` |
| `ProbeStaysTrue` | `Spec => OvertakesOnlyRunning` |

What these rest on is that a verdict of LDK is the end of its HTLC, also across
the handler that passes it on and the restart that forgets it. The inductive
invariant adds: payments not made yet are blank (`Fresh`); what LDK has told of is
neither out nor pending (`Told`); what a restart can take back is an abandonment
LDK has not told of (`Forgettable`); no payment is of a call to come (`Past`), and
such a call is idle (`Unborn`); a call about to send has none of its own out (`Clear`),
a call that waits at most the payment it waits for (`Alone`), whatever the others do;
while any call is past its probe, a running call waits for whatever is pending
(`NoneStray`); and the call whose question is up rests (`Rests`).
Three frame lemmas carry it through the steps
of the page (`PageKeeps`), of the loop between payments (`LoopKeeps`) and of LDK
(`EndKeeps`); a new payment, an abandonment and a restart have their own.

`PoolCommitProofs` proves, from the same assumption and for the same generality,

| Theorem | States |
|---|---|
| `PoolImplementsCommit` | `Spec => ImplementsCommit`, the specification of `PoolCommit` under the refinement mapping |

A turn of a phone posts at most one of a partial signature, a funding signature
and an abort, so it maps to one step of `PoolCommit` or to none. The guards of that
step are what the inductive invariant of `MixPoolProofs` says: a phone that signs
has not signed before and has not quit, the record of one that funds holds partial
signatures that the honest members really sent, and a record that was funded is
not written again.

`MixStoreProofs` proves, for any coins, seats, pool ids and blocks, any settle depth
of at least one and any numbers of cut writes, restores and rollbacks, from
`StoreAssumption`:

| Theorem | States |
|---|---|
| `StoreTypeCorrect` | `Spec => []TypeOK` |
| `SignedPoolsKeepTheirRecords` | `Spec => []SignedIsKept` |
| `SignedCoinsAreHeld` | `Spec => []SignedIsHeld` |
| `HoldsHaveReasons` | `Spec => []NoOrphanHold` |
| `SendsSpareSignedCoins` | `Spec => SendSparesSigned` |

The difficulty is the page that closes between two writes and the copy that brings
an old state back. The inductive invariant ties an attempt's phase to its record and
its hold (`Reached`), says that signed coins are held also while the page is closed
(`Held`), that every record, the copy's too, was once saved (`Recorded`), and that a
record which the copy has without its hold is one that nobody signed or will (`Bare`).
All of it is said of attempts alone under their pool id: whatever
record a save replaces or a wipe removes is then that attempt's own, and a second
attempt that could take its place makes the id `clashed` when it starts.
That a settled pool stays settled rests on reorganisations that replace fewer blocks
than the settle depth (`ChainOK`, `SettledIs`). Most actions are *careful*: they
only take away records, holds and attempts that no open pool needs (`CarefulStep`).

`LedgerWalkProofs` proves, for any birthday, batch size and number of batches, any
window of reorganisations no longer than the tail that is verified daily, and any
numbers of blocks, reorganisations, failures and closed pages, from
`WalkAssumption`:

| Theorem | States |
|---|---|
| `WalkTypeCorrect` | `Spec => []TypeOK` |
| `LedgerHasNoPhantoms` | `Spec => []NoPhantom` |
| `LedgerMissesNothing` | `Spec => []NothingMissed` |

`NoPhantom` and `NothingMissed` speak of a ledger at rest; on the way, headers,
filters and blocks of one batch come from different chains. The inductive invariant
says how far a view can be trusted (`Good`): it agrees with the chain up to the
height `reorg_check` would roll it back to, which no reorganisation reaches any
more, and up to its top as long as the hash of the top is in the chain (a hash never
comes back to another chain, and with it come all the blocks below it). Between two
requests the same is said of the headers that came in (`Linked`) and of the view as
it will be once the matched blocks are read (`BatchOK`), which may disagree only on
the blocks still to be fetched. `AgreeBatch` and `AgreeEnter` are what a batch and a
block do to that agreement, `RollbackGood` what a rollback does, `GoodFollows` that
no step of the chain can harm it. The proof needs `REORG_WINDOW <= TAIL_VERIFY_BLOCKS`
(6 and 144 in the code): the daily rollback clears the anchor of the top, so it must
reach below what a reorganisation can replace. Writing it also showed that the
two guards of the last `CASE` of `ApplyTxs` overlapped, which TLC had settled by
taking the first; the operator is now an `IF`, in the order of the code.

`ChainFeedProofs` proves, for any channels and heights and any numbers of moved
fundings, restarts and failed saves, from `FeedAssumption`:

| Theorem | States |
|---|---|
| `FeedTypeCorrect` | `Spec => []TypeOK` |
| `HealthyChannelsStayOpen` | `Spec => []HealthyNotClosed` |
| `SeenSpendsAreKept` | `Spec => []SpendIsKept` |
| `BestBlockRatchets` | `Spec => BestNeverFalls` |

A channel is closed when LDK finds a funding it had seen without confirmations. The
inductive invariant says why it does not: the funding of an open channel that was seen
is recorded at or below LDK's best block, in memory and in the manager on disk
(`ManagerSound`), the coordinator's tip and floor never run ahead of LDK (`NotAhead`)
and the confirmations being drained are not above its best block (`ReadyBelow`).
A spend is told by the monitor once, so that it must not fall between the saves: of an
open channel whose monitor has seen it, the monitor still holds the event, in memory
and, for the manager on disk, on disk too, unless that manager is behind the monitor
and closes the channel when it is read.

`OnchainPayProofs` proves, for any margin, any refund period longer than it by two
blocks or more, and any number of blocks, reorganisations and faults, from
`PayAssumption`:

| Theorem | States |
|---|---|
| `PayTypeCorrect` | `Spec => []TypeOK` |
| `NeverCollectsBoth` | `Spec => []NeverBoth` |
| `EndsAreTrue` | `Spec => []EndIsTrue` |

The argument is one of time. A secret that leaves unexposed leaves below the stop
block, `StopBlocks` before T, for the copy of the lock that is in the chain; the
release is in a block at most `StopBlocks + 1` blocks later, so before the lock can be
taken back (`InTime`). B is collected only with the secret (`Paying`). A record that
says returned or failed never saw the lock, hence the secret never left (`Knowing`),
and one that says taken back or done rests on a spend of the lock or the fate of B
(`Ending`).

Only model-checked: liveness under fairness (`CalmPoolCompletes`, `SettledIsWiped`,
`TopCatchesUp`, `HistoryCompletesOrOrphaned`, `FundingIsNoticed`,
`SpendIsNoticed`, `RowSettles`, `LockIsSeen`, `PayEnds`), which is out of the prover's
reach. Every safety invariant and action property of a passing run is stated by a
theorem.

## 6. Plan

What is still worth writing, the most important first:

1. `Broadcaster`: the queue, its retries and caps; nothing LDK asked for is lost
   while it is needed.
2. `SyncState` with cold start; `CancelledOpen`; the closed-channel watcher.
3. `Storage`: `persist.rs`, the ratchet of `persisted_counter.rs`, `kit_merge.rs`
   as a merge of copies (idempotent, loses no record).
4. Pending sends and reservations with the pickers, composed with `MixStore`;
   `coin_select.rs` as a pure operator against a reference definition.
5. LSPS2 and just-in-time funding.
6. The handshake of a public room (`phone.rs`), composed with `MixPool`; the
   silent-payment scan, composed with `LedgerWalk`; two on-chain pays at once.

## 7. Not modelled

* The wiring of the node around LDK, keys and signatures: used by what they
  accept. Most of the repository's lines are the patched LDK and other vendored
  code; of it the models hold what the wallet's own code leans on (a funding's
  depth, the life of an outbound payment), and no more.
* Screens, formatting, fee quotes and rates, the service worker.
* Nostr Wallet Connect. Its requests are queued on the page and paid by calls of
  `doSend`, which may run beside another send, as `SendLoop` has it. The queue itself is not: the
  daily limit and the duplicate check are made when a request is opened, an
  answer needs a preimage that only a send that succeeds in the foreground
  writes, and a reload loses the queue (`index.html:20179-20197`).
* The parts listed with status – in section 1, for the reasons in
  `PROJECT.json`.
