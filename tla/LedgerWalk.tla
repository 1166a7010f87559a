----------------------------- MODULE LedgerWalk -----------------------------
(***************************************************************************)
(* The wallet's own ledger of its coins, read from compact block filters   *)
(* (tier2_wallet.rs sync_down, rollback, reorg_check, apply_txs;           *)
(* tier2_sync.rs sync_step, sync_step_down; lij-wasm tier2_onchain_sync).  *)
(*                                                                         *)
(* A walk opens at the tip, extends upwards as blocks arrive and reads     *)
(* downwards to the birthday, a few batches a call.  Every request is      *)
(* answered from the chain as it is at that moment, which may have         *)
(* reorganised since the request before; any request may fail; the page    *)
(* may be closed at any moment.  The ledger follows one coin: the block    *)
(* that pays it and the block that spends it.                              *)
(***************************************************************************)
EXTENDS Naturals, Sequences

CONSTANTS
  Birthday,      \* cursor.birthday
  Batch,         \* DEFAULT_BATCH
  MaxBatches,    \* BATCHES_PER_CALL
  ReorgWindow,   \* REORG_WINDOW
  TailVerify,    \* TAIL_VERIFY_BLOCKS
  Start,         \* bound: the height of the chain at first
  MaxHeight,     \* bound: the height the chain may reach
  MaxReorgs,     \* bound: reorganisations
  MaxFails,      \* bound: requests that fail
  MaxCloses,     \* bound: the page closed during a walk
  MaxRereads,    \* bound: tail verifications, rebuilds
  MaxRewalks     \* bound: re-walks for an on-chain pay

ASSUME WalkAssumption ==
  /\ {Birthday, Batch, MaxBatches, ReorgWindow, TailVerify} \subseteq Nat \ {0}
  /\ {Start, MaxHeight, MaxReorgs, MaxFails, MaxCloses, MaxRereads,
      MaxRewalks} \subseteq Nat
  /\ Birthday < Start /\ ReorgWindow < Start /\ Start <= MaxHeight
  /\ ReorgWindow <= TailVerify

VARIABLES
  chain,    \* the server's best chain: chain[h] is a block
  mined,    \* how many blocks there ever were: the next block's hash
  highest,  \* the greatest height so far
  view,     \* the Tier2View of the running call
  disk,     \* the view saved last
  pc,       \* where the running call is
  call,     \* its locals
  torn,     \* a call failed half way through a batch, or the anchor was lost
  budget    \* what is left of the bounds

vars == <<chain, mined, highest, view, disk, pc, call, torn, budget>>
network == <<chain, mined, highest>>

Txs == {"pays", "spends"}
None == 0

Max2(a, b) == IF a > b THEN a ELSE b
Min2(a, b) == IF a < b THEN a ELSE b
Tip == Len(chain)

(* Tier2View: the cursor (top, topHash, topFilter), the down cursor, and   *)
(* the coin: the height it was paid and spent at, and the height of a      *)
(* spend seen before the coin (pending_spends); 0 for none.                *)
FreshView ==
  [top |-> 0, topHash |-> None, topFilter |-> None,
   opened |-> FALSE, low |-> 0, lowHash |-> None, lowFilter |-> None,
   done |-> FALSE, paid |-> 0, spent |-> 0, pending |-> 0]

(* The locals of a call: the tip it asked for, the batches walked, the     *)
(* headers answered, the matched blocks still to fetch, the cursor fields  *)
(* to set once they are read, whether one of them was.                     *)
NoCall == [tip |-> 0, tipHash |-> None, batches |-> 0, headers |-> <<>>,
           todo |-> {}, cursor |-> <<>>, applied |-> FALSE]

(* A transaction is in one block at most; the coin is paid before it is    *)
(* spent.                                                                  *)
Sound(c) ==
  /\ \A tx \in Txs, h, k \in 1..Len(c) :
       tx \in c[h].txs /\ tx \in c[k].txs => h = k
  /\ \A h \in 1..Len(c) :
       "spends" \in c[h].txs => \E k \in 1..h : "pays" \in c[k].txs
  /\ \A h \in 1..Len(c) : c[h].txs # {} => h >= Birthday

Block(id, txs) == [hash |-> id, txs |-> txs]

Init ==
  /\ chain \in {c \in [1..Start -> {Block(i, t) : i \in 1..Start, t \in SUBSET Txs}] :
                  (\A h \in 1..Start : c[h].hash = h) /\ Sound(c)}
  /\ mined = Start /\ highest = Start
  /\ view = FreshView /\ disk = FreshView
  /\ pc = "idle" /\ call = NoCall /\ torn = FALSE
  /\ budget = [reorgs |-> MaxReorgs, fails |-> MaxFails,
               closes |-> MaxCloses, rereads |-> MaxRereads,
               rewalks |-> MaxRewalks]

Spent(what) == budget[what] > 0 /\ budget' = [budget EXCEPT ![what] = @ - 1]

-----------------------------------------------------------------------------
(* The chain.  A reorganisation takes blocks off, then brings at least as  *)
(* many; none deeper than the window below the highest tip.                *)

Mine(txs) ==
  /\ Tip < MaxHeight
  /\ Sound(Append(chain, Block(mined + 1, txs)))
  /\ chain' = Append(chain, Block(mined + 1, txs))
  /\ mined' = mined + 1 /\ highest' = Max2(highest, Tip + 1)
  /\ UNCHANGED <<view, disk, pc, call, torn, budget>>

Reorg(k) ==
  /\ k < Tip /\ k >= Birthday /\ k + ReorgWindow >= highest
  /\ Spent("reorgs")
  /\ chain' = SubSeq(chain, 1, k)
  /\ UNCHANGED <<mined, highest, view, disk, pc, call, torn>>

-----------------------------------------------------------------------------
(* The ledger.                                                             *)

(* Mutants: the spend stays, also of a coin that is dropped; the anchors   *)
(* stay.                                                                   *)
RollbackCoin(v, to) ==
  [v EXCEPT !.top = to, !.topHash = None, !.topFilter = None,
            !.paid = IF @ > to THEN 0 ELSE @,
            !.pending = IF @ > to THEN 0 ELSE @]

RollbackAnchored(v, to) ==
  LET gone == v.paid > to
  IN  [v EXCEPT !.top = to,
                !.paid = IF gone THEN 0 ELSE @,
                !.spent = IF gone \/ @ > to THEN 0 ELSE @,
                !.pending = IF @ > to THEN 0 ELSE @]

(* rollback: drop what was seen above a height, un-spend what was spent    *)
(* above it, clear the cursor's anchors.  The down cursor stays.           *)
Rollback(v, to) ==
  LET gone == v.paid > to
  IN  [v EXCEPT !.top = to, !.topHash = None, !.topFilter = None,
                !.paid = IF gone THEN 0 ELSE @,
                !.spent = IF gone \/ @ > to THEN 0 ELSE @,
                !.pending = IF @ > to THEN 0 ELSE @]

(* Mutant: a spend seen before its coin is forgotten.                      *)
ApplyTxsForgetful(v, txs, h) ==
  LET p == IF "pays" \in txs /\ v.paid = 0 THEN [v EXCEPT !.paid = h] ELSE v
  IN  IF "spends" \in txs /\ p.paid # 0 /\ p.spent = 0
      THEN [p EXCEPT !.spent = h] ELSE p

(* apply_txs: a coin that is known already is not entered again; a spend   *)
(* of a coin not known yet is kept until the coin is met.                  *)
ApplyTxs(v, txs, h) ==
  LET p == IF "pays" \in txs /\ v.paid = 0
           THEN [v EXCEPT !.paid = h, !.spent = v.pending, !.pending = 0]
           ELSE v
  IN  IF "spends" \notin txs THEN p
      ELSE IF p.paid = 0 THEN [p EXCEPT !.pending = h]
      ELSE IF p.spent = 0 THEN [p EXCEPT !.spent = h]
      ELSE p

-----------------------------------------------------------------------------
(* One call (tier2_onchain_sync, sync_down).                               *)

Saved == disk' = view'

(* Where the walk goes on: up to the tip of this call, then down, while    *)
(* batches are left.                                                       *)
Onward(v, c) ==
  CASE c.batches < MaxBatches /\ v.top < c.tip -> "forward"
    [] c.batches < MaxBatches /\ v.top >= c.tip /\ ~v.done -> "down"
    [] OTHER -> "end"

(* The call is over: the view is saved, whatever happened in it.           *)
Over ==
  /\ pc' = "idle" /\ call' = NoCall
  /\ UNCHANGED view /\ Saved
  /\ torn' = (torn \/ call.applied)

Failed == Over /\ UNCHANGED <<network, budget>>

(* A request is answered before or after a reorganisation, never from the  *)
(* middle of one, when the node has fewer blocks than it had.              *)
Serving == Tip >= highest

(* The call begins: the view as saved, the tip asked for; once a day, the  *)
(* walk being complete, the tail is rolled back to be read again.          *)
Begin(daily) ==
  /\ pc = "idle" /\ Serving
  /\ LET c == [NoCall EXCEPT !.tip = Tip, !.tipHash = chain[Tip].hash]
         to == Max2(IF Tip > TailVerify THEN Tip - TailVerify ELSE 0, Birthday)
     IN  /\ IF daily
            THEN /\ disk.opened /\ disk.done /\ disk.top >= Tip
                 /\ Spent("rereads")
                 /\ view' = Rollback(disk, to) /\ Saved
            ELSE view' = disk /\ UNCHANGED <<disk, budget>>
         /\ call' = c
         /\ pc' = IF view'.top = 0 \/ ~view'.opened THEN "open" ELSE "check"
  /\ UNCHANGED <<network, torn>>

(* The answer to a request for the blocks from..to: as many as there are.  *)
Answer(from, to) == SubSeq(chain, from, Min2(to, Tip))

Ids(blocks) == [i \in 1..Len(blocks) |-> blocks[i].hash]

(* The blocks of an answer whose filters match, with their heights.        *)
Matched(from, blocks) ==
  {[height |-> from + i - 1, block |-> blocks[i]] :
     i \in {j \in 1..Len(blocks) : blocks[j].txs # {}}}

(* What was served before the first block of an answer: the hash it links  *)
(* to.                                                                     *)
Before(from) == IF from > 1 THEN chain[from - 1].hash ELSE None
Links(anchor, from) == anchor = None \/ anchor = Before(from)

(* A batch is validated: its matched blocks are next.                      *)
Fetch(todo, cursor) ==
  /\ pc' = "blocks"
  /\ call' = [call EXCEPT !.headers = <<>>, !.todo = todo, !.cursor = cursor]
  /\ UNCHANGED <<network, view, disk, torn, budget>>

(* A fresh view: the top is the tip, and so is the lowest block read.      *)
Open ==
  /\ pc = "open" /\ Serving
  /\ IF Tip >= call.tip /\ chain[call.tip].hash = call.tipHash
     THEN Fetch(Matched(call.tip, <<chain[call.tip]>>),
                [top |-> call.tip, topHash |-> call.tipHash, topFilter |-> call.tipHash,
                 opened |-> TRUE,
                 low |-> call.tip, lowHash |-> call.tipHash, lowFilter |-> call.tipHash,
                 done |-> call.tip <= Birthday])
     ELSE Failed

(* Mutant: only the block that was lost is rolled back.                    *)
ReorgCheckShallow(v) ==
  IF v.topHash # None /\ v.top > Birthday /\ v.top <= Tip
       /\ chain[v.top].hash # v.topHash
  THEN Rollback(v, v.top - 1) ELSE v

(* reorg_check: another block than the recorded one at the top rolls the   *)
(* view back by the window.                                                *)
ReorgCheck(v) ==
  IF v.topHash # None /\ v.top > Birthday /\ v.top <= Tip
       /\ chain[v.top].hash # v.topHash
  THEN Rollback(v, Max2(IF v.top > ReorgWindow THEN v.top - ReorgWindow ELSE 0, Birthday))
  ELSE v

Check ==
  /\ pc = "check" /\ Serving
  /\ view' = ReorgCheck(view)
  /\ pc' = Onward(view', call)
  /\ UNCHANGED <<network, disk, call, torn, budget>>

(* sync_step, the headers: they must link to the top's hash, if it has one.*)
From == Max2(view.top + 1, Birthday)
To == Min2(call.tip, From + Batch - 1)

ForwardHeaders ==
  /\ pc = "forward" /\ Serving
  /\ pc' = "filters"
  /\ call' = [call EXCEPT !.headers =
                IF Tip >= From /\ ~Links(view.topHash, From) THEN <<None>>
                ELSE Ids(Answer(From, To))]
  /\ UNCHANGED <<network, view, disk, torn, budget>>

(* ... and the filters, answered later; the top moves by the headers.      *)
ForwardFilters ==
  LET flts == Answer(From, To)
      n == Len(call.headers)
  IN  /\ pc = "filters" /\ Serving
      /\ CASE n = 0 -> Fetch({}, <<>>)
           [] n > 0 /\ (call.headers[1] = None \/ (flts # <<>> /\ ~Links(view.topFilter, From)))
                -> Failed
           [] OTHER ->
                Fetch(Matched(From, flts),
                      [top |-> From + n - 1, topHash |-> call.headers[n],
                       topFilter |-> IF flts = <<>> THEN view.topFilter
                                     ELSE flts[Len(flts)].hash])

(* sync_step_down: the batch below the lowest block read, and that block   *)
(* again: headers and filters must both lead up to it.                     *)
Bottom == Max2(IF view.low > Batch THEN view.low - Batch ELSE 0, Birthday)

DownHeaders ==
  /\ pc = "down" /\ Serving
  /\ IF view.low <= Birthday
     THEN Fetch({}, [done |-> TRUE])
     ELSE /\ pc' = "downFilters"
          /\ call' = [call EXCEPT !.headers = Ids(Answer(Bottom, view.low))]
          /\ UNCHANGED <<network, view, disk, torn, budget>>

(* Mutant: the lowest block read stays where it is.                        *)
DownFiltersStay ==
  LET flts == Answer(Bottom, view.low)
      n == view.low - Bottom + 1
  IN  /\ pc = "downFilters" /\ Serving
      /\ IF /\ Len(call.headers) = n /\ Len(flts) = n
            /\ call.headers[n] = view.lowHash /\ flts[n].hash = view.lowFilter
         THEN Fetch(Matched(Bottom, SubSeq(flts, 1, n - 1)),
                    [done |-> view.low <= Birthday])
         ELSE Failed

DownFilters ==
  LET flts == Answer(Bottom, view.low)
      n == view.low - Bottom + 1
  IN  /\ pc = "downFilters" /\ Serving
      /\ IF /\ Len(call.headers) = n /\ Len(flts) = n
            /\ call.headers[n] = view.lowHash /\ flts[n].hash = view.lowFilter
         THEN Fetch(Matched(Bottom, SubSeq(flts, 1, n - 1)),
                    [low |-> Bottom, lowHash |-> call.headers[1],
                     lowFilter |-> flts[1].hash, done |-> Bottom <= Birthday])
         ELSE Failed

(* fetch_and_apply: each matched block is fetched, the lowest first, on    *)
(* the way down the highest first; it must be the very block that matched, *)
(* and enters the view.                                                    *)
InTurn(m) ==
  \A x \in call.todo : IF "top" \in DOMAIN call.cursor THEN m.height <= x.height
                       ELSE x.height <= m.height

FetchBlock ==
  /\ pc = "blocks" /\ Serving
  /\ \E m \in call.todo :
       /\ InTurn(m)
       /\ IF m.height <= Tip /\ chain[m.height].hash = m.block.hash
          THEN /\ view' = ApplyTxs(view, m.block.txs, m.height)
               /\ call' = [call EXCEPT !.todo = @ \ {m}, !.applied = TRUE]
               /\ UNCHANGED <<network, disk, pc, torn, budget>>
          ELSE Failed

(* The cursor fields set.                                                  *)
Moved(v, cursor) ==
  [f \in DOMAIN v |-> IF f \in DOMAIN cursor THEN cursor[f] ELSE v[f]]

(* The batch is read: the cursor moves, the view is saved.  Opening counts *)
(* as no batch, and the reorganisation check comes after it.               *)
Commit ==
  LET opening == "opened" \in DOMAIN call.cursor
      c == [call EXCEPT !.batches = IF opening THEN @ ELSE @ + 1,
                        !.cursor = <<>>, !.applied = FALSE]
  IN  /\ pc = "blocks" /\ call.todo = {}
      /\ view' = Moved(view, call.cursor) /\ Saved
      /\ call' = c
      /\ pc' = IF opening THEN "check" ELSE Onward(view', c)
      /\ UNCHANGED <<network, torn, budget>>

End == pc = "end" /\ Failed

(* A request of the call fails: what the view holds is saved all the same. *)
Fail ==
  /\ pc \notin {"idle", "end"}
  /\ Spent("fails") /\ Over
  /\ UNCHANGED network

(* The page is closed: what was not saved is gone.                         *)
PageClosed ==
  /\ pc # "idle"
  /\ Spent("closes")
  /\ pc' = "idle" /\ call' = NoCall /\ view' = disk
  /\ UNCHANGED <<network, disk, torn>>

(* An on-chain pay's lock was reported in block h: it is read again (the   *)
(* re-walk of tier2_onchain_sync).  A top that a reorganisation can still  *)
(* reach is blind to it without its anchor.                                *)
Rewalk(h) ==
  /\ pc = "idle" /\ disk.top >= h /\ h > Birthday
  /\ Spent("rewalks")
  /\ view' = Rollback(disk, h - 1) /\ Saved
  /\ torn' = (torn \/ h - 1 > disk.top - ReorgWindow)
  /\ UNCHANGED <<network, pc, call>>

(* rebuild_from_birthday: the person's rescan, a new schema, a wider net.  *)
Rebuild ==
  /\ pc = "idle" /\ disk # FreshView
  /\ Spent("rereads")
  /\ view' = FreshView /\ Saved /\ torn' = FALSE
  /\ UNCHANGED <<network, pc, call>>

-----------------------------------------------------------------------------
Sync ==
  \/ Begin(FALSE) \/ Open \/ Check
  \/ ForwardHeaders \/ ForwardFilters \/ DownHeaders \/ DownFilters
  \/ FetchBlock \/ Commit \/ End

Next ==
  \/ \E txs \in SUBSET Txs : Mine(txs)
  \/ \E k \in 1..Tip : Reorg(k)
  \/ Sync
  \/ Begin(TRUE) \/ Fail \/ PageClosed \/ Rebuild
  \/ \E h \in 1..disk.top : Rewalk(h)

Spec == Init /\ [][Next]_vars

-----------------------------------------------------------------------------
(* What the ledger promises.                                               *)

Hashes == 0..mined

IsView(v) ==
  /\ DOMAIN v = DOMAIN FreshView
  /\ {v.top, v.low, v.paid, v.spent, v.pending} \subseteq 0..MaxHeight
  /\ {v.topHash, v.topFilter, v.lowHash, v.lowFilter} \subseteq Hashes
  /\ v.opened \in BOOLEAN /\ v.done \in BOOLEAN

(* The types; a coin is spent only if it was paid, and a spend is not both *)
(* marked and pending.                                                     *)
TypeOK ==
  /\ IsView(view) /\ IsView(disk) /\ Sound(chain)
  /\ \A v \in {view, disk} : /\ v.spent # 0 => v.paid # 0
                             /\ v.paid # 0 => v.pending = 0

(* The height of a transaction among the blocks lo..hi, 0 if it is not     *)
(* there.                                                                  *)
HeightOf(tx, lo, hi) ==
  IF \E h \in lo..Min2(hi, Tip) : tx \in chain[h].txs
  THEN CHOOSE h \in lo..Min2(hi, Tip) : tx \in chain[h].txs
  ELSE 0

(* Between calls, the top of the ledger being a block of the chain.        *)
AtRest ==
  /\ pc = "idle" /\ disk.opened /\ disk.low <= disk.top
  /\ disk.top <= Tip /\ disk.topHash = chain[disk.top].hash

(* Every coin and every spend of the ledger is in the chain, at its        *)
(* height.                                                                 *)
NoOrphan ==
  /\ disk.paid # 0 => disk.paid = HeightOf("pays", 1, Tip)
  /\ disk.spent # 0 => disk.spent = HeightOf("spends", 1, Tip)
  /\ disk.pending # 0 => disk.pending = HeightOf("spends", 1, Tip)

(* Nothing of an orphaned block is left once the top is a block of the     *)
(* chain: headers, filters and blocks of one batch may come from different *)
(* chains, the page may be closed between two saves, any part may be read  *)
(* again - but no call may have failed half way through a batch's blocks.  *)
NoPhantom == AtRest /\ ~torn => NoOrphan

(* No coin of the blocks read is missing, none that they spend is shown as *)
(* unspent, and the spend of a coin still to be met is remembered.         *)
NothingMissed ==
  AtRest /\ ~torn =>
    LET paid == HeightOf("pays", disk.low, disk.top)
        spent == HeightOf("spends", disk.low, disk.top)
    IN  /\ paid # 0 => disk.paid = paid
        /\ spent # 0 => spent = IF disk.paid # 0 THEN disk.spent ELSE disk.pending
=============================================================================
