----------------------------- MODULE OnchainPay -----------------------------
(***************************************************************************)
(* One on-chain pay from Lightning: the record the engine keeps (node.rs,  *)
(* onchain_pay), the page that sends and watches it (index.html,           *)
(* lijOnchainPay), the walk that shows the hand-over output (lib.rs,       *)
(* tier2_onchain_sync) and LDK's word on the two hold payments.            *)
(*                                                                         *)
(* The wallet pays A (the fees) and B (the amount, under its own hash);    *)
(* the provider then locks coins at an address that the wallet's secret    *)
(* releases to the recipient, and the provider takes back after block T.   *)
(* Whoever knows the secret collects B: the wallet lets it go only for a   *)
(* lock it has seen in a block, and not in the last blocks before T.       *)
(*                                                                         *)
(* The provider follows the protocol, but collects as soon as it can.  A   *)
(* release that is broadcast is in a block within StopBlocks + 1: that is  *)
(* what the margin is for.  Records are written key by key (a write may    *)
(* fail, and is only logged), every await lets the other parts run, and    *)
(* the page can be closed at any step.                                     *)
(***************************************************************************)
EXTENDS Naturals

CONSTANTS
  RefundBlocks,   \* refund_blocks: T is the lock's block + this
  StopBlocks,     \* stop_release_blocks: no release this close to T
  Birthday,       \* cursor.birthday: the walk never reads this block or below
  MaxTip,         \* bound: the height of the chain
  MaxReorgs,      \* bound: the lock's block is replaced
  MaxFaults       \* bound: writes that fail, and the page closed

ASSUME PayAssumption ==
  /\ {RefundBlocks, StopBlocks, Birthday, MaxTip, MaxReorgs, MaxFaults} \subseteq Nat
  /\ StopBlocks > 0 /\ RefundBlocks > StopBlocks + 1 /\ MaxTip > RefundBlocks + 1

VARIABLES
  tip, forked,   \* the chain: its height, the block last replaced (0: none)
  lock,          \* the lock: which copy of it (0: none), its block (0: none), T
  spend,         \* what spent the lock, in which block
  rel,           \* the release in the mempool: the copy it spends, since when
  secret,        \* the secret has left the wallet
  prov,          \* the provider's record of the payment
  htlc,          \* the payments A and B
  told,          \* the event that one came back: none yet, kept, or lost with a failed write
  rec,           \* OnchainPayRecord: state, T, the lock seen, walk_from
  view,          \* Tier2View: cursor.scanned_to and the hand-over event
  call,          \* tier2_onchain_sync: where it is, whether the script is in its net
  send,          \* where the page's send() is
  sync,          \* the page's sync(): the state it read, the provider's status
  out,           \* the release that is being broadcast: the copy it spends (0: none)
  old,           \* fifteen minutes have passed since the quote
  exposed,       \* history: the secret is out without the lock (NeverBoth)
  budget         \* what is left of the bounds

chain == <<tip, forked, lock, spend, rel>>
world == <<prov, htlc, told>>
page == <<call, send, sync, out, old>>
vars == <<chain, secret, world, rec, view, page, exposed, budget>>

Copies == 0..(MaxReorgs + 1)
Open == {"quoted", "paying", "locked", "lock_seen", "released"}
Ended == {"done", "returned", "taken_back", "failed"}
NoRecord == [st |-> "none", t |-> 0, seen |-> 0, walkFrom |-> 0]
NoEvent == [lock |-> 0, at |-> 0, how |-> "none", spentAt |-> 0]
NoCall == [at |-> "idle", net |-> FALSE]
NoSync == [at |-> "idle", st |-> "none", their |-> "silent"]

Init ==
  /\ tip = 1 /\ forked = 0
  /\ lock = [copy |-> 0, at |-> 0, t |-> 0]
  /\ spend = [how |-> "none", at |-> 0]
  /\ rel = [copy |-> 0, since |-> 0] /\ secret = FALSE
  /\ prov = "none" /\ htlc = [p \in {"a", "b"} |-> "none"]
  /\ told = [p \in {"a", "b"} |-> "no"]
  /\ rec = NoRecord /\ view = [top |-> 1, fork |-> 0, ev |-> NoEvent]
  /\ call = NoCall /\ send = "idle" /\ sync = NoSync /\ out = 0
  /\ old = FALSE /\ exposed = FALSE
  /\ budget = [reorgs |-> MaxReorgs, faults |-> MaxFaults]

Spent(what) == budget[what] > 0 /\ budget' = [budget EXCEPT ![what] = @ - 1]

(* onchain_pay_save: a failed write is logged and the old record stays.    *)
Put(r) ==
  \/ rec' = r /\ UNCHANGED budget
  \/ r # rec /\ Spent("faults") /\ UNCHANGED rec

-----------------------------------------------------------------------------
(* The chain.                                                              *)

Releasable == lock.copy # 0 /\ rel.copy = lock.copy /\ spend.how = "none"

(* A block, from the lock on; what it may hold, and what it must.          *)
Mine(locks, how) ==
  /\ lock.copy # 0 /\ tip < MaxTip /\ tip' = tip + 1
  /\ locks => lock.at = 0
  /\ how # "none" => spend.how = "none" /\ (lock.at # 0 \/ locks)
  /\ how = "release" => Releasable
  /\ how = "takeback" => tip + 1 > lock.t
  /\ (Releasable /\ tip >= rel.since + StopBlocks) => how = "release"
  /\ lock' = IF locks THEN [lock EXCEPT !.at = tip + 1] ELSE lock
  /\ spend' = IF how = "none" THEN spend ELSE [how |-> how, at |-> tip + 1]
  /\ UNCHANGED <<forked, rel, secret, world, rec, view, page, exposed, budget>>

(* The newest block held the lock and is replaced by two; the second holds *)
(* another copy of the lock, at a higher fee.                              *)
Reorg ==
  /\ lock.at = tip /\ spend.how = "none" /\ tip < MaxTip /\ Spent("reorgs")
  /\ tip' = tip + 1 /\ forked' = tip
  /\ lock' = [lock EXCEPT !.at = tip + 1, !.copy = @ + 1]
  /\ exposed' = (exposed \/ secret)
  /\ UNCHANGED <<spend, rel, secret, world, rec, view, page>>

-----------------------------------------------------------------------------
(* The provider.                                                           *)

Settle(p) == htlc' = [htlc EXCEPT ![p] = "settled"]
Held == {p \in {"a", "b"} : htlc[p] = "held"}
Back(ps) == htlc' = [p \in {"a", "b"} |-> IF p \in ps THEN "back" ELSE htlc[p]]

(* A and B are held: the lock goes, and A is collected.                    *)
ProvLock ==
  /\ prov = "open" /\ Held = {"a", "b"}
  /\ prov' = "locked" /\ Settle("a")
  /\ lock' = [copy |-> 1, at |-> 0, t |-> tip + RefundBlocks]
  /\ UNCHANGED <<tip, forked, spend, rel, secret, told, rec, view, page, exposed, budget>>

(* Ten minutes without both: the payments are let go.                      *)
ProvCancel ==
  /\ prov = "open" /\ prov' = "cancelled" /\ Back(Held)
  /\ UNCHANGED <<chain, secret, told, rec, view, page, exposed, budget>>

(* A payment for nothing the provider knows comes back.                    *)
ProvReject ==
  /\ prov \in {"none", "cancelled"} /\ Held # {} /\ Back(Held)
  /\ UNCHANGED <<chain, secret, prov, told, rec, view, page, exposed, budget>>

(* The secret collects B ...                                               *)
ProvCollect ==
  /\ secret /\ htlc["b"] = "held" /\ Settle("b")
  /\ UNCHANGED <<chain, secret, prov, told, rec, view, page, exposed, budget>>

(* ... which comes back after the take-back, or when it expires.           *)
ProvReturn ==
  /\ prov = "locked" /\ ~secret /\ htlc["b"] = "held" /\ Back({"b"})
  /\ spend.how = "takeback" \/ tip = MaxTip
  /\ UNCHANGED <<chain, secret, prov, told, rec, view, page, exposed, budget>>

-----------------------------------------------------------------------------
(* The record.                                                             *)

End(st) == [rec EXCEPT !.st = st]

(* onchain_pay_mark(failed | returned): not once the lock is on the chain. *)
Marked(st) == IF rec.st \in {"quoted", "paying", "locked"} THEN End(st) ELSE rec

(* Mutant: A's settlement ends the record too.                             *)
LatchedBoth(p) ==
  IF rec.st \notin Open THEN rec
  ELSE IF htlc[p] = "settled" THEN End("done")
  ELSE IF rec.t # 0 THEN IF p = "b" THEN End("taken_back") ELSE rec
  ELSE End("returned")

(* Mutant: only B's word counts.                                           *)
LatchedB(p) ==
  IF rec.st \notin Open \/ p = "a" THEN rec
  ELSE IF htlc[p] = "settled" THEN End("done")
  ELSE IF rec.t # 0 THEN End("taken_back") ELSE End("returned")

(* onchain_pay_latch: LDK's word on A or B.                                *)
Latched(p) ==
  IF rec.st \notin Open THEN rec
  ELSE IF htlc[p] = "settled" THEN IF p = "b" THEN End("done") ELSE rec
  ELSE IF rec.t # 0 THEN IF p = "b" THEN End("taken_back") ELSE rec
  ELSE End("returned")

(* Mutant: the walk is not asked to read again.                            *)
LockReportedOnward ==
  IF rec.st \in {"quoted", "paying"}
  THEN [rec EXCEPT !.st = "locked", !.t = lock.t] ELSE rec

(* Mutant: T is counted from the report's T, not from the lock's block.    *)
LockReportedFromT ==
  IF rec.st \in {"quoted", "paying"}
  THEN [rec EXCEPT !.st = "locked", !.t = lock.t + RefundBlocks, !.walkFrom = lock.t]
  ELSE rec

(* onchain_pay_lock_report: the report is checked against the address that *)
(* H, W, L and T make, and the walk is asked to read from the lock's block.*)
LockReported ==
  IF rec.st \in {"quoted", "paying"}
  THEN [rec EXCEPT !.st = "locked", !.t = lock.t, !.walkFrom = lock.t - RefundBlocks]
  ELSE rec

(* onchain_pay_note_events: the lock seen (also another copy of it), then  *)
(* what spent it.                                                          *)
Noted ==
  LET e == view.ev
      seen == IF rec.st = "locked" \/ (rec.st = "lock_seen" /\ rec.seen # e.lock)
              THEN [rec EXCEPT !.st = "lock_seen", !.seen = e.lock, !.walkFrom = 0]
              ELSE rec
  IN  IF rec.st \notin Open \/ rec.t = 0 \/ e.lock = 0 THEN rec
      ELSE IF e.how = "release" THEN [seen EXCEPT !.st = "done"]
      ELSE IF e.how = "takeback" THEN [seen EXCEPT !.st = "taken_back"]
      ELSE seen

(* Mutant: the release may go until T.                                     *)
StopBlockAtT == rec.t

(* stop_release_block                                                      *)
StopBlock == rec.t - StopBlocks

-----------------------------------------------------------------------------
(* send().                                                                 *)

(* onchain_pay_prepare, onchain_pay_record_quote                           *)
Quote ==
  /\ send = "idle" /\ rec.st = "none"
  /\ rec' = [NoRecord EXCEPT !.st = "quoted"] /\ send' = "review"
  /\ UNCHANGED <<chain, secret, world, view, call, sync, out, old, exposed, budget>>

(* The provider opens the payment, whether or not the page hears of it; a  *)
(* page that does not marks the record failed.                             *)
OpenAsk ==
  /\ send = "review" /\ ~old
  /\ \/ prov' = "open" /\ send' = "a" /\ UNCHANGED <<rec, budget>>
     \/ prov' \in {prov, "open"} /\ send' = "idle" /\ Put(Marked("failed"))
  /\ UNCHANGED <<chain, secret, htlc, told, view, call, sync, out, old, exposed>>

(* onchain_pay_pay: the state is checked, the provider's height awaited ...*)
PayCheck(p, then) ==
  /\ send = p
  /\ \/ rec.st \in {"quoted", "paying"} /\ send' = then /\ UNCHANGED <<rec, budget>>
     \/ p = "a" /\ send' = "idle" /\ Put(Marked("failed"))
     \/ p = "b" /\ send' = "idle" /\ UNCHANGED <<rec, budget>>
  /\ UNCHANGED <<chain, secret, world, view, call, sync, out, old, exposed>>

(* ... and the HTLC leaves; the mark fails on a record that has ended.     *)
PaySend(p, then) ==
  /\ send = then
  /\ htlc' = [htlc EXCEPT ![p] = "held"]
  /\ Put(IF rec.st \in {"quoted", "paying"} THEN [rec EXCEPT !.st = "paying"] ELSE rec)
  /\ send' = IF p = "a" THEN "b" ELSE "idle"
  /\ UNCHANGED <<chain, secret, prov, told, view, call, sync, out, old, exposed>>

(* The user leaves the Review.                                             *)
Leave ==
  /\ send \in {"review", "a", "b"} /\ send' = "idle"
  /\ UNCHANGED <<chain, secret, world, rec, view, call, sync, out, old, exposed, budget>>

Ages ==
  /\ ~old /\ rec.st = "quoted" /\ old' = TRUE
  /\ UNCHANGED <<chain, secret, world, rec, view, call, send, sync, out, exposed, budget>>

-----------------------------------------------------------------------------
(* sync(), the page's watch.                                               *)

(* The records are read, then the provider's status, if it answers, which  *)
(* is heeded for a payment on its way.                                     *)
SyncAsk ==
  /\ sync.at = "idle"
  /\ \/ rec.st \in {"quoted", "paying"} /\ \E s \in {prov, "silent"} :
          sync' = [at |-> "apply", st |-> rec.st, their |-> s]
     \/ rec.st \in {"lock_seen", "released"} /\
          sync' = [NoSync EXCEPT !.at = "act", !.st = rec.st]
  /\ UNCHANGED <<chain, secret, world, rec, view, call, send, out, old, exposed, budget>>

(* The status goes to the record as it is now, by the state it had then.   *)
SyncApply ==
  /\ sync.at = "apply" /\ sync' = NoSync
  /\ LET never == sync.st = "quoted" /\ sync.their \in {"none", "silent"} /\ old
     IN  \/ sync.their = "locked" /\ Put(LockReported)
         \/ sync.their = "cancelled" /\ Put(Marked("returned"))
         \/ never /\ Put(Marked("failed"))
         \/ sync.their \notin {"locked", "cancelled"} /\ ~never /\ UNCHANGED <<rec, budget>>
  /\ UNCHANGED <<chain, secret, world, view, call, send, out, old, exposed>>

(* The secret leaves: for a lock that is not on the chain, or late because *)
(* the walk's top hides the stop block or nothing is asked, it is exposed. *)
SecretLeaves(asked) ==
  /\ secret' = TRUE
  /\ exposed' = (exposed \/ (~secret /\
       \/ lock.at = 0 \/ lock.copy # rec.seen
       \/ tip >= rec.t - StopBlocks /\ (asked => view.top < tip)))

InMempool ==
  rel' = IF rel.copy = rec.seen THEN rel ELSE [copy |-> rec.seen, since |-> tip]

(* onchain_pay_release_kvb, also the speed-up of a release: built for the  *)
(* lock seen while the walk's own top is below the stop block, broadcast,  *)
(* and marked when the broadcast is over, whatever it said.                *)
Release ==
  /\ sync.at = "act" /\ sync.st \in {"lock_seen", "released"} /\ out = 0
  /\ IF rec.st \in {"lock_seen", "released"} /\ view.top < StopBlock
     THEN /\ out' = rec.seen
          /\ \/ SecretLeaves(TRUE) /\ InMempool
             \/ UNCHANGED <<secret, exposed, rel>>
          /\ UNCHANGED sync
     ELSE sync' = NoSync /\ UNCHANGED <<out, secret, exposed, rel>>
  /\ UNCHANGED <<tip, forked, lock, spend, world, rec, view, call, send, old, budget>>

(* onchain_pay_mark_released_v2                                            *)
MarkReleased ==
  /\ out # 0 /\ out' = 0
  /\ Put(IF rec.st \in {"lock_seen", "released"} THEN End("released") ELSE rec)
  /\ sync' = IF rec.st \in {"lock_seen", "released"} THEN [NoSync EXCEPT !.at = "hand"] ELSE NoSync
  /\ UNCHANGED <<chain, secret, world, view, call, send, old, exposed>>

(* hand(): the release to the provider, which broadcasts it.               *)
Hand ==
  /\ sync.at = "hand" \/ (sync.at = "act" /\ sync.st = "released" /\ out = 0)
  /\ rec.seen # 0
  /\ SecretLeaves(FALSE)
  /\ InMempool
  /\ sync' = NoSync
  /\ UNCHANGED <<tip, forked, lock, spend, world, rec, view, call, send, out, old, budget>>

(* The pass ends: nothing to release, the provider out of reach.           *)
SyncEnd ==
  /\ sync.at \in {"act", "hand"} /\ out = 0 /\ sync' = NoSync
  /\ UNCHANGED <<chain, secret, world, rec, view, call, send, out, old, exposed, budget>>

(* LDK's word on a payment.  One that was collected is an event, and is    *)
(* listed for minutes and read again by status_json; one that came back    *)
(* is an event only, handled once whether or not the record was written.   *)
Latch(p) ==
  /\ \/ htlc[p] = "settled" /\ Latched(p) # rec /\ Put(Latched(p)) /\ UNCHANGED told
     \/ /\ htlc[p] = "back" /\ told[p] = "no" /\ Put(Latched(p))
        /\ told' = [told EXCEPT ![p] = IF rec' = Latched(p) THEN "kept" ELSE "lost"]
  /\ UNCHANGED <<chain, secret, prov, htlc, view, page, exposed>>

-----------------------------------------------------------------------------
(* tier2_onchain_sync.                                                     *)

(* rollback: the hand-over event goes with its block.                      *)
RolledBack(v, to) ==
  [v EXCEPT !.top = to, !.ev =
     IF @.at > to THEN NoEvent
     ELSE IF @.spentAt > to THEN [@ EXCEPT !.how = "none", !.spentAt = 0] ELSE @]

(* onchain_pay_extras, onchain_pay_rewalk_from, the re-walk and            *)
(* onchain_pay_rewalk_done.                                                *)
WalkBegin ==
  /\ call.at = "idle"
  /\ call' = [at |-> "read", net |-> rec.st \in Open /\ rec.t # 0]
  /\ IF rec.st \in Open /\ rec.walkFrom # 0
     THEN /\ view' = IF view.top >= rec.walkFrom /\ rec.walkFrom > Birthday
                     THEN RolledBack(view, rec.walkFrom - 1) ELSE view
          /\ Put([rec EXCEPT !.walkFrom = 0])
     ELSE UNCHANGED <<view, rec, budget>>
  /\ UNCHANGED <<chain, secret, world, send, sync, out, old, exposed>>

(* The blocks above the top, after those that were replaced are dropped.   *)
WalkRead ==
  /\ call.at = "read" /\ call' = [call EXCEPT !.at = "end"]
  /\ LET kept == IF view.fork # forked /\ view.top >= forked
                 THEN RolledBack(view, forked - 1) ELSE view
         locked == IF kept.ev.lock = 0 /\ call.net /\ lock.at > kept.top
                   THEN [NoEvent EXCEPT !.lock = lock.copy, !.at = lock.at] ELSE kept.ev
     IN  view' = [top |-> tip, fork |-> forked, ev |->
           IF locked.lock # 0 /\ spend.at > kept.top
           THEN [locked EXCEPT !.how = spend.how, !.spentAt = spend.at] ELSE locked]
  /\ UNCHANGED <<chain, secret, world, rec, send, sync, out, old, exposed, budget>>

WalkEnd ==
  /\ call.at = "end" /\ call' = NoCall
  /\ IF call.net THEN Put(Noted) ELSE UNCHANGED <<rec, budget>>
  /\ UNCHANGED <<chain, secret, world, view, send, sync, out, old, exposed>>

(* The server does not answer.                                             *)
WalkFails ==
  /\ call.at = "read" /\ call' = NoCall
  /\ UNCHANGED <<chain, secret, world, rec, view, send, sync, out, old, exposed, budget>>

(* The page is closed and opened again; an event that was handled after    *)
(* the manager was last saved comes again.                                 *)
Restart ==
  /\ <<call, send, sync>> # <<NoCall, "idle", NoSync>> /\ Spent("faults")
  /\ call' = NoCall /\ send' = "idle" /\ sync' = NoSync /\ out' = 0
  /\ told' \in {told, [p \in {"a", "b"} |-> "no"]}
  /\ UNCHANGED <<chain, secret, prov, htlc, rec, view, old, exposed>>

Sending == Quote \/ OpenAsk \/ Leave \/ Ages
           \/ PayCheck("a", "a2") \/ PaySend("a", "a2")
           \/ PayCheck("b", "b2") \/ PaySend("b", "b2")
Watching == SyncAsk \/ SyncApply \/ Release \/ MarkReleased \/ Hand \/ SyncEnd
Provider == ProvLock \/ ProvCancel \/ ProvReject \/ ProvCollect \/ ProvReturn
Walking == WalkBegin \/ WalkRead \/ WalkEnd \/ WalkFails

Block == \E locks \in BOOLEAN, how \in {"none", "release", "takeback"} : Mine(locks, how)

LdkSays == \E p \in {"a", "b"} : Latch(p)

Next ==
  \/ Block
  \/ Reorg \/ LdkSays
  \/ Sending \/ Watching \/ Provider \/ Walking \/ Restart

Spec == Init /\ [][Next]_vars

-----------------------------------------------------------------------------
(* The types: the states of OnchainPayRecord, the heights and the copies   *)
(* of the lock stay within their bounds.                                   *)
TypeOK ==
  /\ tip \in 1..MaxTip /\ forked \in 0..MaxTip
  /\ lock \in [copy : Copies, at : 0..MaxTip, t : 0..MaxTip]
  /\ spend \in [how : {"none", "release", "takeback"}, at : 0..MaxTip]
  /\ rel \in [copy : Copies, since : 0..MaxTip]
  /\ {secret, old, exposed} \subseteq BOOLEAN
  /\ prov \in {"none", "open", "locked", "cancelled"}
  /\ htlc \in [{"a", "b"} -> {"none", "held", "settled", "back"}]
  /\ told \in [{"a", "b"} -> {"no", "kept", "lost"}]
  /\ rec \in [st : {"none"} \cup Open \cup Ended, t : 0..MaxTip, seen : Copies, walkFrom : 0..MaxTip]
  /\ view \in [top : 0..MaxTip, fork : 0..MaxTip,
               ev : [lock : Copies, at : 0..MaxTip,
                     how : {"none", "release", "takeback"}, spentAt : 0..MaxTip]]
  /\ call \in [at : {"idle", "read", "end"}, net : BOOLEAN]
  /\ send \in {"idle", "review", "a", "a2", "b", "b2"}
  /\ sync \in [at : {"idle", "apply", "act", "hand"}, st : {"none"} \cup Open \cup Ended,
               their : {"silent", "none", "open", "locked", "cancelled"}]
  /\ out \in Copies
  /\ budget \in [{"reorgs", "faults"} -> Nat]

(* The provider never collects B and takes the lock back too, unless the   *)
(* secret was exposed: it left for a lock that a reorganisation had taken  *)
(* off the chain or then took, or at the stop block, unseen or unasked.    *)
NeverBoth == ~exposed => ~(htlc["b"] = "settled" /\ spend.how = "takeback")

(* A record that has ended says what happened: done when the recipient was *)
(* paid or B was collected, and otherwise neither happens (the provider's  *)
(* word, LDK's and the walk's arrive in any order, over one another).      *)
EndIsTrue ==
  /\ rec.st = "done" => spend.how = "release" \/ htlc["b"] = "settled"
  /\ rec.st \in {"returned", "taken_back", "failed"} /\ ~exposed
       => htlc["b"] # "settled" /\ spend.how # "release"
=============================================================================
