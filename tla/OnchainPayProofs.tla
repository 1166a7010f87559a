-------------------------- MODULE OnchainPayProofs --------------------------
(***************************************************************************)
(* Proofs about OnchainPay, for any refund period, any margin below it and *)
(* any number of blocks, reorganisations and faults.                       *)
(***************************************************************************)
EXTENDS OnchainPay, TLAPS

(* How far the payment has come: what the page has not done yet has not    *)
(* happened, neither at the provider nor to A and B.                       *)
Opening ==
  /\ rec.st = "none" => send = "idle" /\ prov = "none"
  /\ send = "review" => prov = "none"
  /\ send \in {"a", "a2", "b", "b2"} => prov # "none"
  /\ prov = "none" => htlc["a"] = "none" /\ htlc["b"] = "none"
  /\ send \in {"a", "a2"} => htlc["a"] = "none"
  /\ send \in {"a", "a2", "b", "b2"} => htlc["b"] = "none"

(* The lock stands for the provider's promise; nothing is mined before it. *)
Locking ==
  /\ lock.copy # 0 <=> prov = "locked"
  /\ lock.copy = 0 => tip = 1 /\ lock.at = 0 /\ spend.how = "none"
  /\ lock.copy # 0 => lock.t = RefundBlocks + 1
  /\ budget["reorgs"] <= MaxReorgs /\ lock.copy + budget["reorgs"] <= MaxReorgs + 1
  /\ sync.their = "locked" => prov = "locked"

(* What became of B and of the lock, and the secret it took.               *)
Paying ==
  /\ htlc["a"] = "back" => prov = "cancelled"
  /\ htlc["b"] = "settled" => secret
  /\ htlc["b"] = "back" => \/ prov = "cancelled" \/ spend.how = "takeback"
                           \/ tip = MaxTip /\ spend.how # "release"
  /\ spend.how = "takeback" => tip > lock.t
  /\ spend.how = "release" => secret
  /\ rel.copy # 0 => secret
  /\ secret => rec.seen # 0

(* What the record and the walk know is so, or was so of an earlier copy   *)
(* of the lock.                                                            *)
Knowing ==
  /\ rec.t # 0 => lock.copy # 0 /\ rec.t = lock.t
  /\ rec.st = "locked" => rec.t # 0
  /\ rec.seen # 0 => rec.t # 0 /\ rec.st \in {"lock_seen", "released", "done", "taken_back"}
  /\ rec.st \in {"lock_seen", "released"} => rec.seen # 0
  /\ rec.seen <= lock.copy /\ view.ev.lock <= lock.copy
  /\ view.ev.lock # 0 => rec.seen <= view.ev.lock
  /\ view.ev.how # "none" => view.ev.how = spend.how
  /\ view.fork # 0 => forked # 0

(* A secret that left in time releases the lock in time.                   *)
InTime ==
  secret /\ ~exposed =>
    /\ lock.at # 0 /\ rec.seen = lock.copy /\ rel.copy = lock.copy
    /\ rel.since + StopBlocks < lock.t
    /\ spend.how # "takeback"
    /\ spend.how = "none" => tip <= rel.since + StopBlocks

(* What the ends of the record rest on.                                    *)
Ending ==
  /\ rec.st = "done" => spend.how = "release" \/ htlc["b"] = "settled"
  /\ rec.st = "taken_back" => spend.how = "takeback" \/ htlc["b"] = "back"

Inv == TypeOK /\ Opening /\ Locking /\ Paying /\ Knowing /\ InTime /\ Ending

Heights == 0..MaxTip
Fates == {"none", "release", "takeback"}
States == {"none"} \cup Open \cup Ended
Locks == [copy : Copies, at : Heights, t : Heights]
Rels == [copy : Copies, since : Heights]
Recs == [st : States, t : Heights, seen : Copies, walkFrom : Heights]
Events == [lock : Copies, at : Heights, how : Fates, spentAt : Heights]
Views == [top : Heights, fork : Heights, ev : Events]
Syncs == [at : {"idle", "apply", "act", "hand"}, st : States,
          their : {"silent", "none", "open", "locked", "cancelled"}]
Budgets == [{"reorgs", "faults"} -> Nat]

USE DEF Heights, Fates, States, Copies, Open, Ended

-----------------------------------------------------------------------------
(* The operators.                                                          *)

(* A failed write leaves the record as it was.                             *)
LEMMA PutLemma ==
  ASSUME budget \in Budgets, NEW r, Put(r)
  PROVE  /\ rec' \in {r, rec} /\ budget' \in Budgets
         /\ budget'["reorgs"] = budget["reorgs"]
  BY DEF Put, Spent, Budgets

(* The two changes of several fields of the record.                        *)
LEMMA ReportLemma ==
  ASSUME rec \in Recs, NEW t \in Heights, NEW w \in Heights
  PROVE  LET r == [rec EXCEPT !.st = "locked", !.t = t, !.walkFrom = w]
         IN  r \in Recs /\ r.st = "locked" /\ r.t = t /\ r.seen = rec.seen
<1> DEFINE r1 == [rec EXCEPT !.st = "locked"]
           r2 == [r1 EXCEPT !.t = t]
<1>1. r1 \in Recs /\ r1.st = "locked" /\ r1.seen = rec.seen
  BY DEF Recs
<1> HIDE DEF r1
<1>2. r2 \in Recs /\ r2.st = "locked" /\ r2.seen = rec.seen /\ r2.t = t
  BY <1>1 DEF Recs
<1> HIDE DEF r2
<1>3. LET r == [r2 EXCEPT !.walkFrom = w]
      IN  r \in Recs /\ r.st = "locked" /\ r.t = t /\ r.seen = rec.seen
  BY <1>2 DEF Recs
<1> QED BY <1>3 DEF r1, r2

(* The record of a pay whose lock was seen.                                *)
LEMMA SeenLemma ==
  ASSUME rec \in Recs, NEW c \in Copies
  PROVE  LET r == [rec EXCEPT !.st = "lock_seen", !.seen = c, !.walkFrom = 0]
         IN  r \in Recs /\ r.st = "lock_seen" /\ r.t = rec.t /\ r.seen = c
<1> DEFINE r1 == [rec EXCEPT !.st = "lock_seen"]
           r2 == [r1 EXCEPT !.seen = c]
<1>1. r1 \in Recs /\ r1.st = "lock_seen" /\ r1.t = rec.t
  BY DEF Recs
<1> HIDE DEF r1
<1>2. r2 \in Recs /\ r2.st = "lock_seen" /\ r2.seen = c /\ r2.t = rec.t
  BY <1>1 DEF Recs
<1> HIDE DEF r2
<1>3. LET r == [r2 EXCEPT !.walkFrom = 0]
      IN  r \in Recs /\ r.st = "lock_seen" /\ r.t = rec.t /\ r.seen = c
  BY <1>2, PayAssumption DEF Recs
<1> QED BY <1>3 DEF r1, r2

(* onchain_pay_note_events makes of the record what the walk has seen.     *)
LEMMA NotedLemma ==
  ASSUME rec \in Recs, view.ev \in Events
  PROVE  /\ Noted \in Recs
         /\ \/ Noted = rec
            \/ /\ rec.t # 0 /\ Noted.t = rec.t
               /\ view.ev.lock # 0 /\ Noted.seen \in {rec.seen, view.ev.lock}
               /\ \/ Noted.st = "lock_seen" /\ Noted.seen = view.ev.lock
                  \/ Noted.st = "done" /\ view.ev.how = "release"
                  \/ Noted.st = "taken_back" /\ view.ev.how = "takeback"
<1> DEFINE e == view.ev
           seen == IF rec.st = "locked" \/ (rec.st = "lock_seen" /\ rec.seen # e.lock)
                   THEN [rec EXCEPT !.st = "lock_seen", !.seen = e.lock, !.walkFrom = 0]
                   ELSE rec
<1>1. e.lock \in Copies
  BY DEF Events
<1>2. /\ seen \in Recs /\ seen.t = rec.t /\ seen.seen \in {rec.seen, e.lock}
      /\ seen = rec \/ (seen.st = "lock_seen" /\ seen.seen = e.lock)
  BY <1>1, SeenLemma
<1>3. Noted = IF rec.st \notin Open \/ rec.t = 0 \/ e.lock = 0 THEN rec
              ELSE IF e.how = "release" THEN [seen EXCEPT !.st = "done"]
              ELSE IF e.how = "takeback" THEN [seen EXCEPT !.st = "taken_back"]
              ELSE seen
  BY DEF Noted
<1> HIDE DEF seen, e
<1>4. \A st \in {"done", "taken_back"} :
        LET r == [seen EXCEPT !.st = st]
        IN  r \in Recs /\ r.st = st /\ r.t = seen.t /\ r.seen = seen.seen
  BY <1>2 DEF Recs
<1> QED BY <1>2, <1>3, <1>4 DEF e

(* rollback forgets events and never makes one.                            *)
LEMMA RollLemma ==
  ASSUME view \in Views, NEW to \in Heights
  PROVE  LET v == RolledBack(view, to)
         IN  /\ v \in Views /\ v.fork = view.fork
             /\ v.ev.lock \in {0, view.ev.lock}
             /\ v.ev.how \in {"none", view.ev.how}
<1> DEFINE e == IF view.ev.at > to THEN NoEvent
                ELSE IF view.ev.spentAt > to
                     THEN [view.ev EXCEPT !.how = "none", !.spentAt = 0] ELSE view.ev
           half == [view.ev EXCEPT !.how = "none"]
<1>1. view.ev \in Events
  BY DEF Views
<1>2. half \in Events /\ half.lock = view.ev.lock /\ half.how = "none"
  BY <1>1 DEF Events
<1> HIDE DEF half
<1>3. LET h == [half EXCEPT !.spentAt = 0]
      IN  h \in Events /\ h.lock = view.ev.lock /\ h.how = "none"
  BY <1>2, PayAssumption DEF Events
<1>4. NoEvent \in Events /\ NoEvent.lock = 0 /\ NoEvent.how = "none"
  BY PayAssumption DEF NoEvent, Events
<1>5. e \in Events /\ e.lock \in {0, view.ev.lock} /\ e.how \in {"none", view.ev.how}
  BY <1>1, <1>3, <1>4 DEF half
<1>6. RolledBack(view, to) = [[view EXCEPT !.top = to] EXCEPT !.ev = e]
  BY DEF RolledBack, Views
<1> HIDE DEF e
<1>7. [view EXCEPT !.top = to] \in Views /\ [view EXCEPT !.top = to].fork = view.fork
  BY DEF Views
<1> QED BY <1>5, <1>6, <1>7 DEF Views

(* A secret that leaves unexposed leaves in time: the margin is what the   *)
(* release has to be in a block.                                           *)
LEMMA LeaveLemma ==
  ASSUME Inv, NEW asked \in BOOLEAN, SecretLeaves(asked), InMempool, rec.seen # 0,
         asked => view.top < StopBlock, UNCHANGED <<tip, lock, spend, rec>>
  PROVE  rel' \in Rels /\ InTime'
<1>1. rel' \in Rels
  BY DEF InMempool, Inv, TypeOK, Rels, Recs
<1>2. SUFFICES ASSUME ~exposed' PROVE InTime'
  BY <1>1 DEF InTime
<1>3. ~exposed
  BY <1>2 DEF SecretLeaves, Inv, TypeOK
<1>4. CASE secret
  BY <1>3, <1>4 DEF Inv, InTime, InMempool
<1>5. CASE ~secret
  <2>1. lock.at # 0 /\ lock.copy = rec.seen
    BY <1>2, <1>5 DEF SecretLeaves
  <2>2. rec.t = lock.t /\ rec.t \in Nat /\ tip \in Nat /\ StopBlocks \in Nat
    BY PayAssumption DEF Inv, Knowing, TypeOK
  <2>3. ~(tip >= rec.t - StopBlocks /\ (asked => view.top < tip))
    BY <1>2, <1>5 DEF SecretLeaves
  <2>4. tip < rec.t - StopBlocks
    BY <2>2, <2>3 DEF StopBlock, Inv, TypeOK
  <2>5. rel' = [copy |-> rec.seen, since |-> tip]
    BY <1>5 DEF InMempool, Inv, Paying
  <2>6. spend.how = "none"
    BY <1>5, <2>2, <2>4, PayAssumption DEF Inv, TypeOK, Paying
  <2> QED BY <2>1, <2>2, <2>4, <2>5, <2>6 DEF InTime
<1> QED BY <1>4, <1>5

-----------------------------------------------------------------------------
(* The steps.                                                              *)

LEMMA MineInv ==
  ASSUME NEW locks \in BOOLEAN, NEW how \in {"none", "release", "takeback"},
         Inv, Mine(locks, how)
  PROVE  Inv'
  <1>1. TypeOK'
    BY PayAssumption DEF Inv, TypeOK, Recs, Views, Events, Syncs, Locks, Rels,
       Budgets, Mine, Releasable, world, page, Locking, Knowing, TypeOK
  <1>2. Locking'
    BY PayAssumption DEF Inv, TypeOK, Mine, Releasable, world, page, Opening,
       Locking
  <1>3. Paying'
    BY PayAssumption DEF Inv, TypeOK, Mine, Releasable, world, page, Locking,
       Knowing, Opening, Paying
  <1>4. Knowing'
    BY PayAssumption DEF Inv, TypeOK, Mine, Releasable, world, page, Locking,
       Paying, Opening, Knowing
  <1>5. InTime'
    BY PayAssumption DEF Inv, TypeOK, Mine, Releasable, world, page, Paying,
       Knowing, Locking, Opening, InTime
  <1>6. Ending'
    BY PayAssumption DEF Inv, TypeOK, Mine, Releasable, world, page, Paying,
       Knowing, Opening, Ending
  <1>7. Opening'
    BY DEF Mine, world, page, Inv, Opening
  <1> QED
    BY <1>1, <1>2, <1>3, <1>4, <1>5, <1>6, <1>7 DEF Inv

LEMMA ReorgInv ==
  ASSUME Inv, Reorg
  PROVE  Inv'
  <1>1. /\ lock' \in Locks /\ lock'.copy = lock.copy + 1
        /\ lock'.at = tip + 1 /\ lock'.t = lock.t
    <2> DEFINE l == [lock EXCEPT !.at = tip + 1]
    <2>1. l \in Locks /\ l.copy = lock.copy /\ l.at = tip + 1 /\ l.t = lock.t
      BY PayAssumption DEF Reorg, Inv, TypeOK, Locks
    <2>2. lock.copy + 1 \in Copies
      BY PayAssumption DEF Reorg, Spent, Inv, TypeOK, Locking
    <2>3. lock' = [l EXCEPT !.copy = l.copy + 1]
      BY <2>1 DEF Reorg
    <2> HIDE DEF l
    <2> QED BY <2>1, <2>2, <2>3 DEF Locks
  <1>2. TypeOK'
    BY <1>1, PayAssumption DEF Inv, TypeOK, Recs, Views, Events, Syncs, Locks, Rels,
       Budgets, Reorg, Spent, world, page, Locking, Knowing, TypeOK
  <1>3. Locking'
    BY PayAssumption DEF Inv, TypeOK, Reorg, Spent, world, page, Opening, Locking
  <1>4. Paying'
    BY PayAssumption DEF Inv, TypeOK, Reorg, Spent, world, page, Locking, Knowing,
       Opening, Paying
  <1>5. Knowing'
    BY PayAssumption DEF Inv, TypeOK, Reorg, Spent, world, page, Locking, Paying,
       Opening, Knowing
  <1>6. InTime'
    BY PayAssumption DEF Inv, TypeOK, Reorg, Spent, world, page, Paying, Knowing,
       Locking, Opening, InTime
  <1>7. Opening' /\ Ending'
    BY DEF Reorg, world, page, Inv, Opening, Ending
  <1> QED
    BY <1>2, <1>3, <1>4, <1>5, <1>6, <1>7 DEF Inv

LEMMA ProvLockInv ==
  ASSUME Inv, ProvLock
  PROVE  Inv'
  <1>1. TypeOK'
    BY PayAssumption DEF Inv, TypeOK, Recs, Views, Events, Syncs, Locks, Rels,
       Budgets, ProvLock, Held, Settle, page, Locking, Knowing, TypeOK
  <1>2. Opening'
    BY PayAssumption DEF Inv, TypeOK, ProvLock, Held, Settle, page, Opening
  <1>3. Locking'
    BY PayAssumption DEF Inv, TypeOK, ProvLock, Held, Settle, page, Opening, Locking
  <1>4. Paying'
    BY PayAssumption DEF Inv, TypeOK, ProvLock, Held, Settle, page, Locking,
       Knowing, Opening, Paying
  <1>5. Knowing'
    BY PayAssumption DEF Inv, TypeOK, ProvLock, Held, Settle, page, Locking, Paying,
       Opening, Knowing
  <1>6. InTime'
    BY PayAssumption DEF Inv, TypeOK, ProvLock, Held, Settle, page, Paying, Knowing,
       Locking, Opening, InTime
  <1>7. Ending'
    BY PayAssumption DEF Inv, TypeOK, ProvLock, Held, Settle, page, Paying, Knowing,
       Opening, Ending
  <1> QED
    BY <1>1, <1>2, <1>3, <1>4, <1>5, <1>6, <1>7 DEF Inv

LEMMA ProvCancelInv ==
  ASSUME Inv, ProvCancel
  PROVE  Inv'
  <1>1. TypeOK'
    BY PayAssumption DEF Inv, TypeOK, Recs, Views, Events, Syncs, Locks, Rels,
       Budgets, ProvCancel, Held, Back, chain, page, Locking, Knowing, TypeOK
  <1>2. Opening'
    BY PayAssumption DEF Inv, TypeOK, ProvCancel, Held, Back, chain, page, Opening
  <1>3. Locking'
    BY PayAssumption DEF Inv, TypeOK, ProvCancel, Held, Back, chain, page, Opening,
       Locking
  <1>4. Paying'
    BY PayAssumption DEF Inv, TypeOK, ProvCancel, Held, Back, chain, page, Locking,
       Knowing, Opening, Paying
  <1>5. Ending'
    BY PayAssumption DEF Inv, TypeOK, ProvCancel, Held, Back, chain, page, Paying,
       Knowing, Opening, Ending
  <1>6. Knowing' /\ InTime'
    BY DEF ProvCancel, chain, page, Inv, Knowing, InTime
  <1> QED
    BY <1>1, <1>2, <1>3, <1>4, <1>5, <1>6 DEF Inv

LEMMA ProvRejectInv ==
  ASSUME Inv, ProvReject
  PROVE  Inv'
  <1>1. TypeOK'
    BY PayAssumption DEF Inv, TypeOK, Recs, Views, Events, Syncs, Locks, Rels,
       Budgets, ProvReject, Held, Back, chain, page, Locking, Knowing, TypeOK
  <1>2. Opening'
    BY PayAssumption DEF Inv, TypeOK, ProvReject, Held, Back, chain, page, Opening
  <1>3. Paying'
    BY PayAssumption DEF Inv, TypeOK, ProvReject, Held, Back, chain, page, Locking,
       Knowing, Opening, Paying
  <1>4. Ending'
    BY PayAssumption DEF Inv, TypeOK, ProvReject, Held, Back, chain, page, Paying,
       Knowing, Opening, Ending
  <1>5. Locking' /\ Knowing' /\ InTime'
    BY DEF ProvReject, chain, page, Inv, Locking, Knowing, InTime
  <1> QED
    BY <1>1, <1>2, <1>3, <1>4, <1>5 DEF Inv

LEMMA ProvCollectInv ==
  ASSUME Inv, ProvCollect
  PROVE  Inv'
  <1>1. TypeOK'
    BY PayAssumption DEF Inv, TypeOK, Recs, Views, Events, Syncs, Locks, Rels,
       Budgets, ProvCollect, Settle, chain, page, Locking, Knowing, TypeOK
  <1>2. Opening'
    BY PayAssumption DEF Inv, TypeOK, ProvCollect, Settle, chain, page, Opening
  <1>3. Paying'
    BY PayAssumption DEF Inv, TypeOK, ProvCollect, Settle, chain, page, Locking,
       Knowing, Opening, Paying
  <1>4. Ending'
    BY PayAssumption DEF Inv, TypeOK, ProvCollect, Settle, chain, page, Paying,
       Knowing, Opening, Ending
  <1>5. Locking' /\ Knowing' /\ InTime'
    BY DEF ProvCollect, chain, page, Inv, Locking, Knowing, InTime
  <1> QED
    BY <1>1, <1>2, <1>3, <1>4, <1>5 DEF Inv

LEMMA ProvReturnInv ==
  ASSUME Inv, ProvReturn
  PROVE  Inv'
  <1>1. TypeOK'
    BY PayAssumption DEF Inv, TypeOK, Recs, Views, Events, Syncs, Locks, Rels,
       Budgets, ProvReturn, Back, chain, page, Locking, Knowing, TypeOK
  <1>2. Opening'
    BY PayAssumption DEF Inv, TypeOK, ProvReturn, Back, chain, page, Opening
  <1>3. Paying'
    BY PayAssumption DEF Inv, TypeOK, ProvReturn, Back, chain, page, Locking,
       Knowing, Opening, Paying
  <1>4. Ending'
    BY PayAssumption DEF Inv, TypeOK, ProvReturn, Back, chain, page, Paying,
       Knowing, Opening, Ending
  <1>5. Locking' /\ Knowing' /\ InTime'
    BY DEF ProvReturn, chain, page, Inv, Locking, Knowing, InTime
  <1> QED
    BY <1>1, <1>2, <1>3, <1>4, <1>5 DEF Inv

LEMMA QuoteInv ==
  ASSUME Inv, Quote
  PROVE  Inv'
  <1>1. TypeOK'
    BY PayAssumption DEF Inv, TypeOK, Recs, Views, Events, Syncs, Locks, Rels,
       Budgets, Quote, NoRecord, chain, world, Locking, Knowing, TypeOK
  <1>2. Opening'
    BY PayAssumption DEF Inv, TypeOK, Quote, NoRecord, chain, world, Opening
  <1>3. Paying'
    BY PayAssumption DEF Inv, TypeOK, Quote, NoRecord, chain, world, Locking,
       Knowing, Opening, Paying
  <1>4. Knowing'
    BY PayAssumption DEF Inv, TypeOK, Quote, NoRecord, chain, world, Locking,
       Paying, Opening, Knowing
  <1>5. InTime'
    BY PayAssumption DEF Inv, TypeOK, Quote, NoRecord, chain, world, Paying,
       Knowing, Locking, Opening, InTime
  <1>6. Ending'
    BY PayAssumption DEF Inv, TypeOK, Quote, NoRecord, chain, world, Paying,
       Knowing, Opening, Ending
  <1>7. Locking'
    BY DEF Quote, chain, world, Inv, Locking
  <1> QED
    BY <1>1, <1>2, <1>3, <1>4, <1>5, <1>6, <1>7 DEF Inv

LEMMA OpenAskInv ==
  ASSUME Inv, OpenAsk
  PROVE  Inv'
  <1>1. TypeOK'
    BY PayAssumption DEF Inv, TypeOK, Recs, Views, Events, Syncs, Locks, Rels,
       Budgets, OpenAsk, Put, Spent, Marked, End, chain, Locking, Knowing, TypeOK
  <1>2. Opening'
    BY PayAssumption DEF Inv, TypeOK, OpenAsk, Put, Spent, Marked, End, chain,
       Opening
  <1>3. Locking'
    BY PayAssumption DEF Inv, TypeOK, OpenAsk, Put, Spent, Marked, End, chain,
       Opening, Locking
  <1>4. Paying'
    BY PayAssumption DEF Inv, TypeOK, OpenAsk, Put, Spent, Marked, End, chain,
       Locking, Knowing, Opening, Paying
  <1>5. Knowing'
    BY PayAssumption DEF Inv, TypeOK, OpenAsk, Put, Spent, Marked, End, chain,
       Locking, Paying, Opening, Knowing
  <1>6. InTime'
    BY PayAssumption DEF Inv, TypeOK, OpenAsk, Put, Spent, Marked, End, chain,
       Paying, Knowing, Locking, Opening, InTime
  <1>7. Ending'
    BY PayAssumption DEF Inv, TypeOK, OpenAsk, Put, Spent, Marked, End, chain,
       Paying, Knowing, Opening, Ending
  <1> QED
    BY <1>1, <1>2, <1>3, <1>4, <1>5, <1>6, <1>7 DEF Inv

LEMMA PayCheckInv ==
  ASSUME NEW p \in {"a", "b"}, NEW then \in {"a2", "b2"},
         p = "a" => then = "a2", p = "b" => then = "b2", Inv, PayCheck(p, then)
  PROVE  Inv'
  <1>1. TypeOK'
    BY PayAssumption DEF Inv, TypeOK, Recs, Views, Events, Syncs, Locks, Rels,
       Budgets, PayCheck, Put, Spent, Marked, End, chain, world, Locking, Knowing,
       TypeOK
  <1>2. Opening'
    BY PayAssumption DEF Inv, TypeOK, PayCheck, Put, Spent, Marked, End, chain,
       world, Opening
  <1>3. Locking'
    BY PayAssumption DEF Inv, TypeOK, PayCheck, Put, Spent, Marked, End, chain,
       world, Opening, Locking
  <1>4. Paying'
    BY PayAssumption DEF Inv, TypeOK, PayCheck, Put, Spent, Marked, End, chain,
       world, Locking, Knowing, Opening, Paying
  <1>5. Knowing'
    BY PayAssumption DEF Inv, TypeOK, PayCheck, Put, Spent, Marked, End, chain,
       world, Locking, Paying, Opening, Knowing
  <1>6. InTime'
    BY PayAssumption DEF Inv, TypeOK, PayCheck, Put, Spent, Marked, End, chain,
       world, Paying, Knowing, Locking, Opening, InTime
  <1>7. Ending'
    BY PayAssumption DEF Inv, TypeOK, PayCheck, Put, Spent, Marked, End, chain,
       world, Paying, Knowing, Opening, Ending
  <1> QED
    BY <1>1, <1>2, <1>3, <1>4, <1>5, <1>6, <1>7 DEF Inv

LEMMA PaySendInv ==
  ASSUME NEW p \in {"a", "b"}, NEW then \in {"a2", "b2"},
         p = "a" => then = "a2", p = "b" => then = "b2", Inv, PaySend(p, then)
  PROVE  Inv'
  <1>1. TypeOK'
    BY PayAssumption DEF Inv, TypeOK, Recs, Views, Events, Syncs, Locks, Rels,
       Budgets, PaySend, Put, Spent, chain, Locking, Knowing, TypeOK
  <1>2. Opening'
    BY PayAssumption DEF Inv, TypeOK, PaySend, Put, Spent, chain, Opening
  <1>3. Locking'
    BY PayAssumption DEF Inv, TypeOK, PaySend, Put, Spent, chain, Opening, Locking
  <1>4. Paying'
    BY PayAssumption DEF Inv, TypeOK, PaySend, Put, Spent, chain, Locking, Knowing,
       Opening, Paying
  <1>5. Knowing'
    BY PayAssumption DEF Inv, TypeOK, PaySend, Put, Spent, chain, Locking, Paying,
       Opening, Knowing
  <1>6. InTime'
    BY PayAssumption DEF Inv, TypeOK, PaySend, Put, Spent, chain, Paying, Knowing,
       Locking, Opening, InTime
  <1>7. Ending'
    BY PayAssumption DEF Inv, TypeOK, PaySend, Put, Spent, chain, Paying, Knowing,
       Opening, Ending
  <1> QED
    BY <1>1, <1>2, <1>3, <1>4, <1>5, <1>6, <1>7 DEF Inv

LEMMA LeaveInv ==
  ASSUME Inv, Leave
  PROVE  Inv'
  <1>1. TypeOK'
    BY PayAssumption DEF Inv, TypeOK, Recs, Views, Events, Syncs, Locks, Rels,
       Budgets, Leave, chain, world, Locking, Knowing, TypeOK
  <1>2. Opening'
    BY PayAssumption DEF Inv, TypeOK, Leave, chain, world, Opening
  <1>3. Locking' /\ Paying' /\ Knowing' /\ InTime' /\ Ending'
    BY DEF Leave, chain, world, Inv, Locking, Paying, Knowing, InTime, Ending
  <1> QED
    BY <1>1, <1>2, <1>3 DEF Inv

LEMMA AgesInv ==
  ASSUME Inv, Ages
  PROVE  Inv'
  <1>1. TypeOK'
    BY PayAssumption DEF Inv, TypeOK, Recs, Views, Events, Syncs, Locks, Rels,
       Budgets, Ages, chain, world, Locking, Knowing, TypeOK
  <1>2. Opening' /\ Locking' /\ Paying' /\ Knowing' /\ InTime' /\ Ending'
    BY DEF Ages, chain, world, Inv, Opening, Locking, Paying, Knowing, InTime,
       Ending
  <1> QED
    BY <1>1, <1>2 DEF Inv

LEMMA SyncAskInv ==
  ASSUME Inv, SyncAsk
  PROVE  Inv'
  <1>1. sync' \in Syncs /\ (sync'.their = "locked" => prov = "locked")
    <2>1. CASE \E s \in {prov, "silent"} : sync' = [at |-> "apply", st |-> rec.st, their |-> s]
      BY <2>1 DEF Inv, TypeOK, Syncs
    <2>2. CASE sync' = [NoSync EXCEPT !.at = "act", !.st = rec.st]
      <3>1. sync' = [at |-> "act", st |-> rec.st, their |-> "silent"]
        BY <2>2 DEF NoSync
      <3> QED BY <3>1 DEF Inv, TypeOK, Syncs
    <2> QED BY <2>1, <2>2 DEF SyncAsk
  <1>2. TypeOK'
    BY <1>1, PayAssumption DEF Inv, TypeOK, Recs, Views, Events, Syncs, Locks, Rels,
       Budgets, SyncAsk, NoSync, chain, world, Locking, Knowing, TypeOK
  <1>3. Locking'
    BY <1>1, PayAssumption DEF Inv, TypeOK, SyncAsk, NoSync, chain, world, Opening,
       Locking
  <1>4. Opening' /\ Paying' /\ Knowing' /\ InTime' /\ Ending'
    BY DEF SyncAsk, chain, world, Inv, Opening, Paying, Knowing, InTime, Ending
  <1> QED
    BY <1>2, <1>3, <1>4 DEF Inv

LEMMA SyncApplyInv ==
  ASSUME Inv, SyncApply
  PROVE  Inv'
  <1>1. budget' \in Budgets /\ budget'["reorgs"] = budget["reorgs"]
        /\ (rec' = rec \/ (sync.their = "locked" /\ rec' = LockReported)
            \/ (\E st \in {"returned", "failed"} : rec' = Marked(st)))
    BY PutLemma DEF SyncApply, Inv, TypeOK, Budgets
  <1>2. rec' \in Recs /\ rec'.seen = rec.seen
        /\ \/ rec' = rec
           \/ rec.st \in {"quoted", "paying", "locked"} /\ rec'.st \in {"returned", "failed"}
              /\ rec'.t = rec.t
           \/ rec.st \in {"quoted", "paying"} /\ lock.copy # 0
              /\ rec'.st = "locked" /\ rec'.t = lock.t
    <2>1. CASE sync.their = "locked" /\ rec' = LockReported
      <3>1. lock.copy # 0 /\ lock.t \in Heights /\ lock.t - RefundBlocks \in Heights
        BY <2>1, PayAssumption DEF Inv, TypeOK, Locking
      <3> QED BY <2>1, <3>1, ReportLemma DEF LockReported, Inv, TypeOK, Recs
    <2>2. CASE \E st \in {"returned", "failed"} : rec' = Marked(st)
      BY <2>2 DEF Marked, End, Inv, TypeOK, Recs
    <2> QED BY <1>1, <2>1, <2>2 DEF Inv, TypeOK, Recs
  <1>3. TypeOK'
    BY <1>1, <1>2, PayAssumption DEF Inv, TypeOK, Recs, Views, Events, Syncs, Locks,
       Rels, Budgets, SyncApply, NoSync, Spent, chain, world, Locking, Knowing,
       TypeOK
  <1>4. Opening'
    BY <1>1, <1>2, PayAssumption DEF Inv, TypeOK, SyncApply, NoSync, Spent, chain,
       world, Opening
  <1>5. Locking'
    BY <1>1, <1>2, PayAssumption DEF Inv, TypeOK, SyncApply, NoSync, Spent, chain,
       world, Opening, Locking
  <1>6. Paying'
    BY <1>1, <1>2, PayAssumption DEF Inv, TypeOK, SyncApply, NoSync, Spent, chain,
       world, Locking, Knowing, Opening, Paying
  <1>7. Knowing'
    BY <1>1, <1>2, PayAssumption DEF Inv, TypeOK, SyncApply, NoSync, Spent, chain,
       world, Locking, Paying, Opening, Knowing
  <1>8. InTime'
    BY <1>1, <1>2, PayAssumption DEF Inv, TypeOK, SyncApply, NoSync, Spent, chain,
       world, Paying, Knowing, Locking, Opening, InTime
  <1>9. Ending'
    BY <1>1, <1>2, PayAssumption DEF Inv, TypeOK, SyncApply, NoSync, Spent, chain,
       world, Paying, Knowing, Opening, Ending
  <1> QED
    BY <1>3, <1>4, <1>5, <1>6, <1>7, <1>8, <1>9 DEF Inv

LEMMA ReleaseInv ==
  ASSUME Inv, Release
  PROVE  Inv'
  <1>1. (secret' = secret /\ exposed' = exposed /\ rel' = rel)
        \/ (secret' = TRUE /\ exposed' \in BOOLEAN /\ rel' \in Rels /\ InTime' /\ rec.seen # 0)
    <2>1. CASE SecretLeaves(TRUE) /\ InMempool /\ rec.st \in {"lock_seen", "released"}
               /\ view.top < StopBlock
      <3>1. rec.seen # 0
        BY <2>1 DEF Inv, Knowing
      <3> QED BY <2>1, <3>1, LeaveLemma DEF Release, SecretLeaves, Inv, TypeOK
    <2> QED BY <2>1 DEF Release
  <1>2. out' \in Copies /\ sync' \in Syncs /\ sync'.their \in {sync.their, "silent"}
    <2>1. rec.seen \in Copies /\ out \in Copies /\ sync \in Syncs
      BY DEF Inv, TypeOK, Recs, Syncs
    <2>2. NoSync \in Syncs /\ NoSync.their = "silent"
      BY DEF NoSync, Syncs
    <2> QED BY <2>1, <2>2 DEF Release
  <1>3. InTime'
    BY <1>1 DEF Release, Inv, InTime
  <1>4. {secret', old', exposed'} \subseteq BOOLEAN /\ rel' \in Rels
    <2>1. {secret, old, exposed} \subseteq BOOLEAN /\ rel \in Rels
      BY DEF Inv, TypeOK, Rels
    <2>2. old' = old
      BY DEF Release
    <2> QED BY <1>1, <2>1, <2>2
  <1>5. TypeOK'
    BY <1>2, <1>4, PayAssumption DEF Inv, TypeOK, Recs, Views, Events, Syncs, Locks,
       Rels, Budgets, Release, NoSync, world, Locking, Knowing, TypeOK
  <1>6. Locking'
    BY <1>1, <1>2, <1>3, PayAssumption DEF Inv, TypeOK, Release, NoSync, world,
       Opening, Locking
  <1>7. Paying'
    BY <1>1, <1>2, <1>3, PayAssumption DEF Inv, TypeOK, Release, NoSync, world,
       Locking, Knowing, Opening, Paying
  <1>8. InTime'
    BY <1>1, <1>2, <1>3, PayAssumption DEF Inv, TypeOK, Release, NoSync, world,
       Paying, Knowing, Locking, Opening, InTime
  <1>9. Opening' /\ Knowing' /\ Ending'
    BY DEF Release, world, Inv, Opening, Knowing, Ending
  <1> QED
    BY <1>5, <1>6, <1>7, <1>8, <1>9 DEF Inv

LEMMA MarkReleasedInv ==
  ASSUME Inv, MarkReleased
  PROVE  Inv'
  <1>1. TypeOK'
    BY PayAssumption DEF Inv, TypeOK, Recs, Views, Events, Syncs, Locks, Rels,
       Budgets, MarkReleased, NoSync, Put, Spent, End, chain, world, Locking,
       Knowing, TypeOK
  <1>2. Opening'
    BY PayAssumption DEF Inv, TypeOK, MarkReleased, NoSync, Put, Spent, End, chain,
       world, Opening
  <1>3. Locking'
    BY PayAssumption DEF Inv, TypeOK, MarkReleased, NoSync, Put, Spent, End, chain,
       world, Opening, Locking
  <1>4. Paying'
    BY PayAssumption DEF Inv, TypeOK, MarkReleased, NoSync, Put, Spent, End, chain,
       world, Locking, Knowing, Opening, Paying
  <1>5. Knowing'
    BY PayAssumption DEF Inv, TypeOK, MarkReleased, NoSync, Put, Spent, End, chain,
       world, Locking, Paying, Opening, Knowing
  <1>6. InTime'
    BY PayAssumption DEF Inv, TypeOK, MarkReleased, NoSync, Put, Spent, End, chain,
       world, Paying, Knowing, Locking, Opening, InTime
  <1>7. Ending'
    BY PayAssumption DEF Inv, TypeOK, MarkReleased, NoSync, Put, Spent, End, chain,
       world, Paying, Knowing, Opening, Ending
  <1> QED
    BY <1>1, <1>2, <1>3, <1>4, <1>5, <1>6, <1>7 DEF Inv

LEMMA HandInv ==
  ASSUME Inv, Hand
  PROVE  Inv'
  <1>1. secret' = TRUE /\ exposed' \in BOOLEAN /\ rel' \in Rels /\ InTime'
    BY LeaveLemma DEF Hand, SecretLeaves, Inv, TypeOK
  <1>2. TypeOK'
    BY <1>1, PayAssumption DEF Inv, TypeOK, Recs, Views, Events, Syncs, Locks, Rels,
       Budgets, Hand, NoSync, world, Locking, Knowing, TypeOK
  <1>3. Locking'
    BY <1>1, PayAssumption DEF Inv, TypeOK, Hand, NoSync, world, Opening, Locking
  <1>4. Paying'
    BY <1>1, PayAssumption DEF Inv, TypeOK, Hand, NoSync, world, Locking, Knowing,
       Opening, Paying
  <1>5. InTime'
    BY <1>1, PayAssumption DEF Inv, TypeOK, Hand, NoSync, world, Paying, Knowing,
       Locking, Opening, InTime
  <1>6. Opening' /\ Knowing' /\ Ending'
    BY DEF Hand, world, Inv, Opening, Knowing, Ending
  <1> QED
    BY <1>2, <1>3, <1>4, <1>5, <1>6 DEF Inv

LEMMA SyncEndInv ==
  ASSUME Inv, SyncEnd
  PROVE  Inv'
  <1>1. TypeOK'
    BY PayAssumption DEF Inv, TypeOK, Recs, Views, Events, Syncs, Locks, Rels,
       Budgets, SyncEnd, NoSync, chain, world, Locking, Knowing, TypeOK
  <1>2. Locking'
    BY PayAssumption DEF Inv, TypeOK, SyncEnd, NoSync, chain, world, Opening,
       Locking
  <1>3. Opening' /\ Paying' /\ Knowing' /\ InTime' /\ Ending'
    BY DEF SyncEnd, chain, world, Inv, Opening, Paying, Knowing, InTime, Ending
  <1> QED
    BY <1>1, <1>2, <1>3 DEF Inv

LEMMA LatchInv ==
  ASSUME NEW p \in {"a", "b"}, Inv, Latch(p)
  PROVE  Inv'
  <1>1. TypeOK'
    BY PayAssumption DEF Inv, TypeOK, Recs, Views, Events, Syncs, Locks, Rels,
       Budgets, Latch, Put, Spent, Latched, End, chain, world, page, Locking,
       Knowing, TypeOK
  <1>2. Opening'
    BY PayAssumption DEF Inv, TypeOK, Latch, Put, Spent, Latched, End, chain, world,
       page, Opening
  <1>3. Locking'
    BY PayAssumption DEF Inv, TypeOK, Latch, Put, Spent, Latched, End, chain, world,
       page, Opening, Locking
  <1>4. Paying'
    BY PayAssumption DEF Inv, TypeOK, Latch, Put, Spent, Latched, End, chain, world,
       page, Locking, Knowing, Opening, Paying
  <1>5. Knowing'
    BY PayAssumption DEF Inv, TypeOK, Latch, Put, Spent, Latched, End, chain, world,
       page, Locking, Paying, Opening, Knowing
  <1>6. InTime'
    BY PayAssumption DEF Inv, TypeOK, Latch, Put, Spent, Latched, End, chain, world,
       page, Paying, Knowing, Locking, Opening, InTime
  <1>7. Ending'
    BY PayAssumption DEF Inv, TypeOK, Latch, Put, Spent, Latched, End, chain, world,
       page, Paying, Knowing, Opening, Ending
  <1> QED
    BY <1>1, <1>2, <1>3, <1>4, <1>5, <1>6, <1>7 DEF Inv

LEMMA WalkBeginInv ==
  ASSUME Inv, WalkBegin
  PROVE  Inv'
  <1>1. /\ budget' \in Budgets /\ budget'["reorgs"] = budget["reorgs"]
        /\ rec' \in Recs /\ rec'.st = rec.st /\ rec'.t = rec.t /\ rec'.seen = rec.seen
    <2>1. CASE Put([rec EXCEPT !.walkFrom = 0])
      BY <2>1, PutLemma, PayAssumption DEF Inv, TypeOK, Recs, Budgets
    <2> QED BY <2>1 DEF WalkBegin, Inv, TypeOK, Recs, Budgets
  <1>2. /\ view' \in Views /\ view'.fork = view.fork
        /\ view'.ev.lock \in {0, view.ev.lock} /\ view'.ev.how \in {"none", view.ev.how}
    <2>1. rec.walkFrom # 0 => rec.walkFrom - 1 \in Heights
      BY PayAssumption DEF Inv, TypeOK
    <2> QED BY <2>1, RollLemma DEF WalkBegin, Inv, TypeOK, Views, Events
  <1>3. TypeOK'
    BY <1>1, <1>2, PayAssumption DEF Inv, TypeOK, Recs, Views, Events, Syncs, Locks,
       Rels, Budgets, WalkBegin, Spent, chain, world, Locking, Knowing, TypeOK
  <1>4. Opening'
    BY <1>1, <1>2, PayAssumption DEF Inv, TypeOK, WalkBegin, Spent, chain, world,
       Opening
  <1>5. Locking'
    BY <1>1, <1>2, PayAssumption DEF Inv, TypeOK, WalkBegin, Spent, chain, world,
       Opening, Locking
  <1>6. Paying'
    BY <1>1, <1>2, PayAssumption DEF Inv, TypeOK, WalkBegin, Spent, chain, world,
       Locking, Knowing, Opening, Paying
  <1>7. Knowing'
    BY <1>1, <1>2, PayAssumption DEF Inv, TypeOK, WalkBegin, Spent, chain, world,
       Locking, Paying, Opening, Knowing
  <1>8. InTime'
    BY <1>1, <1>2, PayAssumption DEF Inv, TypeOK, WalkBegin, Spent, chain, world,
       Paying, Knowing, Locking, Opening, InTime
  <1>9. Ending'
    BY <1>1, <1>2, PayAssumption DEF Inv, TypeOK, WalkBegin, Spent, chain, world,
       Paying, Knowing, Opening, Ending
  <1> QED
    BY <1>3, <1>4, <1>5, <1>6, <1>7, <1>8, <1>9 DEF Inv

LEMMA WalkReadInv ==
  ASSUME Inv, WalkRead
  PROVE  Inv'
  <1> DEFINE kept == IF view.fork # forked /\ view.top >= forked
                     THEN RolledBack(view, forked - 1) ELSE view
             locked == IF kept.ev.lock = 0 /\ call.net /\ lock.at > kept.top
                       THEN [NoEvent EXCEPT !.lock = lock.copy, !.at = lock.at] ELSE kept.ev
             both == [locked EXCEPT !.how = spend.how, !.spentAt = spend.at]
  <1>1. /\ kept \in Views /\ kept.ev.lock \in {0, view.ev.lock}
        /\ kept.ev.how \in {"none", view.ev.how}
    <2>1. view \in Views
      BY DEF Inv, TypeOK, Views, Events
    <2>2. view.fork # forked => forked - 1 \in Heights
      BY PayAssumption DEF Inv, TypeOK, Knowing
    <2> QED BY <2>1, <2>2, RollLemma
  <1> HIDE DEF kept
  <1>2. /\ locked \in Events /\ locked.lock \in {0, view.ev.lock, lock.copy}
        /\ locked.how \in {"none", view.ev.how}
    <2> DEFINE e == [NoEvent EXCEPT !.lock = lock.copy]
    <2>1. lock.copy \in Copies /\ lock.at \in Heights
      BY DEF Inv, TypeOK
    <2>2. e \in Events /\ e.lock = lock.copy /\ e.how = "none"
      BY <2>1, PayAssumption DEF NoEvent, Events
    <2>3. locked = IF kept.ev.lock = 0 /\ call.net /\ lock.at > kept.top
                   THEN [e EXCEPT !.at = lock.at] ELSE kept.ev
      OBVIOUS
    <2> HIDE DEF e
    <2>4. LET l == [e EXCEPT !.at = lock.at]
          IN  l \in Events /\ l.lock = lock.copy /\ l.how = "none"
      BY <2>1, <2>2 DEF Events
    <2> QED BY <1>1, <2>3, <2>4 DEF Views
  <1> HIDE DEF locked
  <1>3. both \in Events /\ both.lock = locked.lock /\ both.how = spend.how
    <2>1. LET h == [locked EXCEPT !.how = spend.how]
          IN  h \in Events /\ h.lock = locked.lock /\ h.how = spend.how
      BY <1>2 DEF Events, Inv, TypeOK
    <2> QED BY <2>1 DEF Events, Inv, TypeOK
  <1>4. view' = [top |-> tip, fork |-> forked,
                 ev |-> IF locked.lock # 0 /\ spend.at > kept.top THEN both ELSE locked]
    BY DEF WalkRead, kept, locked
  <1> HIDE DEF both
  <1>5. /\ view' \in Views /\ view'.fork = forked
        /\ view'.ev.lock \in {0, view.ev.lock, lock.copy}
        /\ view'.ev.how \in {"none", view.ev.how, spend.how}
    BY <1>2, <1>3, <1>4, PayAssumption DEF Views, Inv, TypeOK
  <1>6. call' \in [at : {"idle", "read", "end"}, net : BOOLEAN]
    BY DEF WalkRead, Inv, TypeOK
  <1>7. TypeOK'
    BY <1>5, <1>6, PayAssumption DEF Inv, TypeOK, Recs, Views, Events, Syncs, Locks,
       Rels, Budgets, WalkRead, chain, world, Locking, Knowing, TypeOK
  <1>8. Knowing'
    BY <1>5, <1>6, PayAssumption DEF Inv, TypeOK, WalkRead, chain, world, Locking,
       Paying, Opening, Knowing
  <1>9. Opening' /\ Locking' /\ Paying' /\ InTime' /\ Ending'
    BY DEF WalkRead, chain, world, Inv, Opening, Locking, Paying, InTime, Ending
  <1> QED
    BY <1>7, <1>8, <1>9 DEF Inv

LEMMA WalkEndInv ==
  ASSUME Inv, WalkEnd
  PROVE  Inv'
  <1>1. budget' \in Budgets /\ budget'["reorgs"] = budget["reorgs"] /\ rec' \in {rec, Noted}
    BY PutLemma DEF WalkEnd, Inv, TypeOK, Budgets
  <1>2. rec \in Recs /\ view.ev \in Events
    BY DEF Inv, TypeOK, Recs, Views, Events
  <1>3. /\ rec' \in Recs
        /\ \/ rec' = rec
           \/ /\ rec.t # 0 /\ rec'.t = rec.t
              /\ view.ev.lock # 0 /\ rec'.seen \in {rec.seen, view.ev.lock}
              /\ \/ rec'.st = "lock_seen" /\ rec'.seen = view.ev.lock
                 \/ rec'.st = "done" /\ view.ev.how = "release"
                 \/ rec'.st = "taken_back" /\ view.ev.how = "takeback"
    BY <1>1, <1>2, NotedLemma
  <1>4. TypeOK'
    BY <1>1, <1>3, PayAssumption DEF Inv, TypeOK, Recs, Views, Events, Syncs, Locks,
       Rels, Budgets, WalkEnd, NoCall, Spent, chain, world, Locking, Knowing, TypeOK
  <1>5. Opening'
    BY <1>1, <1>3, PayAssumption DEF Inv, TypeOK, WalkEnd, NoCall, Spent, chain,
       world, Opening
  <1>6. Locking'
    BY <1>1, <1>3, PayAssumption DEF Inv, TypeOK, WalkEnd, NoCall, Spent, chain,
       world, Opening, Locking
  <1>7. Paying'
    BY <1>1, <1>3, PayAssumption DEF Inv, TypeOK, WalkEnd, NoCall, Spent, chain,
       world, Locking, Knowing, Opening, Paying
  <1>8. Knowing'
    BY <1>1, <1>3, PayAssumption DEF Inv, TypeOK, WalkEnd, NoCall, Spent, chain,
       world, Locking, Paying, Opening, Knowing
  <1>9. InTime'
    BY <1>1, <1>3, PayAssumption DEF Inv, TypeOK, WalkEnd, NoCall, Spent, chain,
       world, Paying, Knowing, Locking, Opening, InTime
  <1>10. Ending'
    BY <1>1, <1>3, PayAssumption DEF Inv, TypeOK, WalkEnd, NoCall, Spent, chain,
       world, Paying, Knowing, Opening, Ending
  <1> QED
    BY <1>4, <1>5, <1>6, <1>7, <1>8, <1>9, <1>10 DEF Inv

LEMMA WalkFailsInv ==
  ASSUME Inv, WalkFails
  PROVE  Inv'
  <1>1. TypeOK'
    BY PayAssumption DEF Inv, TypeOK, Recs, Views, Events, Syncs, Locks, Rels,
       Budgets, WalkFails, NoCall, chain, world, Locking, Knowing, TypeOK
  <1>2. Opening' /\ Locking' /\ Paying' /\ Knowing' /\ InTime' /\ Ending'
    BY DEF WalkFails, chain, world, Inv, Opening, Locking, Paying, Knowing, InTime,
       Ending
  <1> QED
    BY <1>1, <1>2 DEF Inv

LEMMA RestartInv ==
  ASSUME Inv, Restart
  PROVE  Inv'
  <1>1. TypeOK'
    BY PayAssumption DEF Inv, TypeOK, Recs, Views, Events, Syncs, Locks, Rels,
       Budgets, Restart, NoCall, NoSync, Spent, chain, world, Locking, Knowing,
       TypeOK
  <1>2. Opening'
    BY PayAssumption DEF Inv, TypeOK, Restart, NoCall, NoSync, Spent, chain, world,
       Opening
  <1>3. Locking'
    BY PayAssumption DEF Inv, TypeOK, Restart, NoCall, NoSync, Spent, chain, world,
       Opening, Locking
  <1>4. Paying' /\ Knowing' /\ InTime' /\ Ending'
    BY DEF Restart, chain, world, Inv, Paying, Knowing, InTime, Ending
  <1> QED
    BY <1>1, <1>2, <1>3, <1>4 DEF Inv

-----------------------------------------------------------------------------
(* The theorems.                                                           *)

LEMMA InitInv == Init => Inv
<1> SUFFICES ASSUME Init PROVE Inv
  OBVIOUS
<1>1. TypeOK
  <2>1. rec \in Recs /\ sync \in Syncs
    BY PayAssumption DEF Init, NoRecord, NoSync, Recs, Syncs
  <2>2. NoEvent \in Events
    BY PayAssumption DEF NoEvent, Events
  <2>3. view \in Views
    BY <2>2, PayAssumption DEF Init, Views
  <2>4. lock \in Locks /\ rel \in Rels /\ budget \in Budgets
    BY PayAssumption DEF Init, Locks, Rels, Budgets
  <2>5. spend \in [how : Fates, at : Heights]
    BY PayAssumption DEF Init
  <2>6. call \in [at : {"idle", "read", "end"}, net : BOOLEAN]
    BY DEF Init, NoCall
  <2>7. {secret, old, exposed} \subseteq BOOLEAN
    BY DEF Init
  <2>8. /\ htlc \in [{"a", "b"} -> {"none", "held", "settled", "back"}]
        /\ told \in [{"a", "b"} -> {"no", "kept", "lost"}]
    BY DEF Init
  <2>9. /\ tip \in 1..MaxTip /\ forked \in Heights /\ out \in Copies
        /\ prov = "none" /\ send = "idle"
    BY PayAssumption DEF Init
  <2> QED BY <2>1, <2>3, <2>4, <2>5, <2>6, <2>7, <2>8, <2>9 DEF TypeOK, Recs, Views,
       Events, Syncs, Locks, Rels, Budgets
<1>2. Opening /\ Locking /\ Paying /\ Knowing /\ InTime /\ Ending
  BY PayAssumption DEF Init, NoRecord, NoEvent, NoSync, Opening, Locking, Paying,
     Knowing, InTime, Ending
<1> QED BY <1>1, <1>2 DEF Inv

LEMMA StutterInv == ASSUME Inv, UNCHANGED vars PROVE Inv'
<1>1. TypeOK'
  BY DEF Inv, vars, chain, world, page, TypeOK
<1>2. Opening' /\ Locking' /\ Paying'
  BY DEF Inv, vars, chain, world, page, Opening, Locking, Paying
<1>3. Knowing' /\ InTime' /\ Ending'
  BY DEF Inv, vars, chain, world, page, Knowing, InTime, Ending
<1> QED BY <1>1, <1>2, <1>3 DEF Inv

LEMMA NextInv == Inv /\ [Next]_vars => Inv'
<1> SUFFICES ASSUME Inv, [Next]_vars PROVE Inv'
  OBVIOUS
<1>1. CASE Block \/ Reorg \/ LdkSays
  BY <1>1, MineInv, ReorgInv, LatchInv DEF Block, LdkSays
<1>2. CASE Sending
  <2>1. CASE PayCheck("a", "a2") \/ PayCheck("b", "b2")
    BY <2>1, PayCheckInv
  <2>2. CASE PaySend("a", "a2") \/ PaySend("b", "b2")
    BY <2>2, PaySendInv
  <2> QED BY <1>2, <2>1, <2>2, QuoteInv, OpenAskInv, LeaveInv, AgesInv DEF Sending
<1>3. CASE Watching
  BY <1>3, SyncAskInv, SyncApplyInv, ReleaseInv, MarkReleasedInv, HandInv,
     SyncEndInv DEF Watching
<1>4. CASE Provider
  BY <1>4, ProvLockInv, ProvCancelInv, ProvRejectInv, ProvCollectInv, ProvReturnInv
     DEF Provider
<1>5. CASE Walking
  BY <1>5, WalkBeginInv, WalkReadInv, WalkEndInv, WalkFailsInv DEF Walking
<1>6. CASE Restart
  BY <1>6, RestartInv
<1> QED BY <1>1, <1>2, <1>3, <1>4, <1>5, <1>6, StutterInv DEF Next

LEMMA SpecInv == Spec => []Inv
  BY InitInv, NextInv, PTL DEF Spec

(* The record, the walk's view, the chain and the provider keep to their   *)
(* states and bounds.                                                      *)
THEOREM PayTypeCorrect == Spec => []TypeOK
<1>1. Inv => TypeOK
  BY DEF Inv
<1> QED BY <1>1, SpecInv, PTL

(* For every refund period and every margin: a provider that was handed    *)
(* the secret in time never collects B and takes the lock back too.        *)
THEOREM NeverCollectsBoth == Spec => []NeverBoth
<1>1. Inv => NeverBoth
  BY DEF Inv, Paying, InTime, NeverBoth
<1> QED BY <1>1, SpecInv, PTL

(* Whatever order the words of the provider, of LDK and of the walk come   *)
(* in, and whatever writes fail, the end a record shows is what happened.  *)
THEOREM EndsAreTrue == Spec => []EndIsTrue
<1>1. Inv => EndIsTrue
  <2> SUFFICES ASSUME Inv PROVE EndIsTrue
    OBVIOUS
  <2>1. ASSUME rec.st \in {"returned", "failed"}
        PROVE  htlc["b"] # "settled" /\ spend.how # "release"
    <3>1. ~secret
      BY <2>1 DEF Inv, Paying, Knowing
    <3> QED BY <3>1 DEF Inv, Paying
  <2>2. ASSUME rec.st = "taken_back", ~exposed
        PROVE  htlc["b"] # "settled" /\ spend.how # "release"
    <3>1. CASE spend.how = "takeback"
      BY <2>2, <3>1 DEF Inv, Paying, InTime
    <3>2. CASE htlc["b"] = "back"
      BY <3>2 DEF Inv, Locking, Paying
    <3> QED BY <2>2, <3>1, <3>2 DEF Inv, Ending
  <2> QED BY <2>1, <2>2 DEF Inv, Ending, EndIsTrue
<1> QED BY <1>1, SpecInv, PTL
=============================================================================
