-------------------------- MODULE LedgerWalkProofs --------------------------
(***************************************************************************)
(* Proofs about LedgerWalk, for any chain, any number of reorganisations   *)
(* no deeper than the window, failed requests and closed pages.            *)
(***************************************************************************)
EXTENDS LedgerWalk, Integers, TLAPS, SequenceTheorems

Blocks == [hash : 1..mined, txs : SUBSET Txs]

(* No reorganisation reaches the blocks up to here any more.               *)
Deep == Max2(highest - ReorgWindow, Birthday)

(* Where reorg_check rolls a view back to, whose top is at a height.       *)
Floor(top) == Max2(IF top > ReorgWindow THEN top - ReorgWindow ELSE 0, Birthday)

(* How far a view can be relied on if its top is orphaned: a view without  *)
(* anchor was rolled back to where no reorganisation reaches.              *)
Firm(v) == IF v.topHash = None THEN v.top ELSE Floor(v.top)

InChain(c, hash, h) == h \in 1..Len(c) /\ c[h].hash = hash

(* Where the view has a transaction.                                       *)
Shows(v, tx) == IF tx = "pays" THEN v.paid
                ELSE IF v.paid # 0 THEN v.spent ELSE v.pending

(* The view agrees with the blocks of chain c up to hi: what it has there  *)
(* is in them, it has nothing twice, and nothing from the lowest block     *)
(* read on is missing, but for the blocks still to be fetched.             *)
Agree(c, v, todo, hi) ==
  \A tx \in Txs :
    /\ Shows(v, tx) \in 1..hi => tx \in c[Shows(v, tx)].txs
    /\ \A h \in 1..hi : tx \in c[h].txs =>
         /\ Shows(v, tx) \in {0, h}
         /\ h >= v.low /\ (\A m \in todo : m.height # h) => Shows(v, tx) = h

(* A view that was opened agrees with the chain as far as it is firm, and  *)
(* up to its top if that is a block of the chain; it has nothing above.    *)
Good(c, deep, v, todo) ==
  IF v.opened
  THEN /\ Firm(v) <= deep /\ Agree(c, v, todo, Firm(v))
       /\ InChain(c, v.topHash, v.top) => Agree(c, v, todo, v.top)
       /\ {v.paid, v.spent, v.pending} \subseteq 0..v.top
  ELSE v.paid = 0 /\ v.spent = 0 /\ v.pending = 0

ChainOK ==
  /\ chain \in Seq(Blocks) /\ Sound(chain)
  /\ mined \in Nat /\ highest \in Start..MaxHeight
  /\ Tip \in Deep..highest

ViewOK(v) ==
  /\ IsView(v)
  /\ v.spent # 0 => v.paid # 0
  /\ v.paid # 0 => v.pending = 0
  /\ IF v.opened THEN {v.top, v.low} \subseteq Birthday..highest
     ELSE v.top = 0 /\ v.low = 0

(* Where a call may be.                                                    *)
Walking == {"check", "forward", "filters", "down", "downFilters", "end"}

CallOK ==
  /\ pc \in {"idle", "open", "blocks"} \cup Walking
  /\ pc # "idle" =>
       /\ call.tip \in Birthday + 1..highest /\ call.tipHash \in Hashes
       /\ view.low <= call.tip
  /\ pc = "open" => ~view.opened
  /\ pc \in Walking => view.opened
  /\ pc \in {"forward", "filters"} => view.top < call.tip
  /\ pc \in {"down", "downFilters"} => view.top >= call.tip
  /\ pc \in {"filters", "downFilters"} => call.headers \in Seq(Hashes)
  /\ call.applied => pc = "blocks"
  /\ call.applied \in BOOLEAN /\ torn \in BOOLEAN
  /\ DOMAIN call = DOMAIN NoCall

(* The headers of a batch are in: they link to the top, so that as long as *)
(* the last one is in the chain the view agrees with it up to the top.     *)
Reach == From + Len(call.headers) - 1

Linked ==
  /\ InChain(chain, call.headers[Len(call.headers)], Reach) =>
       Agree(chain, view, {}, view.top)
  /\ Agree(chain, view, {}, Min2(view.top, Floor(Reach)))

HeadersOK ==
  pc = "filters" => \/ call.headers = <<None>>
                    \/ /\ call.headers \in Seq(1..mined)
                       /\ Len(call.headers) = To - From + 1
                       /\ ~torn => Linked

(* A block matched at a height is that block of the chain, if it is still  *)
(* there.                                                                  *)
Fetchable(m, top) ==
  /\ m = [height |-> m.height, block |-> m.block]
  /\ m.height \in Birthday..top
  /\ m.block \in Blocks
  /\ InChain(chain, m.block.hash, m.height) => chain[m.height] = m.block

IsTodo(m) == Fetchable(m, Moved(view, call.cursor).top)

(* What only blocks enter.                                                 *)
Entries == {"paid", "spent", "pending"}

BatchOK ==
  pc = "blocks" =>
    LET v == Moved(view, call.cursor)
    IN  /\ DOMAIN call.cursor \cap Entries = {}
        /\ ViewOK(v) /\ v.opened /\ v.low <= call.tip
        /\ \A m \in call.todo : IsTodo(m)
        /\ ~torn => Good(chain, Deep, v, call.todo)

Inv ==
  /\ ChainOK /\ ViewOK(view) /\ ViewOK(disk)
  /\ CallOK /\ HeadersOK /\ BatchOK
  /\ ~torn => Good(chain, Deep, disk, {})
  /\ ~torn /\ ~call.applied => Good(chain, Deep, view, {})

-----------------------------------------------------------------------------
(* Facts about one view and one chain.                                     *)

(* The constants are natural numbers, ordered as the code orders them.     *)
LEMMA Constants ==
  /\ Birthday \in Nat /\ Birthday > 0 /\ Batch \in Nat /\ Batch > 0
  /\ ReorgWindow \in Nat /\ ReorgWindow > 0 /\ TailVerify \in Nat
  /\ Start \in Nat /\ MaxHeight \in Nat
  /\ Birthday < Start /\ ReorgWindow < Start /\ Start <= MaxHeight
  /\ ReorgWindow <= TailVerify
  BY WalkAssumption

(* Two chains with the same blocks up to hi are agreed with alike.         *)
LEMMA AgreeSame ==
  ASSUME NEW c, NEW d, NEW v, NEW todo, NEW hi,
         \A h \in 1..hi : d[h] = c[h], Agree(c, v, todo, hi)
  PROVE  Agree(d, v, todo, hi)
  BY DEF Agree

(* Agreement up to a height is agreement up to a lower one.                *)
LEMMA AgreeLess ==
  ASSUME NEW c, NEW v, NEW todo, NEW hi \in Nat, NEW lo \in Nat, lo <= hi,
         Agree(c, v, todo, hi)
  PROVE  Agree(c, v, todo, lo)
<1>1. \A h \in 1..lo : h \in 1..hi
  OBVIOUS
<1> QED BY <1>1 DEF Agree

(* A batch is to be read: a view that agreed up to its old top agrees up   *)
(* to hi but for the blocks to fetch, which are all that it has not read.  *)
LEMMA AgreeBatch ==
  ASSUME NEW c, NEW v, NEW w, NEW todo, NEW hi \in Nat, NEW old \in Nat,
         Sound(c), Len(c) \in Nat, hi <= Len(c),
         \A tx \in Txs : Shows(w, tx) = Shows(v, tx) /\ Shows(v, tx) \in 0..old,
         \A h \in 1..hi :
           h >= w.low /\ c[h].txs # {} /\ (\A m \in todo : m.height # h)
             => h >= v.low /\ h <= old,
         Agree(c, v, {}, Min2(hi, old))
  PROVE  Agree(c, w, todo, hi)
<1> SUFFICES ASSUME NEW tx \in Txs
             PROVE  /\ Shows(w, tx) \in 1..hi => tx \in c[Shows(w, tx)].txs
                    /\ \A h \in 1..hi : tx \in c[h].txs =>
                         /\ Shows(w, tx) \in {0, h}
                         /\ h >= w.low /\ (\A m \in todo : m.height # h)
                              => Shows(w, tx) = h
  BY DEF Agree
<1>1. \A h \in 1..hi : h <= old => h \in 1..Min2(hi, old)
  BY DEF Min2
<1>2. Shows(w, tx) \in 1..hi => tx \in c[Shows(w, tx)].txs
  BY <1>1 DEF Agree
<1>3. ASSUME NEW h \in 1..hi, tx \in c[h].txs PROVE Shows(w, tx) \in {0, h}
  <2>1. CASE h <= old
    BY <1>1, <1>3, <2>1 DEF Agree
  <2>2. CASE h > old /\ Shows(w, tx) # 0
    <3>1. Shows(w, tx) \in 1..hi
      BY <2>2
    <3> QED BY <1>2, <1>3, <3>1 DEF Sound
  <2> QED BY <2>1, <2>2
<1>4. ASSUME NEW h \in 1..hi, tx \in c[h].txs, h >= w.low,
             \A m \in todo : m.height # h
      PROVE  Shows(w, tx) = h
  <2>1. h >= v.low /\ h <= old
    BY <1>4
  <2> QED BY <1>1, <1>4, <2>1 DEF Agree
<1> QED BY <1>2, <1>3, <1>4

(* A block of the chain enters a view: what Agree needs of apply_txs.      *)
LEMMA AgreeEnter ==
  ASSUME NEW c, NEW v, NEW w, NEW todo, NEW m \in todo, NEW hi \in Nat,
         Sound(c), Len(c) \in Nat, hi <= Len(c),
         m.height \in 1..Len(c), c[m.height] = m.block, w.low = v.low,
         \A tx \in Txs :
           IF tx \in m.block.txs
           THEN Shows(w, tx) \in {Shows(v, tx), m.height} \ {0}
           ELSE Shows(w, tx) = Shows(v, tx),
         Agree(c, v, todo, hi)
  PROVE  Agree(c, w, todo \ {m}, hi)
<1> SUFFICES ASSUME NEW tx \in Txs
             PROVE  /\ Shows(w, tx) \in 1..hi => tx \in c[Shows(w, tx)].txs
                    /\ \A h \in 1..hi : tx \in c[h].txs =>
                         /\ Shows(w, tx) \in {0, h}
                         /\ h >= w.low /\ (\A x \in todo \ {m} : x.height # h)
                              => Shows(w, tx) = h
  BY DEF Agree
<1>1. Shows(w, tx) \in 1..hi => tx \in c[Shows(w, tx)].txs
  BY DEF Agree
<1>2. ASSUME NEW h \in 1..hi, tx \in c[h].txs PROVE Shows(w, tx) \in {0, h}
  <2>1. tx \in m.block.txs => h = m.height
    BY <1>2 DEF Sound
  <2> QED BY <1>2, <2>1 DEF Agree
<1>3. ASSUME NEW h \in 1..hi, tx \in c[h].txs, h >= w.low,
             \A x \in todo \ {m} : x.height # h
      PROVE  Shows(w, tx) = h
  <2>1. CASE h = m.height
    <3>1. Shows(w, tx) # 0
      BY <1>3, <2>1
    <3> QED BY <1>2, <1>3, <3>1
  <2>2. CASE h # m.height
    <3>1. tx \notin m.block.txs
      BY <1>3, <2>2 DEF Sound
    <3>2. \A x \in todo : x.height # h
      BY <1>3, <2>2
    <3> QED BY <1>3, <3>1, <3>2 DEF Agree
  <2> QED BY <2>1, <2>2
<1> QED BY <1>1, <1>2, <1>3

(* A view that agrees with the chain up to a height that no reorganisation *)
(* reaches is good after it was rolled back to there.                      *)
LEMMA RollbackGood ==
  ASSUME NEW c, NEW deep \in Nat, NEW v, NEW to \in Nat, ViewOK(v), v.opened,
         Sound(c), Len(c) \in Nat, to <= Len(c), to <= deep,
         Agree(c, v, {}, to)
  PROVE  Good(c, deep, Rollback(v, to), {})
<1> DEFINE w == Rollback(v, to)
<1>1. /\ w.top = to /\ w.topHash = None /\ w.opened /\ w.low = v.low
      /\ w.paid = IF v.paid > to THEN 0 ELSE v.paid
      /\ w.spent = IF v.paid > to \/ v.spent > to THEN 0 ELSE v.spent
      /\ w.pending = IF v.pending > to THEN 0 ELSE v.pending
  BY DEF Rollback, ViewOK, IsView, FreshView
<1>2. /\ v.paid \in Nat /\ v.spent \in Nat /\ v.pending \in Nat
      /\ v.spent # 0 => v.paid # 0
      /\ v.paid # 0 => v.pending = 0
  BY Constants DEF ViewOK, IsView
<1> HIDE DEF w
<1>3. {w.paid, w.spent, w.pending} \subseteq 0..w.top
  BY <1>1, <1>2
<1>4. v.paid > to => \A h \in 1..to : Txs \cap c[h].txs = {}
  <2> SUFFICES ASSUME v.paid > to, NEW h \in 1..to, NEW tx \in Txs,
                      tx \in c[h].txs
               PROVE  FALSE
    OBVIOUS
  <2>1. "pays" \in Txs
    BY DEF Txs
  <2>2. \A k \in 1..to : "pays" \notin c[k].txs
    BY <1>2, <2>1 DEF Agree, Shows
  <2>3. tx = "spends"
    BY <2>2 DEF Txs
  <2>4. PICK k \in 1..h : "pays" \in c[k].txs
    BY <2>3 DEF Sound
  <2> QED BY <2>2, <2>4
<1>5. ASSUME NEW tx \in Txs, v.paid <= to
      PROVE  Shows(w, tx) = IF Shows(v, tx) > to THEN 0 ELSE Shows(v, tx)
  BY <1>1, <1>2, <1>5 DEF Shows, Txs
<1>6. ASSUME NEW tx \in Txs, v.paid > to PROVE Shows(w, tx) = 0
  BY <1>1, <1>2, <1>6 DEF Shows, Txs
<1>7. Agree(c, w, {}, to)
  <2>1. CASE v.paid > to
    BY <1>4, <1>6, <2>1 DEF Agree
  <2>2. CASE v.paid <= to
    <3> SUFFICES ASSUME NEW tx \in Txs
                 PROVE  /\ Shows(w, tx) \in 1..to => tx \in c[Shows(w, tx)].txs
                        /\ \A h \in 1..to : tx \in c[h].txs =>
                             /\ Shows(w, tx) \in {0, h}
                             /\ h >= w.low => Shows(w, tx) = h
      BY DEF Agree
    <3>1. /\ Shows(v, tx) \in 1..to => tx \in c[Shows(v, tx)].txs
          /\ \A h \in 1..to : tx \in c[h].txs =>
               /\ Shows(v, tx) \in {0, h}
               /\ h >= v.low => Shows(v, tx) = h
      BY DEF Agree
    <3>2. Shows(v, tx) \in Nat
      BY <1>2 DEF Shows
    <3> QED BY <1>1, <1>5, <2>2, <3>1, <3>2
  <2> QED BY <1>2, <2>1, <2>2
<1>8. Firm(w) = to
  BY <1>1 DEF Firm
<1> QED BY <1>1, <1>3, <1>7, <1>8 DEF Good, w

(* rollback keeps the types of a view.                                     *)
LEMMA RollbackOK ==
  ASSUME ChainOK, NEW v, NEW to \in Birthday..highest, ViewOK(v), v.opened
  PROVE  ViewOK(Rollback(v, to)) /\ Rollback(v, to).opened
         /\ Rollback(v, to).low = v.low /\ Rollback(v, to).top = to
<1> DEFINE w == Rollback(v, to)
<1>1. /\ DOMAIN w = DOMAIN FreshView
      /\ w.top = to /\ w.topHash = None /\ w.topFilter = None
      /\ w.opened = v.opened /\ w.done = v.done
      /\ w.low = v.low /\ w.lowHash = v.lowHash /\ w.lowFilter = v.lowFilter
      /\ w.paid = IF v.paid > to THEN 0 ELSE v.paid
      /\ w.spent = IF v.paid > to \/ v.spent > to THEN 0 ELSE v.spent
      /\ w.pending = IF v.pending > to THEN 0 ELSE v.pending
  BY DEF Rollback, ViewOK, IsView, FreshView
<1> HIDE DEF w
<1>2. to \in 0..MaxHeight /\ mined \in Nat
  BY Constants DEF ChainOK
<1>3. IsView(w)
  BY <1>1, <1>2 DEF ViewOK, IsView, Hashes, None
<1>4. ViewOK(w)
  BY <1>1, <1>3, Constants DEF ViewOK, IsView
<1> QED BY <1>1, <1>4 DEF w

(* What apply_txs sets.                                                    *)
LEMMA ApplyFields ==
  ASSUME NEW v, NEW txs, NEW h \in Nat \ {0}, ViewOK(v)
  PROVE  LET w == ApplyTxs(v, txs, h)
         IN  /\ DOMAIN w = DOMAIN FreshView
             /\ \A f \in DOMAIN FreshView :
                  f \notin {"paid", "spent", "pending"} => w[f] = v[f]
             /\ {w.paid, w.spent, w.pending} \subseteq
                  {v.paid, v.spent, v.pending, h}
             /\ w.spent # 0 => w.paid # 0
             /\ w.paid # 0 => w.pending = 0
             /\ \A tx \in Txs : IF tx \in txs
                                THEN Shows(w, tx) \in {Shows(v, tx), h} \ {0}
                                ELSE Shows(w, tx) = Shows(v, tx)
<1> DEFINE w == ApplyTxs(v, txs, h)
           p == IF "pays" \in txs /\ v.paid = 0
                THEN [v EXCEPT !.paid = h, !.spent = v.pending, !.pending = 0]
                ELSE v
<1>1. w = IF "spends" \notin txs THEN p
          ELSE IF p.paid = 0 THEN [p EXCEPT !.pending = h]
          ELSE IF p.spent = 0 THEN [p EXCEPT !.spent = h]
          ELSE p
  BY DEF ApplyTxs
<1>2. /\ DOMAIN v = DOMAIN FreshView
      /\ v.spent # 0 => v.paid # 0
      /\ v.paid # 0 => v.pending = 0
      /\ v.paid \in Nat /\ v.spent \in Nat /\ v.pending \in Nat
  BY Constants DEF ViewOK, IsView
<1>3. /\ DOMAIN p = DOMAIN FreshView
      /\ \A f \in DOMAIN FreshView :
           f \notin {"paid", "spent", "pending"} => p[f] = v[f]
      /\ p.paid = IF "pays" \in txs /\ v.paid = 0 THEN h ELSE v.paid
      /\ p.spent = IF "pays" \in txs /\ v.paid = 0 THEN v.pending ELSE v.spent
      /\ p.pending = IF "pays" \in txs /\ v.paid = 0 THEN 0 ELSE v.pending
  BY <1>2 DEF FreshView
<1> HIDE DEF p, w
<1>4. /\ DOMAIN w = DOMAIN FreshView
      /\ \A f \in DOMAIN FreshView :
           f \notin {"paid", "spent", "pending"} => w[f] = p[f]
      /\ w.paid = p.paid
      /\ w.spent = IF "spends" \in txs /\ p.paid # 0 /\ p.spent = 0
                   THEN h ELSE p.spent
      /\ w.pending = IF "spends" \in txs /\ p.paid = 0 THEN h ELSE p.pending
  <2>1. CASE "spends" \notin txs
    <3>1. w = p
      BY <1>1, <2>1
    <3> QED BY <1>3, <2>1, <3>1
  <2>2. CASE "spends" \in txs /\ p.paid = 0
    <3>1. w = [p EXCEPT !.pending = h]
      BY <1>1, <2>2
    <3> QED BY <1>3, <2>2, <3>1 DEF FreshView
  <2>3. CASE "spends" \in txs /\ p.paid # 0 /\ p.spent = 0
    <3>1. w = [p EXCEPT !.spent = h]
      BY <1>1, <2>3
    <3> QED BY <1>3, <2>3, <3>1 DEF FreshView
  <2>4. CASE "spends" \in txs /\ p.paid # 0 /\ p.spent # 0
    <3>1. w = p
      BY <1>1, <2>4
    <3> QED BY <1>3, <2>4, <3>1
  <2> QED BY <2>1, <2>2, <2>3, <2>4
<1>5. \A f \in DOMAIN FreshView :
        f \notin {"paid", "spent", "pending"} => w[f] = v[f]
  BY <1>3, <1>4
<1>6. /\ {w.paid, w.spent, w.pending} \subseteq {v.paid, v.spent, v.pending, h}
      /\ w.spent # 0 => w.paid # 0
      /\ w.paid # 0 => w.pending = 0
  BY <1>2, <1>3, <1>4
<1>7. ASSUME NEW tx \in Txs
      PROVE  IF tx \in txs THEN Shows(w, tx) \in {Shows(v, tx), h} \ {0}
             ELSE Shows(w, tx) = Shows(v, tx)
  BY <1>2, <1>3, <1>4 DEF Shows, Txs
<1>8. /\ DOMAIN w = DOMAIN FreshView
      /\ \A tx \in Txs : IF tx \in txs
                         THEN Shows(w, tx) \in {Shows(v, tx), h} \ {0}
                         ELSE Shows(w, tx) = Shows(v, tx)
  BY <1>4, <1>7
<1> QED BY <1>5, <1>6, <1>8 DEF w

-----------------------------------------------------------------------------
(* Facts about the chain.                                                  *)

(* What chain d may be once the chain was c: the same blocks up to deep,   *)
(* and below every block that was known.                                   *)
Follows(c, d, deep, known) ==
  /\ \A h \in 1..deep : h \in 1..Len(d) /\ d[h] = c[h]
  /\ \A h \in 1..Len(d) : d[h].hash <= known =>
       h \in 1..Len(c) /\ \A k \in 1..h : d[k] = c[k]

(* A good view stays good, whatever becomes of the chain.                  *)
LEMMA GoodFollows ==
  ASSUME NEW c, NEW d, NEW deep \in Nat, NEW deep2 \in Nat, deep <= deep2,
         NEW known \in Nat, Follows(c, d, deep, known), Len(c) \in Nat,
         Len(d) \in Nat, NEW v, NEW todo, v.topHash \in 0..known,
         v.opened => Firm(v) \in Nat, Good(c, deep, v, todo)
  PROVE  Good(d, deep2, v, todo)
<1>1. CASE ~v.opened
  BY <1>1 DEF Good
<1>2. CASE v.opened
  <2>1. /\ Firm(v) <= deep /\ Agree(c, v, todo, Firm(v))
        /\ InChain(c, v.topHash, v.top) => Agree(c, v, todo, v.top)
        /\ {v.paid, v.spent, v.pending} \subseteq 0..v.top
    BY <1>2 DEF Good
  <2>2. \A h \in 1..Firm(v) : d[h] = c[h]
    BY <1>2, <2>1 DEF Follows
  <2>3. Agree(d, v, todo, Firm(v))
    BY <2>1, <2>2, AgreeSame
  <2>4. ASSUME InChain(d, v.topHash, v.top) PROVE Agree(d, v, todo, v.top)
    <3>1. v.top \in 1..Len(c) /\ \A k \in 1..v.top : d[k] = c[k]
      BY <2>4 DEF InChain, Follows
    <3>2. InChain(c, v.topHash, v.top)
      BY <2>4, <3>1 DEF InChain
    <3> QED BY <2>1, <3>1, <3>2, AgreeSame
  <2>5. Firm(v) <= deep2
    BY <1>2, <2>1
  <2> QED BY <1>2, <2>1, <2>3, <2>4, <2>5 DEF Good
<1> QED BY <1>1, <1>2

(* The heights that bound what can be relied on.                           *)
LEMMA Heights ==
  ASSUME ChainOK
  PROVE  /\ Deep \in Nat /\ Tip \in Nat /\ highest \in Nat /\ mined \in Nat
         /\ Birthday <= Deep /\ Deep <= Tip /\ Tip <= highest
         /\ highest <= MaxHeight
         /\ \A top \in Birthday..highest : /\ Floor(top) \in Birthday..top
                                           /\ Floor(top) <= Deep
  BY Constants DEF ChainOK, Deep, Floor, Max2, Tip

(* A typed view is firm up to some height below its top.                   *)
LEMMA FirmLemma ==
  ASSUME ChainOK, NEW v, ViewOK(v), v.opened
  PROVE  /\ v.top \in Birthday..highest /\ v.top \in Nat
         /\ Firm(v) \in Nat /\ Firm(v) <= v.top
         /\ v.topHash \in 0..mined
<1>1. v.top \in Birthday..highest /\ v.topHash \in 0..mined
  BY DEF ViewOK, IsView, Hashes
<1>2. v.top \in Nat /\ Floor(v.top) \in Birthday..v.top
  BY <1>1, Constants, Heights
<1> QED BY <1>1, <1>2, Constants DEF Firm

(* Whatever becomes of the chain, the invariant is kept.                   *)
LEMMA ChainStepInv ==
  ASSUME Inv, ChainOK', Follows(chain, chain', Deep, mined),
         Deep <= Deep', mined <= mined', highest <= highest',
         UNCHANGED <<view, disk, pc, call, torn>>
  PROVE  Inv'
<1>1. /\ Deep \in Nat /\ Tip \in Nat /\ highest \in Nat /\ mined \in Nat
      /\ Deep <= Tip /\ Tip <= highest
      /\ \A top \in Birthday..highest : /\ Floor(top) \in Birthday..top
                                        /\ Floor(top) <= Deep
  BY Heights DEF Inv
<1>2. Deep' \in Nat /\ highest' \in Nat /\ mined' \in Nat
  <2>1. highest' \in Start..MaxHeight /\ mined' \in Nat
    BY DEF ChainOK
  <2>2. highest' \in Nat /\ highest' > ReorgWindow
    BY <2>1, Constants
  <2>3. Deep' = IF highest' - ReorgWindow > Birthday
                THEN highest' - ReorgWindow ELSE Birthday
    BY DEF Deep, Max2
  <2>4. PICK hh \in Nat : hh = highest'
    BY <2>2
  <2>5. hh > ReorgWindow /\ Deep' \in {hh - ReorgWindow, Birthday}
    BY <2>2, <2>3, <2>4
  <2>6. hh - ReorgWindow \in Nat
    BY <2>5, Constants
  <2>7. Deep' \in Nat
    BY <2>5, <2>6, Constants
  <2> QED BY <2>1, <2>2, <2>7
<1>3. Len(chain) \in Nat /\ Len(chain') \in Nat
  BY DEF Inv, ChainOK
<1>4. \A x \in 0..mined : x \in 0..mined'
  BY <1>1, <1>2
<1>5. \A x \in 1..mined : x \in 1..mined'
  BY <1>1, <1>2
<1>6. \A x \in Birthday..highest : x \in Birthday..highest'
  BY <1>1, <1>2, Constants
<1>7. ASSUME NEW v, ViewOK(v) PROVE ViewOK(v)'
  BY <1>4, <1>6, <1>7 DEF ViewOK, IsView, Hashes
<1>8. ASSUME NEW v, NEW todo, ViewOK(v), Good(chain, Deep, v, todo)
      PROVE  Good(chain', Deep', v, todo)
  <2>1. v.topHash \in 0..mined
    BY <1>8 DEF ViewOK, IsView, Hashes
  <2>2. v.opened => Firm(v) \in Nat
    BY <1>8, FirmLemma DEF Inv
  <2> QED BY <1>1, <1>2, <1>3, <1>8, <2>1, <2>2, GoodFollows
<1>9. ViewOK(view)' /\ ViewOK(disk)'
  BY <1>7 DEF Inv
<1>10. /\ ~torn' => Good(chain', Deep', disk', {})
       /\ ~torn' /\ ~call'.applied => Good(chain', Deep', view', {})
  BY <1>8 DEF Inv
<1>11. CallOK'
  <2>1. call.tip \in Birthday + 1..highest => call.tip \in Birthday + 1..highest'
    BY <1>1, <1>2, Constants
  <2>2. call.tipHash \in Hashes => call.tipHash \in Hashes'
    BY <1>4 DEF Hashes
  <2>3. call.headers \in Seq(Hashes) => call.headers \in Seq(Hashes')
    <3>1. Hashes \subseteq Hashes'
      BY <1>4 DEF Hashes
    <3> QED BY <3>1, SeqMonotonic
  <2> QED BY <2>1, <2>2, <2>3 DEF Inv, CallOK
<1>12. HeadersOK'
  <2> SUFFICES ASSUME pc = "filters", call.headers # <<None>>
               PROVE  /\ call.headers \in Seq(1..mined')
                      /\ Len(call.headers) = (To - From + 1)'
                      /\ ~torn => Linked'
    BY DEF HeadersOK
  <2>1. /\ call.headers \in Seq(1..mined)
        /\ Len(call.headers) = To - From + 1
        /\ ~torn => Linked
    BY DEF Inv, HeadersOK
  <2>2. /\ view.opened /\ view.top < call.tip /\ call.tip <= highest
        /\ view.top \in Birthday..highest /\ call.tip \in Nat
    BY Constants, <1>1 DEF Inv, CallOK, ViewOK, Walking
  <2>3. /\ From = view.top + 1 /\ To \in From..highest /\ From \in Nat
    BY <1>1, <2>2, Constants DEF From, To, Max2, Min2
  <2>4. Reach \in From..highest /\ Len(call.headers) \in 1..Len(call.headers)
        /\ Len(call.headers) \in Nat
    <3>1. Len(call.headers) \in Nat
      BY <2>1, LenProperties
    <3>2. PICK n \in Nat : n = Len(call.headers)
      BY <3>1
    <3>3. n = To - From + 1 /\ Reach = From + n - 1
      BY <2>1, <3>2 DEF Reach
    <3>4. n >= 1 /\ Reach = To
      BY <1>1, <2>3, <3>3
    <3> QED BY <2>3, <3>2, <3>4
  <2>5. From' = From /\ To' = To /\ Reach' = Reach
    BY DEF From, To, Reach
  <2>6. ASSUME ~torn PROVE Linked'
    <3> DEFINE last == call.headers[Len(call.headers)]
    <3>1. last <= mined
      BY <1>1, <2>1, <2>4
    <3>2. ASSUME InChain(chain', last, Reach) PROVE Agree(chain', view, {}, view.top)
      <4>1. Reach \in 1..Len(chain) /\ \A k \in 1..Reach : chain'[k] = chain[k]
        BY <3>1, <3>2 DEF InChain, Follows
      <4>2. InChain(chain, last, Reach)
        BY <3>2, <4>1 DEF InChain
      <4>3. \A k \in 1..view.top : chain'[k] = chain[k]
        BY <2>2, <2>3, <2>4, <4>1, Constants
      <4> QED BY <2>1, <2>6, <4>2, <4>3, AgreeSame DEF Linked
    <3> DEFINE lo == Min2(view.top, Floor(Reach))
    <3>3. lo \in Nat /\ lo <= Deep
      <4>1. Reach \in Birthday..highest
        BY <1>1, <2>2, <2>3, <2>4, Constants
      <4>2. Floor(Reach) \in Nat /\ Floor(Reach) <= Deep
        BY <1>1, <4>1, Constants
      <4> QED BY <1>1, <2>2, <4>2, Constants DEF Min2
    <3> HIDE DEF lo
    <3>4. \A k \in 1..lo : chain'[k] = chain[k]
      BY <1>1, <3>3 DEF Follows
    <3>5. Agree(chain, view, {}, lo)
      BY <2>1, <2>6 DEF Linked, lo
    <3>6. Agree(chain', view, {}, lo)
      BY <3>4, <3>5, AgreeSame
    <3> QED BY <2>5, <3>2, <3>6 DEF Linked, lo, Floor
  <2>7. call.headers \in Seq(1..mined')
    <3>1. 1..mined \subseteq 1..mined'
      BY <1>5
    <3> QED BY <2>1, <3>1, SeqMonotonic
  <2> QED BY <2>1, <2>5, <2>6, <2>7
<1>13. BatchOK'
  <2> SUFFICES ASSUME pc = "blocks" PROVE BatchOK'
    BY DEF BatchOK
  <2>1. PICK v : v = Moved(view, call.cursor)
    OBVIOUS
  <2>2. /\ DOMAIN call.cursor \cap Entries = {}
        /\ ViewOK(v) /\ v.opened /\ v.low <= call.tip
        /\ \A m \in call.todo : IsTodo(m)
        /\ ~torn => Good(chain, Deep, v, call.todo)
    BY <2>1 DEF Inv, BatchOK
  <2>3. ViewOK(v)' /\ (~torn => Good(chain', Deep', v, call.todo))
    BY <1>7, <1>8, <2>2
  <2>4. ASSUME NEW m \in call.todo PROVE IsTodo(m)'
    <3>1. IsTodo(m)
      BY <2>2
    <3>2. m.block \in Blocks' /\ m.block.hash <= mined
      BY <1>1, <1>5, <3>1 DEF IsTodo, Fetchable, Blocks
    <3>3. ASSUME InChain(chain', m.block.hash, m.height)
          PROVE  chain'[m.height] = m.block
      <4>1. /\ m.height \in 1..Len(chain)
            /\ \A k \in 1..m.height : chain'[k] = chain[k]
        BY <3>2, <3>3 DEF InChain, Follows
      <4> QED BY <3>1, <3>3, <4>1 DEF IsTodo, Fetchable, InChain
    <3> QED BY <3>1, <3>2, <3>3 DEF IsTodo, Fetchable
  <2>5. v = Moved(view, call.cursor)'
    BY <2>1
  <2> QED BY <2>2, <2>3, <2>4, <2>5 DEF BatchOK
<1> QED BY <1>9, <1>10, <1>11, <1>12, <1>13 DEF Inv

-----------------------------------------------------------------------------
(* The steps of the chain.                                                 *)

LEMMA MineInv ==
  ASSUME Inv, NEW txs \in SUBSET Txs, Mine(txs)
  PROVE  Inv'
<1>1. PICK b : b = Block(mined + 1, txs)
  OBVIOUS
<1>2. PICK n \in Nat : n = Len(chain)
  BY DEF Inv, ChainOK
<1>3. /\ n < MaxHeight /\ Sound(chain') /\ chain' = Append(chain, b)
      /\ mined' = mined + 1 /\ highest' = Max2(highest, n + 1)
      /\ UNCHANGED <<view, disk, pc, call, torn>>
  BY <1>1, <1>2 DEF Mine, Tip
<1>4. /\ Deep \in Nat /\ highest \in Start..MaxHeight /\ highest \in Nat
      /\ mined \in Nat /\ Deep <= n /\ n <= highest /\ chain \in Seq(Blocks)
      /\ Deep = Max2(highest - ReorgWindow, Birthday)
  BY <1>2, Constants, Heights DEF Inv, ChainOK, Tip, Deep
<1>5. /\ Len(chain') = n + 1 /\ chain'[n + 1] = b
      /\ \A h \in 1..n : chain'[h] = chain[h]
  BY <1>2, <1>3, <1>4
<1>6. chain' \in Seq(Blocks')
  <2>1. Blocks \subseteq Blocks'
    BY <1>3, <1>4 DEF Blocks
  <2>2. b \in Blocks'
    BY <1>1, <1>3, <1>4 DEF Blocks, Block
  <2>3. chain \in Seq(Blocks')
    BY <1>4, <2>1, SeqMonotonic
  <2> QED BY <1>3, <2>2, <2>3
<1>7. PICK hh \in Nat : hh = highest'
  BY <1>3, <1>4 DEF Max2
<1>8. /\ hh \in Start..MaxHeight /\ n + 1 <= hh /\ highest <= hh
      /\ (hh = highest \/ hh = n + 1)
  BY <1>3, <1>4, <1>7, Constants DEF Max2
<1>9. Deep' = Max2(hh - ReorgWindow, Birthday)
  BY <1>7 DEF Deep
<1>10. Deep <= Deep' /\ Deep' <= n + 1 /\ Deep' \in Nat
  BY <1>4, <1>8, <1>9, Constants DEF Max2
<1>11. ChainOK'
  <2>1. Tip' = n + 1
    BY <1>5 DEF Tip
  <2>2. mined' \in Nat
    BY <1>3, <1>4
  <2>3. n + 1 \in Deep'..hh
    BY <1>8, <1>10
  <2> QED BY <1>3, <1>6, <1>7, <1>8, <2>1, <2>2, <2>3 DEF ChainOK
<1>12. Follows(chain, chain', Deep, mined)
  <2>1. b.hash = mined + 1
    BY <1>1 DEF Block
  <2>2. ASSUME NEW h \in 1..Deep PROVE h \in 1..Len(chain') /\ chain'[h] = chain[h]
    BY <1>4, <1>5
  <2>3. ASSUME NEW h \in 1..Len(chain'), chain'[h].hash <= mined
        PROVE  h \in 1..Len(chain) /\ \A k \in 1..h : chain'[k] = chain[k]
    <3>1. h # n + 1
      BY <1>4, <1>5, <2>1, <2>3
    <3> QED BY <1>2, <1>5, <3>1
  <2> QED BY <2>2, <2>3 DEF Follows
<1>13. mined <= mined' /\ highest <= highest'
  BY <1>3, <1>4, <1>7, <1>8
<1> QED BY <1>3, <1>10, <1>11, <1>12, <1>13, ChainStepInv

LEMMA ReorgInv ==
  ASSUME Inv, NEW k \in 1..Tip, Reorg(k)
  PROVE  Inv'
<1>1. PICK n \in Nat : n = Len(chain)
  BY DEF Inv, ChainOK
<1>2. /\ k \in Nat /\ k < n /\ k >= Birthday /\ k + ReorgWindow >= highest
      /\ chain' = SubSeq(chain, 1, k)
      /\ UNCHANGED <<mined, highest, view, disk, pc, call, torn>>
  BY <1>1 DEF Reorg, Tip
<1>3. /\ Deep \in Nat /\ highest \in Start..MaxHeight /\ highest \in Nat
      /\ mined \in Nat /\ Deep <= n /\ n <= highest /\ chain \in Seq(Blocks)
      /\ Deep = Max2(highest - ReorgWindow, Birthday)
  BY <1>1, Constants, Heights DEF Inv, ChainOK, Tip, Deep
<1>4. /\ chain' \in Seq(Blocks) /\ Len(chain') = k
      /\ \A h \in 1..k : chain'[h] = chain[h]
  BY <1>1, <1>2, <1>3, SubSeqProperties
<1>5. Deep' = Deep /\ Deep <= k
  BY <1>2, <1>3, Constants DEF Deep, Max2
<1>6. Sound(chain')
  <2>1. Sound(chain)
    BY DEF Inv, ChainOK
  <2>2. \A h \in 1..k : h \in 1..Len(chain) /\ chain'[h] = chain[h]
    BY <1>1, <1>2, <1>4
  <2>3. \A tx \in Txs, h, j \in 1..k :
          tx \in chain'[h].txs /\ tx \in chain'[j].txs => h = j
    BY <2>1, <2>2 DEF Sound
  <2>4. ASSUME NEW h \in 1..k, "spends" \in chain'[h].txs
        PROVE  \E j \in 1..h : "pays" \in chain'[j].txs
    <3>1. PICK j \in 1..h : "pays" \in chain[j].txs
      BY <2>1, <2>2, <2>4 DEF Sound
    <3>2. j \in 1..k
      BY <1>2
    <3> QED BY <2>2, <3>1, <3>2
  <2>5. \A h \in 1..k : chain'[h].txs # {} => h >= Birthday
    BY <2>1, <2>2 DEF Sound
  <2> QED BY <1>4, <2>3, <2>4, <2>5 DEF Sound
<1>7. ChainOK'
  <2>1. Tip' = k /\ k \in Deep..highest
    BY <1>2, <1>3, <1>4, <1>5 DEF Tip
  <2>2. Blocks' = Blocks
    BY <1>2 DEF Blocks
  <2> QED BY <1>2, <1>3, <1>4, <1>5, <1>6, <2>1, <2>2 DEF ChainOK
<1>8. Follows(chain, chain', Deep, mined)
  BY <1>1, <1>2, <1>3, <1>4, <1>5 DEF Follows
<1>9. Deep <= Deep' /\ mined <= mined' /\ highest <= highest'
  BY <1>2, <1>3, <1>5
<1> QED BY <1>2, <1>7, <1>8, <1>9, ChainStepInv

-----------------------------------------------------------------------------
(* What a step of the wallet comes down to: the chain stays.               *)

(* The call is over.                                                       *)
LEMMA RestInv ==
  ASSUME Inv, UNCHANGED network, pc' = "idle", call'.applied = FALSE,
         DOMAIN call' = DOMAIN NoCall,
         NEW w, view' = w, disk' = w, ViewOK(w), torn' \in BOOLEAN,
         ~torn' => Good(chain, Deep, w, {})
  PROVE  Inv'
<1>1. ChainOK' /\ Deep' = Deep /\ ViewOK(w)'
  BY DEF Inv, ChainOK, network, Tip, Deep, Blocks, ViewOK, IsView, Hashes
<1>2. CallOK' /\ HeadersOK' /\ BatchOK'
  BY DEF CallOK, HeadersOK, BatchOK, Walking
<1> QED BY <1>1, <1>2 DEF Inv, network

(* The walk goes on.                                                       *)
LEMMA OnwardInv ==
  ASSUME Inv, UNCHANGED <<network, torn>>, NEW w, NEW c, NEW d,
         view' = w, call' = c, disk' = d, ViewOK(w), ViewOK(d), w.opened,
         pc' \in {"check", Onward(w, c)}, w.low <= c.tip,
         c.tip \in Birthday + 1..highest, c.tipHash \in Hashes,
         c.applied = FALSE, DOMAIN c = DOMAIN NoCall,
         ~torn => Good(chain, Deep, w, {}) /\ Good(chain, Deep, d, {})
  PROVE  Inv'
<1>1. ChainOK' /\ Deep' = Deep /\ ViewOK(w)' /\ ViewOK(d)' /\ Hashes' = Hashes
  BY DEF Inv, ChainOK, network, Tip, Deep, Blocks, ViewOK, IsView, Hashes
<1>2. /\ pc' \in {"check", "forward", "down", "end"}
      /\ pc' = "forward" => w.top < c.tip
      /\ pc' = "down" => w.top >= c.tip
  BY DEF Onward
<1>3. CallOK'
  BY <1>1, <1>2 DEF Inv, CallOK, Walking, network
<1>4. HeadersOK' /\ BatchOK'
  BY <1>2 DEF HeadersOK, BatchOK
<1> QED BY <1>1, <1>3, <1>4 DEF Inv, network

(* The blocks of a batch are next.                                         *)
LEMMA FetchInv ==
  ASSUME Inv, NEW todo, NEW cursor, Fetch(todo, cursor),
         pc \in {"open", "filters", "down", "downFilters"},
         NEW v, v = Moved(view, cursor), ViewOK(v), v.opened,
         DOMAIN cursor \cap Entries = {}, v.low <= call.tip,
         \A m \in todo : Fetchable(m, v.top),
         ~torn => Good(chain, Deep, v, todo)
  PROVE  Inv'
<1>1. /\ pc' = "blocks" /\ UNCHANGED <<network, view, disk, torn>>
      /\ call'.tip = call.tip /\ call'.tipHash = call.tipHash
      /\ call'.todo = todo /\ call'.cursor = cursor
      /\ call'.applied = call.applied /\ DOMAIN call' = DOMAIN NoCall
  BY DEF Fetch, Inv, CallOK, NoCall
<1>2. ChainOK' /\ Deep' = Deep /\ ViewOK(v)' /\ ViewOK(view)' /\ ViewOK(disk)'
      /\ Hashes' = Hashes /\ Blocks' = Blocks /\ chain' = chain
      /\ highest' = highest
  BY <1>1 DEF Inv, ChainOK, network, Tip, Deep, Blocks, ViewOK, IsView, Hashes
<1>3. CallOK'
  BY <1>1, <1>2 DEF Inv, CallOK, Walking
<1>4. HeadersOK'
  BY <1>1 DEF HeadersOK
<1>5. v = Moved(view, call.cursor)'
  BY <1>1 DEF Moved
<1>6. \A m \in todo : IsTodo(m)'
  BY <1>2, <1>5 DEF IsTodo, Fetchable
<1>7. BatchOK'
  BY <1>1, <1>2, <1>5, <1>6 DEF BatchOK
<1> QED BY <1>1, <1>2, <1>3, <1>4, <1>7 DEF Inv

-----------------------------------------------------------------------------
(* One lemma for each step of the wallet.                                  *)

(* A call that ends, well or not.                                          *)
LEMMA OverInv ==
  ASSUME Inv, Over, UNCHANGED network
  PROVE  Inv'
<1>1. PICK w : w = view
  OBVIOUS
<1>2. /\ pc' = "idle" /\ call' = NoCall /\ view' = w /\ disk' = w
      /\ torn' = (torn \/ call.applied) /\ ViewOK(w)
  BY <1>1 DEF Over, Saved, Inv
<1>3. call'.applied = FALSE /\ DOMAIN call' = DOMAIN NoCall
  BY <1>2 DEF NoCall
<1>4. torn' \in BOOLEAN /\ (~torn' => Good(chain, Deep, w, {}))
  BY <1>1, <1>2 DEF Inv, CallOK
<1> QED BY <1>2, <1>3, <1>4, RestInv

LEMMA FailedInv ==
  ASSUME Inv, Failed
  PROVE  Inv'
  BY OverInv DEF Failed

LEMMA FailInv ==
  ASSUME Inv, Fail
  PROVE  Inv'
  BY OverInv DEF Fail

LEMMA PageClosedInv ==
  ASSUME Inv, PageClosed
  PROVE  Inv'
<1>1. PICK w : w = disk
  OBVIOUS
<1>2. /\ pc' = "idle" /\ call' = NoCall /\ view' = w /\ disk' = w
      /\ torn' = torn /\ UNCHANGED network /\ ViewOK(w)
  BY <1>1 DEF PageClosed, Inv
<1>3. call'.applied = FALSE /\ DOMAIN call' = DOMAIN NoCall
  BY <1>2 DEF NoCall
<1>4. torn' \in BOOLEAN /\ (~torn' => Good(chain, Deep, w, {}))
  BY <1>1, <1>2 DEF Inv, CallOK
<1> QED BY <1>2, <1>3, <1>4, RestInv

(* A new view is sound.                                                    *)
LEMMA FreshGood ==
  ASSUME ChainOK
  PROVE  ViewOK(FreshView) /\ Good(chain, Deep, FreshView, {})
<1>1. mined \in Nat /\ MaxHeight \in Nat
  BY Constants DEF ChainOK
<1>2. Good(chain, Deep, FreshView, {})
  BY DEF Good, FreshView
<1>3. IsView(FreshView)
  BY <1>1 DEF IsView, FreshView, Hashes, None
<1> QED BY <1>2, <1>3 DEF ViewOK, FreshView

LEMMA RebuildInv ==
  ASSUME Inv, Rebuild
  PROVE  Inv'
<1>1. PICK w : w = FreshView
  OBVIOUS
<1>2. /\ pc' = "idle" /\ call' = call /\ view' = w /\ disk' = w
      /\ torn' = FALSE /\ UNCHANGED network /\ pc = "idle"
  BY <1>1 DEF Rebuild, Saved
<1>3. call'.applied = FALSE /\ DOMAIN call' = DOMAIN NoCall
  BY <1>2 DEF Inv, CallOK
<1>4. ViewOK(w) /\ Good(chain, Deep, w, {})
  BY <1>1, FreshGood DEF Inv
<1> QED BY <1>2, <1>3, <1>4, RestInv

(* A good view agrees with the chain as far as reorg_check would keep it.  *)
LEMMA GoodFirm ==
  ASSUME ChainOK, NEW v, ViewOK(v), v.opened, Good(chain, Deep, v, {})
  PROVE  /\ Floor(v.top) \in Nat /\ Floor(v.top) <= Deep
         /\ Agree(chain, v, {}, Floor(v.top))
<1>1. /\ Firm(v) <= Deep /\ Agree(chain, v, {}, Firm(v)) /\ Firm(v) \in Nat
      /\ v.top \in Birthday..highest /\ v.top \in Nat
  BY FirmLemma DEF Good
<1>2. Floor(v.top) \in Birthday..v.top /\ Floor(v.top) <= Deep
  BY <1>1, Heights
<1>3. Floor(v.top) \in Nat /\ Floor(v.top) <= Firm(v)
  BY <1>1, <1>2, Constants DEF Firm
<1> QED BY <1>1, <1>2, <1>3, AgreeLess

(* A good view stays good when it is rolled back far enough.               *)
LEMMA RollbackFar ==
  ASSUME ChainOK, NEW v, ViewOK(v), v.opened, Good(chain, Deep, v, {}),
         NEW to \in Nat, to <= Floor(v.top)
  PROVE  Good(chain, Deep, Rollback(v, to), {})
<1>1. /\ Floor(v.top) \in Nat /\ Floor(v.top) <= Deep
      /\ Agree(chain, v, {}, Floor(v.top))
  BY GoodFirm
<1>2. Agree(chain, v, {}, to)
  BY <1>1, AgreeLess
<1>3. /\ Deep \in Nat /\ Len(chain) \in Nat /\ Deep <= Len(chain)
      /\ Sound(chain)
  BY Heights DEF Tip, ChainOK
<1>4. to <= Deep /\ to <= Len(chain)
  BY <1>1, <1>3
<1> QED BY <1>2, <1>3, <1>4, RollbackGood

LEMMA RewalkInv ==
  ASSUME Inv, NEW h \in 1..disk.top, Rewalk(h)
  PROVE  Inv'
<1>1. PICK w : w = Rollback(disk, h - 1)
  OBVIOUS
<1>2. /\ pc' = "idle" /\ call' = call /\ view' = w /\ disk' = w
      /\ torn' = (torn \/ h - 1 > disk.top - ReorgWindow)
      /\ UNCHANGED network /\ pc = "idle" /\ h > Birthday /\ disk.top >= h
  BY <1>1 DEF Rewalk, Saved
<1>3. call'.applied = FALSE /\ DOMAIN call' = DOMAIN NoCall
  BY <1>2 DEF Inv, CallOK
<1>4. ViewOK(disk) /\ disk.opened /\ disk.top \in Birthday..highest
  BY <1>2, Constants DEF Inv, ViewOK
<1>5. /\ h - 1 \in Nat /\ h - 1 \in Birthday..highest
      /\ disk.top \in Nat /\ highest \in Nat
  BY <1>2, <1>4, Constants DEF Inv, ChainOK
<1>6. ViewOK(w)
  BY <1>1, <1>4, <1>5, RollbackOK DEF Inv
<1>7. torn' \in BOOLEAN
  BY <1>2 DEF Inv, CallOK
<1>8. ASSUME ~torn' PROVE Good(chain, Deep, w, {})
  <2>1. ~torn /\ h - 1 <= disk.top - ReorgWindow
    <3>1. ~torn /\ ~(h - 1 > disk.top - ReorgWindow)
      BY <1>2, <1>8
    <3>2. disk.top - ReorgWindow \in Int
      BY <1>5, Constants
    <3> QED BY <1>5, <3>1, <3>2
  <2>2. h - 1 <= Floor(disk.top)
    BY <1>5, <2>1, Constants DEF Floor, Max2
  <2>3. Good(chain, Deep, disk, {})
    BY <2>1 DEF Inv
  <2> QED BY <1>1, <1>4, <1>5, <2>2, <2>3, RollbackFar DEF Inv
<1> QED BY <1>2, <1>3, <1>6, <1>7, <1>8, RestInv

(* The node serves only when it has the highest block known.               *)
LEMMA ServingTip ==
  ASSUME ChainOK, Serving
  PROVE  /\ Tip = highest /\ Tip = Len(chain) /\ Tip \in Nat /\ Tip > Birthday
         /\ \A h \in 1..Tip : chain[h].hash \in 1..mined /\ chain[h] \in Blocks
         /\ \A h \in 1..Tip : chain[h].hash \in Hashes
         /\ mined \in Nat
<1>1. Tip = highest /\ Tip = Len(chain) /\ Tip \in Nat /\ Tip > Birthday
  BY Heights, Constants DEF Serving, Tip, ChainOK
<1>2. \A h \in 1..Tip : chain[h] \in Blocks
  BY <1>1 DEF ChainOK
<1>3. mined \in Nat
  BY DEF ChainOK
<1> QED BY <1>1, <1>2, <1>3 DEF Blocks, Hashes

LEMMA BeginInv ==
  ASSUME Inv, NEW daily \in BOOLEAN, Begin(daily)
  PROVE  Inv'
<1>1. PICK to : to = Max2(IF Tip > TailVerify THEN Tip - TailVerify ELSE 0, Birthday)
  OBVIOUS
<1>2. PICK w : w = IF daily THEN Rollback(disk, to) ELSE disk
  OBVIOUS
<1>3. PICK c : c = [NoCall EXCEPT !.tip = Tip, !.tipHash = chain[Tip].hash]
  OBVIOUS
<1>4. PICK d : d = IF daily THEN w ELSE disk
  OBVIOUS
<1>5. /\ pc = "idle" /\ Serving /\ view' = w /\ disk' = d /\ call' = c
      /\ daily => disk.opened /\ disk.top >= Tip
      /\ pc' = IF w.top = 0 \/ ~w.opened THEN "open" ELSE "check"
      /\ UNCHANGED <<network, torn>>
  BY <1>1, <1>2, <1>3, <1>4 DEF Begin, Saved
<1>6. /\ Tip = highest /\ Tip \in Nat /\ Tip > Birthday /\ highest \in Nat
      /\ chain[Tip].hash \in Hashes
  BY <1>5, ServingTip, Constants DEF Inv
<1>7. /\ DOMAIN c = DOMAIN NoCall /\ c.tip = Tip /\ c.tipHash = chain[Tip].hash
      /\ c.applied = FALSE
  BY <1>3 DEF NoCall
<1>8. to \in Birthday..highest /\ to \in Nat
  BY <1>1, <1>6, Constants DEF Max2
<1>9. /\ ViewOK(disk) /\ ViewOK(w) /\ ViewOK(d)
      /\ daily => w.opened
  BY <1>2, <1>4, <1>5, <1>8, RollbackOK DEF Inv
<1>10. ~torn => Good(chain, Deep, w, {}) /\ Good(chain, Deep, d, {})
  <2>1. CASE ~daily
    BY <1>2, <1>4, <2>1 DEF Inv
  <2>2. CASE daily
    <3>1. disk.top = highest
      BY <1>5, <1>6, <1>9, <2>2, Constants DEF ViewOK
    <3>2. to <= Floor(disk.top)
      BY <1>1, <1>6, <3>1, Constants DEF Floor, Max2
    <3> QED BY <1>2, <1>4, <1>5, <1>8, <1>9, <2>2, <3>2, RollbackFar DEF Inv
  <2> QED BY <2>1, <2>2
<1>11. w.top = 0 => ~w.opened
  BY <1>9, Constants DEF ViewOK
<1>12. w.low <= c.tip
  BY <1>6, <1>7, <1>9, Constants DEF ViewOK
<1>13. CASE w.opened
  <2>1. pc' = "check"
    BY <1>5, <1>11, <1>13
  <2>2. c.tip \in Birthday + 1..highest /\ c.tipHash \in Hashes
    BY <1>6, <1>7, Constants
  <2> QED BY <1>5, <1>7, <1>9, <1>10, <1>12, <1>13, <2>1, <2>2, OnwardInv
<1>14. CASE ~w.opened
  <2>1. ChainOK' /\ Deep' = Deep /\ ViewOK(w)' /\ ViewOK(d)' /\ Hashes' = Hashes
        /\ highest' = highest /\ torn' = torn /\ chain' = chain
    BY <1>5, <1>9 DEF Inv, ChainOK, network, Tip, Deep, Blocks, ViewOK, IsView,
       Hashes
  <2>2. pc' = "open"
    BY <1>5, <1>14
  <2>3. c.tip \in Birthday + 1..highest
    BY <1>6, <1>7, Constants
  <2>4. CallOK'
    BY <1>5, <1>6, <1>7, <1>12, <1>14, <2>1, <2>2, <2>3 DEF Inv, CallOK, Walking
  <2>5. HeadersOK' /\ BatchOK'
    BY <2>2 DEF HeadersOK, BatchOK
  <2> QED BY <1>5, <1>7, <1>10, <2>1, <2>4, <2>5 DEF Inv
<1> QED BY <1>9, <1>13, <1>14 DEF ViewOK, IsView

LEMMA CheckInv ==
  ASSUME Inv, Check
  PROVE  Inv'
<1>1. PICK w : w = ReorgCheck(view)
  OBVIOUS
<1>2. PICK d : d = disk
  OBVIOUS
<1>3. PICK c : c = call
  OBVIOUS
<1>4. /\ view' = w /\ disk' = d /\ call' = c /\ pc' = Onward(w, c) /\ pc = "check"
      /\ UNCHANGED <<network, torn>>
  BY <1>1, <1>2, <1>3 DEF Check
<1>5. /\ ViewOK(view) /\ view.opened /\ ViewOK(d) /\ view.low <= c.tip
      /\ c.tip \in Birthday + 1..highest /\ c.tipHash \in Hashes
      /\ c.applied = FALSE /\ DOMAIN c = DOMAIN NoCall
      /\ ~torn => Good(chain, Deep, view, {}) /\ Good(chain, Deep, d, {})
  BY <1>2, <1>3, <1>4 DEF Inv, CallOK, Walking
<1>6. w = view \/ w = Rollback(view, Floor(view.top))
  BY <1>1 DEF ReorgCheck, Floor
<1>7. view.top \in Birthday..highest /\ view.top \in Nat
      /\ Floor(view.top) \in Birthday..highest /\ Floor(view.top) \in Nat
  BY <1>5, FirmLemma, Heights, Constants DEF Inv
<1>8. ViewOK(w) /\ w.opened /\ w.low <= c.tip
  BY <1>5, <1>6, <1>7, RollbackOK DEF Inv
<1>9. ~torn => Good(chain, Deep, w, {})
  BY <1>5, <1>6, <1>7, RollbackFar DEF Inv
<1> QED BY <1>4, <1>5, <1>8, <1>9, OnwardInv

(* What the node answers.                                                  *)
LEMMA AnswerLemma ==
  ASSUME ChainOK, Serving, NEW from \in Nat, NEW to \in Nat,
         from >= 1, from <= to, to <= Tip
  PROVE  LET a == Answer(from, to)
         IN  /\ Len(a) = to - from + 1
             /\ \A i \in 1..to - from + 1 : a[i] = chain[from + i - 1]
             /\ Ids(a) \in Seq(1..mined) /\ Len(Ids(a)) = to - from + 1
             /\ \A i \in 1..to - from + 1 : Ids(a)[i] = chain[from + i - 1].hash
<1>1. /\ Tip = Len(chain) /\ Tip \in Nat /\ chain \in Seq(Blocks)
      /\ \A h \in 1..Tip : chain[h].hash \in 1..mined
  BY ServingTip DEF ChainOK
<1>2. PICK a : a = Answer(from, to)
  OBVIOUS
<1>3. a = SubSeq(chain, from, to)
  BY <1>1, <1>2 DEF Answer, Min2
<1>4. PICK n \in Nat : n = to - from + 1
  OBVIOUS
<1>5. /\ from \in 1..to + 1 /\ to \in 0..Len(chain)
  BY <1>1
<1>6. /\ Len(a) = n /\ \A i \in 1..n : a[i] = chain[from + i - 1]
  BY <1>1, <1>3, <1>4, <1>5, SubSeqProperties
<1>7. \A i \in 1..n : from + i - 1 \in 1..Tip
  BY <1>1, <1>4
<1>8. Ids(a) = [i \in 1..n |-> a[i].hash]
  BY <1>6 DEF Ids
<1>9. Ids(a) \in [1..n -> 1..mined]
  BY <1>1, <1>6, <1>7, <1>8
<1>10. Ids(a) \in Seq(1..mined) /\ Len(Ids(a)) = n
  BY <1>8, <1>9, SeqDef, LenProperties
<1>11. \A i \in 1..n : Ids(a)[i] = chain[from + i - 1].hash
  BY <1>6, <1>8
<1> QED BY <1>2, <1>4, <1>6, <1>10, <1>11

(* The n blocks of the chain from a height on.                             *)
Excerpt(blocks, from, n) ==
  Len(blocks) = n /\ \A i \in 1..n : blocks[i] = chain[from + i - 1]

(* The blocks of an answer that match can be fetched, and are all that     *)
(* have a transaction.                                                     *)
LEMMA MatchedLemma ==
  ASSUME ChainOK, Serving, NEW from \in Nat, NEW n \in Nat, from >= Birthday,
         from + n - 1 <= Tip, NEW blocks, Excerpt(blocks, from, n),
         NEW top \in Nat, from + n - 1 <= top
  PROVE  /\ \A m \in Matched(from, blocks) : Fetchable(m, top)
         /\ \A h \in from..from + n - 1 : chain[h].txs # {} =>
              \E m \in Matched(from, blocks) : m.height = h
<1>1. Tip \in Nat /\ \A h \in 1..Tip : chain[h] \in Blocks
  BY ServingTip
<1>2. ASSUME NEW m \in Matched(from, blocks) PROVE Fetchable(m, top)
  <2>1. PICK i \in 1..n : m = [height |-> from + i - 1, block |-> blocks[i]]
    BY DEF Matched, Excerpt
  <2>2. m.height = from + i - 1 /\ m.block = chain[from + i - 1]
    BY <2>1 DEF Excerpt
  <2>3. from + i - 1 \in Birthday..top /\ from + i - 1 \in 1..Tip
    BY <1>1, Constants
  <2>4. m.block \in Blocks /\ chain[m.height] = m.block
    BY <1>1, <2>2, <2>3
  <2>5. m = [height |-> m.height, block |-> m.block]
    BY <2>1
  <2> QED BY <2>2, <2>3, <2>4, <2>5 DEF Fetchable
<1>3. ASSUME NEW h \in from..from + n - 1, chain[h].txs # {}
      PROVE  \E m \in Matched(from, blocks) : m.height = h
  <2>1. PICK i \in 1..n : h = from + i - 1
    <3>1. h - from + 1 \in 1..n /\ h = from + (h - from + 1) - 1
      OBVIOUS
    <3> QED BY <3>1
  <2>2. blocks[i].txs # {}
    BY <1>3, <2>1 DEF Excerpt
  <2>3. [height |-> from + i - 1, block |-> blocks[i]] \in Matched(from, blocks)
    BY <2>2 DEF Matched, Excerpt
  <2> QED BY <2>1, <2>3
<1> QED BY <1>2, <1>3

(* Where a batch upwards lies.                                             *)
LEMMA Upwards ==
  ASSUME Inv, Serving, pc \in {"forward", "filters"}
  PROVE  /\ ViewOK(view) /\ view.opened /\ view.top \in Birthday..highest
         /\ view.top \in Nat /\ From = view.top + 1 /\ From \in Nat /\ To \in Nat
         /\ From <= To /\ To <= Tip /\ To <= call.tip /\ call.applied = FALSE
         /\ call.tip \in Birthday + 1..highest /\ view.low <= call.tip
         /\ DOMAIN call = DOMAIN NoCall /\ torn \in BOOLEAN
         /\ call.tipHash \in Hashes
         /\ Reach = From + Len(call.headers) - 1
         /\ Tip = highest /\ Tip \in Nat
<1>1. /\ ViewOK(view) /\ view.opened /\ call.tip \in Birthday + 1..highest
      /\ view.top < call.tip /\ view.low <= call.tip /\ call.applied = FALSE
      /\ DOMAIN call = DOMAIN NoCall /\ torn \in BOOLEAN /\ call.tipHash \in Hashes
  BY DEF Inv, CallOK, Walking
<1>2. view.top \in Birthday..highest /\ view.top \in Nat
  BY <1>1, FirmLemma DEF Inv
<1>3. Tip = highest /\ Tip \in Nat
  BY ServingTip DEF Inv
<1>4. call.tip \in Nat /\ call.tip <= Tip
  BY <1>1, <1>3, Constants
<1>5. From = view.top + 1 /\ From \in Nat
  BY <1>2, Constants DEF From, Max2
<1>6. To \in Nat /\ From <= To /\ To <= call.tip
  BY <1>1, <1>4, <1>5, <1>2, Constants DEF To, Min2
<1> QED BY <1>1, <1>2, <1>3, <1>4, <1>5, <1>6 DEF Reach

LEMMA ForwardHeadersInv ==
  ASSUME Inv, ForwardHeaders
  PROVE  Inv'
<1>1. pc = "forward" /\ Serving /\ pc' = "filters" /\ UNCHANGED <<network, view, disk, torn>>
  BY DEF ForwardHeaders
<1>2. /\ ViewOK(view) /\ view.opened /\ view.top \in Birthday..highest
      /\ view.top \in Nat /\ From = view.top + 1 /\ From \in Nat /\ To \in Nat
      /\ From <= To /\ To <= Tip /\ To <= call.tip /\ call.applied = FALSE
      /\ call.tip \in Birthday + 1..highest /\ view.low <= call.tip
      /\ DOMAIN call = DOMAIN NoCall /\ torn \in BOOLEAN /\ call.tipHash \in Hashes
      /\ Tip = highest /\ Tip \in Nat
  BY <1>1, Upwards
<1>3. PICK a : a = Ids(Answer(From, To))
  OBVIOUS
<1>4. PICK hs : hs = IF Tip >= From /\ ~Links(view.topHash, From) THEN <<None>> ELSE a
  OBVIOUS
<1>5. /\ DOMAIN call' = DOMAIN NoCall /\ call'.headers = hs
      /\ call'.tip = call.tip /\ call'.tipHash = call.tipHash /\ call'.applied = FALSE
  BY <1>2, <1>3, <1>4 DEF ForwardHeaders, NoCall
<1>6. ChainOK' /\ Deep' = Deep /\ ViewOK(view)' /\ ViewOK(disk)'
      /\ Hashes' = Hashes /\ chain' = chain /\ highest' = highest /\ mined' = mined
  BY <1>1 DEF Inv, ChainOK, network, Tip, Deep, Blocks, ViewOK, IsView, Hashes
<1>7. a \in Seq(1..mined) /\ Len(a) = To - From + 1
  BY <1>1, <1>2, <1>3, AnswerLemma, Constants DEF Inv
<1>8. mined \in Nat
  BY DEF Inv, ChainOK
<1>9. hs \in Seq(Hashes)
  <2>1. 1..mined \subseteq Hashes /\ None \in Hashes
    BY <1>8 DEF Hashes, None
  <2>2. a \in Seq(Hashes)
    BY <1>7, <2>1, SeqMonotonic
  <2>3. <<None>> \in Seq(Hashes)
    BY <2>1
  <2> QED BY <1>4, <2>2, <2>3
<1>10. CallOK'
  BY <1>1, <1>2, <1>5, <1>6, <1>9 DEF Inv, CallOK, Walking
<1>11. To' = To /\ From' = From
  BY <1>1, <1>5 DEF To, From
<1>12. HeadersOK'
  <2>1. CASE hs = <<None>>
    BY <1>5, <2>1 DEF HeadersOK
  <2>2. CASE hs # <<None>>
    <3>1. hs = a /\ Links(view.topHash, From)
      BY <1>2, <1>4, <2>2
    <3>2. ASSUME ~torn PROVE Agree(chain, view, {}, view.top)
      <4>1. Good(chain, Deep, view, {})
        BY <1>2, <3>2 DEF Inv
      <4>2. CASE view.topHash = None
        BY <1>2, <4>1, <4>2 DEF Good, Firm
      <4>3. CASE view.topHash # None
        <5>1. view.topHash = chain[view.top].hash
          BY <1>2, <3>1, <4>3, Constants DEF Links, Before
        <5>2. view.top \in 1..Len(chain)
          BY <1>2, Constants DEF Tip
        <5> QED BY <1>2, <4>1, <5>1, <5>2 DEF Good, InChain
      <4> QED BY <4>2, <4>3
    <3>3. Len(hs) = To - From + 1 /\ hs \in Seq(1..mined)
      BY <1>7, <3>1
    <3>4. PICK r : r = Reach'
      OBVIOUS
    <3>5. r = To
      <4>1. r = From + Len(hs) - 1
        BY <1>5, <1>11, <3>4 DEF Reach
      <4>2. PICK n \in Nat : n = Len(hs)
        BY <1>2, <3>3
      <4>3. n = To - From + 1 /\ r = From + n - 1
        BY <3>3, <4>1, <4>2
      <4> QED BY <1>2, <4>3
    <3>6. ASSUME ~torn PROVE Linked'
      <4>1. Floor(r) \in Nat
        BY <1>2, <3>5, Constants DEF Floor, Max2
      <4>2. Min2(view.top, Floor(r)) \in Nat /\ Min2(view.top, Floor(r)) <= view.top
        BY <1>2, <4>1 DEF Min2
      <4>3. Agree(chain, view, {}, Min2(view.top, Floor(r)))
        BY <1>2, <3>2, <3>6, <4>2, AgreeLess
      <4>4. Floor(Reach)' = Floor(r)
        BY <3>4 DEF Floor
      <4> QED BY <1>1, <1>6, <3>2, <3>6, <4>3, <4>4 DEF Linked
    <3> QED BY <1>1, <1>5, <1>6, <1>11, <3>3, <3>6 DEF HeadersOK
  <2> QED BY <2>1, <2>2
<1>13. BatchOK'
  BY <1>1 DEF BatchOK
<1> QED BY <1>1, <1>2, <1>5, <1>6, <1>10, <1>12, <1>13 DEF Inv

(* The fields of a view whose cursor has moved.                            *)
LEMMA MovedFields ==
  ASSUME NEW v, NEW cursor, DOMAIN v = DOMAIN FreshView
  PROVE  LET w == Moved(v, cursor)
         IN  /\ DOMAIN w = DOMAIN FreshView
             /\ \A f \in DOMAIN FreshView :
                  w[f] = IF f \in DOMAIN cursor THEN cursor[f] ELSE v[f]
  BY DEF Moved

(* A view shows what another shows that has the same entries.              *)
LEMMA SameShows ==
  ASSUME NEW v, NEW w, w.paid = v.paid, w.spent = v.spent, w.pending = v.pending
  PROVE  \A tx \in Txs : Shows(w, tx) = Shows(v, tx)
  BY DEF Shows

(* What a good view shows is not above its top.                            *)
LEMMA ShowsBelow ==
  ASSUME NEW v, NEW top \in Nat, {v.paid, v.spent, v.pending} \subseteq 0..top
  PROVE  \A tx \in Txs : Shows(v, tx) \in 0..top
  BY DEF Shows

LEMMA ForwardFiltersInv ==
  ASSUME Inv, ForwardFilters
  PROVE  Inv'
<1>1. pc = "filters" /\ Serving
  BY DEF ForwardFilters
<1>2. /\ ViewOK(view) /\ view.opened /\ view.top \in Birthday..highest
      /\ view.top \in Nat /\ From = view.top + 1 /\ From \in Nat /\ To \in Nat
      /\ From <= To /\ To <= Tip /\ To <= call.tip /\ call.applied = FALSE
      /\ call.tip \in Birthday + 1..highest /\ view.low <= call.tip
      /\ Reach = From + Len(call.headers) - 1
      /\ Tip = highest /\ Tip \in Nat
  BY <1>1, Upwards
<1>3. PICK flts : flts = Answer(From, To)
  OBVIOUS
<1>4. PICK n \in Nat : n = To - From + 1
  BY <1>2
<1>5. n >= 1 /\ From + n - 1 = To
  BY <1>2, <1>4
<1>6. Len(flts) = n /\ \A i \in 1..n : flts[i] = chain[From + i - 1]
  <2>1. From >= 1
    BY <1>2
  <2>2. /\ Len(flts) = To - From + 1
        /\ \A i \in 1..To - From + 1 : flts[i] = chain[From + i - 1]
    BY <1>1, <1>2, <1>3, <2>1, AnswerLemma DEF Inv
  <2> QED BY <1>4, <2>2
<1>7. Failed => Inv'
  BY FailedInv
<1>8. CASE call.headers = <<None>>
  <2>1. Len(call.headers) = 1 /\ call.headers[1] = None
    BY <1>8
  <2>2. Failed
    BY <2>1 DEF ForwardFilters
  <2> QED BY <1>7, <2>2
<1>9. CASE call.headers # <<None>> /\ ~Failed
  <2>1. /\ call.headers \in Seq(1..mined) /\ Len(call.headers) = n
        /\ ~torn => Linked
    BY <1>1, <1>4, <1>9 DEF Inv, HeadersOK
  <2>2. PICK last : last = call.headers[n]
    OBVIOUS
  <2>3. last \in 1..mined /\ mined \in Nat
    BY <1>5, <2>1, <2>2 DEF Inv, ChainOK
  <2>4. Len(call.headers) # 0 /\ Len(call.headers) > 0 /\ flts # <<>>
    BY <1>5, <1>6, <2>1
  <2>5. PICK top : top = flts[Len(flts)].hash
    OBVIOUS
  <2>6. top \in Hashes
    <3>1. n \in 1..n /\ To \in 1..Tip
      BY <1>2, <1>5
    <3>2. flts[n] = chain[To]
      BY <1>5, <1>6, <3>1
    <3> QED BY <1>1, <1>6, <2>5, <3>1, <3>2, ServingTip DEF Inv
  <2>7. PICK todo : todo = Matched(From, flts)
    OBVIOUS
  <2>8. PICK cursor : cursor = [top |-> To, topHash |-> last, topFilter |-> top]
    OBVIOUS
  <2>9. Fetch(todo, cursor)
    BY <1>3, <1>5, <1>9, <2>1, <2>2, <2>4, <2>5, <2>7, <2>8 DEF ForwardFilters
  <2>10. PICK v : v = Moved(view, cursor)
    OBVIOUS
  <2>11. /\ DOMAIN v = DOMAIN FreshView /\ v.top = To /\ v.topHash = last
         /\ v.topFilter = top /\ v.opened = view.opened /\ v.low = view.low
         /\ v.lowHash = view.lowHash /\ v.lowFilter = view.lowFilter
         /\ v.done = view.done /\ v.paid = view.paid /\ v.spent = view.spent
         /\ v.pending = view.pending
    BY <1>2, <2>8, <2>10 DEF Moved, FreshView, ViewOK, IsView
  <2>12. To \in Birthday..highest /\ To \in 0..MaxHeight
    <3>1. highest \in Nat /\ highest <= MaxHeight
      BY Heights DEF Inv
    <3>2. To \in Nat /\ Birthday <= To /\ To <= highest
      BY <1>2, Constants
    <3> QED BY <3>1, <3>2, Constants
  <2>13. ViewOK(v)
    <3>1. last \in Hashes
      BY <2>3 DEF Hashes
    <3> QED BY <1>2, <2>6, <2>11, <2>12, <3>1 DEF ViewOK, IsView
  <2>14. /\ \A m \in todo : Fetchable(m, To)
         /\ \A h \in From..To : chain[h].txs # {} => \E m \in todo : m.height = h
    <3>1. /\ From \in Nat /\ To \in Nat /\ To <= Tip /\ From + n - 1 = To
          /\ To <= To
      BY <1>2, <1>5
    <3>2. From >= Birthday
      BY <1>2, Constants
    <3>3. From + n - 1 <= Tip /\ From + n - 1 <= To
      BY <3>1
    <3>4. ChainOK
      BY DEF Inv
    <3>5. PICK from \in Nat : from = From
      BY <3>1
    <3>6. PICK to \in Nat : to = To
      BY <3>1
    <3>7. /\ \A m \in todo : Fetchable(m, to)
          /\ \A h \in from..from + n - 1 : chain[h].txs # {} =>
               \E m \in todo : m.height = h
      <4>1. /\ from >= Birthday /\ from + n - 1 <= Tip /\ from + n - 1 <= to
            /\ Excerpt(flts, from, n) /\ todo = Matched(from, flts)
        BY <1>6, <2>7, <3>2, <3>3, <3>5, <3>6 DEF Excerpt
      <4>2. \A m \in Matched(from, flts) : Fetchable(m, to)
        BY <1>1, <3>4, <4>1, MatchedLemma
      <4>3. \A h \in from..from + n - 1 : chain[h].txs # {} =>
              \E m \in Matched(from, flts) : m.height = h
        BY <1>1, <3>4, <4>1, MatchedLemma
      <4> QED BY <4>1, <4>2, <4>3
    <3> QED BY <3>1, <3>5, <3>6, <3>7
  <2>15. ASSUME ~torn PROVE Good(chain, Deep, v, todo)
    <3>1. Good(chain, Deep, view, {}) /\ Linked
      BY <1>2, <2>1, <2>15 DEF Inv
    <3>2. {view.paid, view.spent, view.pending} \subseteq 0..view.top
      BY <1>2, <3>1 DEF Good
    <3>3. \A tx \in Txs : Shows(v, tx) = Shows(view, tx) /\ Shows(view, tx) \in 0..view.top
      BY <1>2, <2>11, <3>2, SameShows, ShowsBelow
    <3>4. Firm(v) = Floor(To) /\ Floor(To) <= Deep /\ Floor(To) \in Birthday..To
      BY <2>3, <2>11, <2>12, Heights DEF Inv, Firm, None
    <3>5. Sound(chain) /\ Len(chain) = Tip
      BY DEF Inv, ChainOK, Tip
    <3>6. ASSUME NEW hi \in Nat, hi <= To, Agree(chain, view, {}, Min2(hi, view.top))
          PROVE  Agree(chain, v, todo, hi)
      <4>1. \A h \in 1..hi : h > view.top => h \in From..To
        BY <1>2, <3>6
      <4>2. \A h \in 1..hi :
              h >= v.low /\ chain[h].txs # {} /\ (\A m \in todo : m.height # h)
                => h >= view.low /\ h <= view.top
        BY <1>2, <2>11, <2>14, <4>1
      <4>3. hi <= Len(chain)
        BY <1>2, <3>5, <3>6
      <4> QED BY <1>2, <3>3, <3>5, <3>6, <4>2, <4>3, AgreeBatch
    <3>7. Reach = To
      BY <1>2, <1>5, <2>1
    <3>8. Agree(chain, v, todo, Floor(To))
      <4>1. Floor(To) \in Nat /\ Floor(To) <= To
        BY <1>2, <3>4, Constants
      <4>2. Min2(view.top, Floor(To)) = Min2(Floor(To), view.top)
        BY <1>2, <4>1 DEF Min2
      <4> QED BY <3>1, <3>6, <3>7, <4>1, <4>2 DEF Linked
    <3>9. ASSUME InChain(chain, last, To) PROVE Agree(chain, v, todo, To)
      <4>1. Agree(chain, view, {}, view.top)
        BY <2>1, <2>2, <3>1, <3>7, <3>9 DEF Linked
      <4>2. Min2(To, view.top) = view.top
        BY <1>2 DEF Min2
      <4> QED BY <1>2, <3>6, <4>1, <4>2
    <3>10. {v.paid, v.spent, v.pending} \subseteq 0..To
      BY <1>2, <2>11, <3>2
    <3> QED BY <1>2, <2>11, <3>4, <3>8, <3>9, <3>10 DEF Good
  <2>16. DOMAIN cursor \cap Entries = {}
    BY <2>8 DEF Entries
  <2>17. v.opened /\ v.low <= call.tip /\ v.top = To
    BY <1>2, <2>11
  <2> QED BY <1>1, <2>9, <2>10, <2>13, <2>14, <2>15, <2>16, <2>17, FetchInv
<1> QED BY <1>7, <1>8, <1>9

(* Where a batch downwards lies.                                           *)
LEMMA Downwards ==
  ASSUME Inv, Serving, pc \in {"down", "downFilters"}
  PROVE  /\ ViewOK(view) /\ view.opened /\ view.top \in Birthday..highest
         /\ view.top \in Nat /\ view.low \in Nat /\ view.low <= call.tip
         /\ Bottom \in Nat /\ Birthday <= Bottom /\ Bottom <= view.low
         /\ view.low <= view.top /\ view.low <= Tip /\ Bottom \in 0..MaxHeight
         /\ Bottom \in Birthday..highest /\ Bottom <= call.tip
         /\ call.applied = FALSE /\ Tip = highest /\ Tip \in Nat
         /\ DOMAIN call = DOMAIN NoCall
<1>1. /\ ViewOK(view) /\ view.opened /\ call.tip \in Birthday + 1..highest
      /\ view.top >= call.tip /\ view.low <= call.tip /\ call.applied = FALSE
      /\ DOMAIN call = DOMAIN NoCall
  BY DEF Inv, CallOK, Walking
<1>2. view.top \in Birthday..highest /\ view.top \in Nat
  BY <1>1, FirmLemma DEF Inv
<1>3. Tip = highest /\ Tip \in Nat /\ highest <= MaxHeight
  BY ServingTip, Heights DEF Inv
<1>4. view.low \in Birthday..highest
  BY <1>1 DEF ViewOK
<1>5. Bottom \in Nat /\ Birthday <= Bottom /\ Bottom <= view.low
  BY <1>3, <1>4, Constants DEF Bottom, Max2
<1> QED BY <1>1, <1>2, <1>3, <1>4, <1>5, Constants

LEMMA DownHeadersInv ==
  ASSUME Inv, DownHeaders
  PROVE  Inv'
<1>1. pc = "down" /\ Serving
  BY DEF DownHeaders
<1>2. /\ ViewOK(view) /\ view.opened /\ view.low \in Nat /\ view.low <= call.tip
      /\ Bottom \in Nat /\ Birthday <= Bottom /\ Bottom <= view.low
      /\ view.low <= Tip /\ call.applied = FALSE /\ DOMAIN call = DOMAIN NoCall
  BY <1>1, Downwards
<1>3. CASE view.low <= Birthday
  <2>1. PICK cursor : cursor = [done |-> TRUE]
    OBVIOUS
  <2>2. Fetch({}, cursor)
    BY <1>3, <2>1 DEF DownHeaders
  <2>3. PICK v : v = Moved(view, cursor)
    OBVIOUS
  <2>4. /\ DOMAIN v = DOMAIN FreshView /\ v.top = view.top /\ v.topHash = view.topHash
        /\ v.topFilter = view.topFilter /\ v.opened = view.opened /\ v.low = view.low
        /\ v.lowHash = view.lowHash /\ v.lowFilter = view.lowFilter
        /\ v.done = TRUE /\ v.paid = view.paid /\ v.spent = view.spent
        /\ v.pending = view.pending
    BY <1>2, <2>1, <2>3 DEF Moved, FreshView, ViewOK, IsView
  <2>5. ViewOK(v)
    BY <1>2, <2>4 DEF ViewOK, IsView
  <2>6. ~torn => Good(chain, Deep, v, {})
    <3>1. \A tx \in Txs : Shows(v, tx) = Shows(view, tx)
      BY <2>4, SameShows
    <3>2. Firm(v) = Firm(view)
      BY <2>4 DEF Firm
    <3>3. \A hi : Agree(chain, view, {}, hi) => Agree(chain, v, {}, hi)
      BY <2>4, <3>1 DEF Agree
    <3> QED BY <1>2, <2>4, <3>2, <3>3 DEF Inv, Good
  <2>7. DOMAIN cursor \cap Entries = {}
    BY <2>1 DEF Entries
  <2> QED BY <1>1, <1>2, <2>2, <2>3, <2>4, <2>5, <2>6, <2>7, FetchInv
<1>4. CASE ~(view.low <= Birthday)
  <2>1. PICK hs : hs = Ids(Answer(Bottom, view.low))
    OBVIOUS
  <2>2. /\ pc' = "downFilters" /\ UNCHANGED <<network, view, disk, torn>>
        /\ DOMAIN call' = DOMAIN NoCall /\ call'.headers = hs
        /\ call'.tip = call.tip /\ call'.tipHash = call.tipHash
        /\ call'.applied = FALSE
    BY <1>2, <1>4, <2>1 DEF DownHeaders, NoCall
  <2>3. ChainOK' /\ Deep' = Deep /\ ViewOK(view)' /\ ViewOK(disk)'
        /\ Hashes' = Hashes /\ chain' = chain /\ highest' = highest
    BY <2>2 DEF Inv, ChainOK, network, Tip, Deep, Blocks, ViewOK, IsView, Hashes
  <2>4. hs \in Seq(Hashes)
    <3>1. hs \in Seq(1..mined)
      BY <1>1, <1>2, <2>1, AnswerLemma, Constants DEF Inv
    <3>2. 1..mined \subseteq Hashes
      BY DEF Hashes, Inv, ChainOK
    <3> QED BY <3>1, <3>2, SeqMonotonic
  <2>5. CallOK'
    BY <1>1, <1>2, <2>2, <2>3, <2>4 DEF Inv, CallOK, Walking
  <2>6. HeadersOK' /\ BatchOK'
    BY <2>2 DEF HeadersOK, BatchOK
  <2> QED BY <1>2, <2>2, <2>3, <2>5, <2>6 DEF Inv
<1> QED BY <1>3, <1>4

LEMMA DownFiltersInv ==
  ASSUME Inv, DownFilters
  PROVE  Inv'
<1>1. pc = "downFilters" /\ Serving
  BY DEF DownFilters
<1>2. /\ ViewOK(view) /\ view.opened /\ view.low \in Nat /\ view.low <= call.tip
      /\ view.top \in Birthday..highest /\ view.top \in Nat
      /\ Bottom \in Nat /\ Birthday <= Bottom /\ Bottom <= view.low
      /\ view.low <= view.top /\ view.low <= Tip /\ Bottom \in 0..MaxHeight
      /\ Bottom \in Birthday..highest /\ Bottom <= call.tip
      /\ call.applied = FALSE /\ Tip = highest /\ Tip \in Nat
  BY <1>1, Downwards
<1>3. PICK flts : flts = Answer(Bottom, view.low)
  OBVIOUS
<1>4. PICK n \in Nat : n = view.low - Bottom + 1
  BY <1>2
<1>5. n >= 1 /\ Bottom + n - 1 = view.low
  BY <1>2, <1>4
<1>6. Len(flts) = n /\ \A i \in 1..n : flts[i] = chain[Bottom + i - 1]
  <2>1. Bottom >= 1
    BY <1>2, Constants
  <2>2. /\ Len(flts) = view.low - Bottom + 1
        /\ \A i \in 1..view.low - Bottom + 1 : flts[i] = chain[Bottom + i - 1]
    BY <1>1, <1>2, <1>3, <2>1, AnswerLemma DEF Inv
  <2> QED BY <1>4, <2>2
<1>7. CASE Failed
  BY <1>7, FailedInv
<1>8. CASE ~Failed
  <2>1. PICK below : below = SubSeq(flts, 1, n - 1)
    OBVIOUS
  <2>2. PICK todo : todo = Matched(Bottom, below)
    OBVIOUS
  <2>3. PICK cursor : cursor = [low |-> Bottom, lowHash |-> call.headers[1],
                                lowFilter |-> flts[1].hash, done |-> Bottom <= Birthday]
    OBVIOUS
  <2>4. Fetch(todo, cursor) /\ Len(call.headers) = n
    BY <1>3, <1>4, <1>8, <2>1, <2>2, <2>3 DEF DownFilters
  <2>5. flts[1].hash \in Hashes /\ call.headers[1] \in Hashes
    <3>1. 1 \in 1..n /\ Bottom \in 1..Tip /\ Bottom + 1 - 1 = Bottom
      BY <1>2, <1>5, Constants
    <3>2. flts[1] = chain[Bottom]
      BY <1>6, <3>1
    <3>3. call.headers \in Seq(Hashes)
      BY <1>1 DEF Inv, CallOK
    <3> QED BY <1>1, <2>4, <3>1, <3>2, <3>3, ServingTip DEF Inv
  <2>6. PICK v : v = Moved(view, cursor)
    OBVIOUS
  <2>7. /\ DOMAIN v = DOMAIN FreshView /\ v.top = view.top /\ v.topHash = view.topHash
        /\ v.topFilter = view.topFilter /\ v.opened = view.opened /\ v.low = Bottom
        /\ v.lowHash = call.headers[1] /\ v.lowFilter = flts[1].hash
        /\ v.done = (Bottom <= Birthday) /\ v.paid = view.paid
        /\ v.spent = view.spent /\ v.pending = view.pending
    BY <1>2, <2>3, <2>6 DEF Moved, FreshView, ViewOK, IsView
  <2>8. ViewOK(v)
    BY <1>2, <2>5, <2>7 DEF ViewOK, IsView
  <2>9. /\ \A m \in todo : Fetchable(m, view.top)
        /\ \A h \in Bottom..view.low - 1 : chain[h].txs # {} =>
             \E m \in todo : m.height = h
    <3>1. PICK k \in Nat : k = n - 1
      BY <1>5
    <3>2. chain \in Seq(Blocks) /\ Tip = Len(chain)
      BY DEF Inv, ChainOK, Tip
    <3>3. flts = SubSeq(chain, Bottom, view.low)
      BY <1>2, <1>3 DEF Answer, Min2
    <3>4. flts \in Seq(Blocks)
      <4>1. Bottom \in 1..view.low + 1 /\ view.low \in 0..Len(chain)
        BY <1>2, <3>2, Constants
      <4> QED BY <3>2, <3>3, <4>1, SubSeqProperties
    <3>5. Len(below) = k /\ \A i \in 1..k : below[i] = flts[i]
      <4>1. 1 \in 1..k + 1 /\ k \in 0..Len(flts)
        BY <1>5, <1>6, <3>1
      <4>2. /\ Len(below) = k - 1 + 1
            /\ \A i \in 1..k - 1 + 1 : below[i] = flts[1 + i - 1]
        BY <2>1, <3>1, <3>4, <4>1, SubSeqProperties
      <4> QED BY <4>2
    <3>6. \A i \in 1..k : below[i] = chain[Bottom + i - 1]
      BY <1>6, <3>1, <3>5
    <3>7. Bottom + k - 1 = view.low - 1
      BY <1>2, <1>5, <3>1
    <3>8. Bottom + k - 1 <= Tip /\ Bottom + k - 1 <= view.top
      BY <1>2, <3>7
    <3>9. /\ \A m \in todo : Fetchable(m, view.top)
          /\ \A h \in Bottom..Bottom + k - 1 : chain[h].txs # {} =>
               \E m \in todo : m.height = h
      <4>1. Bottom \in Nat /\ Bottom >= Birthday /\ view.top \in Nat
        BY <1>2, Constants
      <4>2. ChainOK
        BY DEF Inv
      <4>3. Excerpt(below, Bottom, k)
        BY <3>5, <3>6 DEF Excerpt
      <4> QED BY <1>1, <2>2, <3>8, <4>1, <4>2, <4>3, MatchedLemma
    <3> QED BY <3>7, <3>9
  <2>10. ASSUME ~torn PROVE Good(chain, Deep, v, todo)
    <3>1. Good(chain, Deep, view, {})
      BY <1>2, <2>10 DEF Inv
    <3>2. {view.paid, view.spent, view.pending} \subseteq 0..view.top
      BY <1>2, <3>1 DEF Good
    <3>3. \A tx \in Txs : Shows(v, tx) = Shows(view, tx) /\ Shows(view, tx) \in 0..view.top
      BY <1>2, <2>7, <3>2, SameShows, ShowsBelow
    <3>4. Sound(chain) /\ Len(chain) = Tip
      BY DEF Inv, ChainOK, Tip
    <3>5. ASSUME NEW hi \in Nat, hi <= view.top, hi <= Tip, Agree(chain, view, {}, hi)
          PROVE  Agree(chain, v, todo, hi)
      <4>1. \A h \in 1..hi : h >= Bottom => h >= view.low \/ h \in Bottom..view.low - 1
        BY <1>2
      <4>2. \A h \in 1..hi :
              h >= v.low /\ chain[h].txs # {} /\ (\A m \in todo : m.height # h)
                => h >= view.low /\ h <= view.top
        BY <1>2, <2>7, <2>9, <3>5, <4>1
      <4>3. Min2(hi, view.top) = hi
        BY <1>2, <3>5 DEF Min2
      <4> QED BY <1>2, <3>3, <3>4, <3>5, <4>2, <4>3, AgreeBatch
    <3>6. Firm(v) = Firm(view) /\ Firm(view) \in Nat /\ Firm(view) <= view.top
      BY <1>2, <2>7, FirmLemma DEF Inv, Firm
    <3>7. Firm(view) <= Deep /\ Firm(view) <= Tip
      BY <1>2, <3>1, <3>6, Heights DEF Inv, Good
    <3>8. Agree(chain, v, todo, Firm(v))
      BY <1>2, <3>1, <3>5, <3>6, <3>7 DEF Good
    <3>9. ASSUME InChain(chain, view.topHash, view.top)
          PROVE  Agree(chain, v, todo, view.top)
      BY <1>2, <3>1, <3>4, <3>5, <3>9 DEF Good, InChain
    <3> QED BY <1>2, <2>7, <3>2, <3>6, <3>7, <3>8, <3>9 DEF Good
  <2>11. DOMAIN cursor \cap Entries = {}
    BY <2>3 DEF Entries
  <2>12. v.opened /\ v.low <= call.tip /\ v.top = view.top
    BY <1>2, <2>7
  <2> QED BY <1>1, <2>4, <2>6, <2>8, <2>9, <2>10, <2>11, <2>12, FetchInv
<1> QED BY <1>7, <1>8

LEMMA OpenInv ==
  ASSUME Inv, Open
  PROVE  Inv'
<1>1. pc = "open" /\ Serving
  BY DEF Open
<1>2. /\ ViewOK(view) /\ ~view.opened /\ call.tip \in Birthday + 1..highest
      /\ call.tipHash \in Hashes /\ call.applied = FALSE
  BY <1>1 DEF Inv, CallOK
<1>3. /\ Tip = highest /\ Tip = Len(chain) /\ Tip \in Nat /\ highest <= MaxHeight
      /\ mined \in Nat /\ \A h \in 1..Tip : chain[h].hash \in 1..mined
  BY <1>1, ServingTip, Heights DEF Inv
<1>4. PICK tip \in Nat : tip = call.tip
  BY <1>2, Constants
<1>5. PICK hash : hash = call.tipHash
  OBVIOUS
<1>6. tip \in Birthday..highest /\ tip \in 1..Tip /\ tip \in 0..MaxHeight
  BY <1>2, <1>3, <1>4, Constants
<1>7. CASE ~(Tip >= call.tip /\ chain[call.tip].hash = call.tipHash)
  <2>1. Failed
    BY <1>7 DEF Open
  <2> QED BY <2>1, FailedInv
<1>8. CASE Tip >= call.tip /\ chain[call.tip].hash = call.tipHash
  <2>1. chain[tip].hash = hash /\ hash \in 1..mined
    BY <1>3, <1>4, <1>5, <1>6, <1>8
  <2>2. PICK todo : todo = Matched(tip, <<chain[tip]>>)
    OBVIOUS
  <2>3. PICK cursor :
          cursor = [top |-> tip, topHash |-> hash, topFilter |-> hash,
                    opened |-> TRUE, low |-> tip, lowHash |-> hash,
                    lowFilter |-> hash, done |-> tip <= Birthday]
    OBVIOUS
  <2>4. Fetch(todo, cursor)
    BY <1>4, <1>5, <1>8, <2>2, <2>3 DEF Open
  <2>5. PICK v : v = Moved(view, cursor)
    OBVIOUS
  <2>6. /\ DOMAIN v = DOMAIN FreshView /\ v.top = tip /\ v.topHash = hash
        /\ v.topFilter = hash /\ v.opened = TRUE /\ v.low = tip
        /\ v.lowHash = hash /\ v.lowFilter = hash
        /\ v.done = (tip <= Birthday) /\ v.paid = view.paid
        /\ v.spent = view.spent /\ v.pending = view.pending
    BY <1>2, <2>3, <2>5 DEF Moved, FreshView, ViewOK, IsView
  <2>7. ViewOK(v)
    <3>1. /\ {view.paid, view.spent, view.pending} \subseteq 0..MaxHeight
          /\ view.spent # 0 => view.paid # 0
          /\ view.paid # 0 => view.pending = 0
      BY <1>2 DEF ViewOK, IsView
    <3>2. hash \in Hashes
      BY <1>2, <1>5
    <3>3. IsView(v)
      <4>1. v.done \in BOOLEAN /\ v.opened \in BOOLEAN
        <5>1. (tip <= Birthday) \in BOOLEAN
          OBVIOUS
        <5> QED BY <2>6, <5>1
      <4>2. /\ {v.top, v.low, v.paid, v.spent, v.pending} \subseteq 0..MaxHeight
            /\ {v.topHash, v.topFilter, v.lowHash, v.lowFilter} \subseteq Hashes
        BY <1>6, <2>6, <3>1, <3>2
      <4> QED BY <2>6, <4>1, <4>2 DEF IsView
    <3>4. v.opened /\ {v.top, v.low} \subseteq Birthday..highest
      BY <1>6, <2>6
    <3>5. (v.spent # 0 => v.paid # 0) /\ (v.paid # 0 => v.pending = 0)
      BY <2>6, <3>1
    <3> QED BY <3>3, <3>4, <3>5 DEF ViewOK
  <2>8. /\ \A m \in todo : Fetchable(m, tip)
        /\ \A h \in tip..tip : chain[h].txs # {} => \E m \in todo : m.height = h
    <3>1. PICK one : one = <<chain[tip]>>
      OBVIOUS
    <3>2. PICK n \in Nat : n = 1
      OBVIOUS
    <3>3. tip + n - 1 = tip /\ tip >= Birthday /\ tip <= Tip /\ tip <= tip
      BY <1>3, <1>6, <3>2, Constants
    <3>4. tip + n - 1 <= Tip /\ tip + n - 1 <= tip
      BY <3>3
    <3>5. /\ \A m \in todo : Fetchable(m, tip)
          /\ \A h \in tip..tip + n - 1 : chain[h].txs # {} =>
               \E m \in todo : m.height = h
      <4>1. ChainOK /\ todo = Matched(tip, one)
        BY <2>2, <3>1 DEF Inv
      <4>2. Excerpt(one, tip, n)
        BY <3>1, <3>2 DEF Excerpt
      <4> QED BY <1>1, <3>3, <3>4, <4>1, <4>2, MatchedLemma
    <3> QED BY <3>3, <3>5
  <2>9. ASSUME ~torn PROVE Good(chain, Deep, v, todo)
    <3>1. view.paid = 0 /\ view.spent = 0 /\ view.pending = 0
      BY <1>2, <2>9 DEF Inv, Good
    <3>2. \A tx \in Txs : Shows(v, tx) = Shows(view, tx) /\ Shows(view, tx) \in 0..0
      BY <2>6, <3>1 DEF Shows
    <3>3. Sound(chain)
      BY DEF Inv, ChainOK
    <3>4. ASSUME NEW hi \in Nat, hi <= tip PROVE Agree(chain, v, todo, hi)
      <4>1. Min2(hi, 0) = 0
        BY DEF Min2
      <4>2. Agree(chain, view, {}, 0)
        BY <3>1 DEF Agree
      <4>3. \A h \in 1..hi :
              h >= v.low /\ chain[h].txs # {} /\ (\A m \in todo : m.height # h)
                => h >= view.low /\ h <= 0
        BY <1>6, <2>6, <2>8, <3>4
      <4>4. hi <= Len(chain)
        BY <1>3, <1>6, <3>4
      <4>5. 0 \in Nat
        OBVIOUS
      <4> QED BY <1>3, <3>2, <3>3, <4>1, <4>2, <4>3, <4>4, <4>5, AgreeBatch
    <3>5. Firm(v) = Floor(tip) /\ Floor(tip) <= Deep /\ Floor(tip) \in Birthday..tip
      BY <1>6, <2>1, <2>6, Heights DEF Inv, Firm, None
    <3>6. Floor(tip) \in Nat /\ Floor(tip) <= tip
      BY <1>6, <3>5, Constants
    <3>7. Agree(chain, v, todo, Floor(tip)) /\ Agree(chain, v, todo, tip)
      BY <1>6, <3>4, <3>6
    <3> QED BY <1>6, <2>6, <3>1, <3>5, <3>7 DEF Good
  <2>10. DOMAIN cursor \cap Entries = {}
    BY <2>3 DEF Entries
  <2>11. v.opened /\ v.low <= call.tip /\ v.top = tip
    BY <1>4, <2>6
  <2> QED BY <1>1, <2>4, <2>5, <2>7, <2>8, <2>9, <2>10, <2>11, FetchInv
<1> QED BY <1>7, <1>8

LEMMA FetchBlockInv ==
  ASSUME Inv, FetchBlock
  PROVE  Inv'
<1>1. pc = "blocks" /\ Serving
  BY DEF FetchBlock
<1>2. PICK m \in call.todo :
        IF m.height <= Tip /\ chain[m.height].hash = m.block.hash
        THEN /\ view' = ApplyTxs(view, m.block.txs, m.height)
             /\ call' = [call EXCEPT !.todo = @ \ {m}, !.applied = TRUE]
             /\ UNCHANGED <<network, disk, pc, torn, budget>>
        ELSE Failed
  BY DEF FetchBlock
<1>3. CASE ~(m.height <= Tip /\ chain[m.height].hash = m.block.hash)
  BY <1>2, <1>3, FailedInv
<1>4. CASE m.height <= Tip /\ chain[m.height].hash = m.block.hash
  <2>1. PICK v : v = Moved(view, call.cursor)
    OBVIOUS
  <2>2. PICK x : x = ApplyTxs(view, m.block.txs, m.height)
    OBVIOUS
  <2>3. PICK todo : todo = call.todo
    OBVIOUS
  <2>4. PICK cursor : cursor = call.cursor
    OBVIOUS
  <2>5. PICK w : w = Moved(x, cursor)
    OBVIOUS
  <2>6. /\ view' = x /\ UNCHANGED <<network, disk, pc, torn>>
        /\ DOMAIN call' = DOMAIN NoCall /\ call'.todo = todo \ {m}
        /\ call'.applied = TRUE /\ call'.tip = call.tip
        /\ call'.tipHash = call.tipHash /\ call'.cursor = cursor
    BY <1>2, <1>4, <2>2, <2>3, <2>4 DEF Inv, CallOK, NoCall
  <2>7. /\ ViewOK(v) /\ v.opened /\ v.low <= call.tip
        /\ DOMAIN cursor \cap Entries = {}
        /\ \A y \in todo : IsTodo(y)
        /\ ~torn => Good(chain, Deep, v, todo)
    BY <1>1, <2>1, <2>3, <2>4 DEF Inv, BatchOK
  <2>8. Fetchable(m, v.top)
    BY <2>1, <2>3, <2>7 DEF IsTodo
  <2>9. PICK h : h = m.height
    OBVIOUS
  <2>10. PICK txs : txs = m.block.txs
    OBVIOUS
  <2>11. /\ v.top \in Birthday..highest /\ v.top \in Nat /\ Tip = Len(chain)
         /\ highest <= MaxHeight /\ highest \in Nat /\ Tip \in Nat
    BY <2>7, FirmLemma, Heights DEF Inv, Tip
  <2>12. /\ h \in Birthday..v.top /\ h \in Nat \ {0} /\ h \in 1..Len(chain)
         /\ h \in 0..MaxHeight
    BY <1>4, <2>8, <2>9, <2>11, Constants DEF Fetchable
  <2>13. chain[h] = m.block
    BY <1>4, <2>8, <2>9, <2>12 DEF Fetchable, InChain
  <2>14. ViewOK(view)
    BY DEF Inv
  <2>15. /\ DOMAIN x = DOMAIN FreshView
         /\ \A f \in DOMAIN FreshView : f \notin Entries => x[f] = view[f]
         /\ {x.paid, x.spent, x.pending} \subseteq {view.paid, view.spent, view.pending, h}
         /\ x.spent # 0 => x.paid # 0
         /\ x.paid # 0 => x.pending = 0
         /\ \A tx \in Txs : IF tx \in txs THEN Shows(x, tx) \in {Shows(view, tx), h} \ {0}
                            ELSE Shows(x, tx) = Shows(view, tx)
    BY <2>2, <2>9, <2>10, <2>12, <2>14, ApplyFields DEF Entries
  <2>16. /\ DOMAIN v = DOMAIN FreshView /\ DOMAIN w = DOMAIN FreshView
         /\ \A f \in DOMAIN FreshView :
              /\ v[f] = IF f \in DOMAIN cursor THEN cursor[f] ELSE view[f]
              /\ w[f] = IF f \in DOMAIN cursor THEN cursor[f] ELSE x[f]
    <3>1. DOMAIN view = DOMAIN FreshView
      BY <2>14 DEF ViewOK, IsView
    <3> QED BY <2>1, <2>4, <2>5, <2>15, <3>1, MovedFields
  <2>17. \A f \in DOMAIN FreshView : f \notin Entries => w[f] = v[f]
    BY <2>15, <2>16
  <2>18. /\ v.paid = view.paid /\ v.spent = view.spent /\ v.pending = view.pending
         /\ w.paid = x.paid /\ w.spent = x.spent /\ w.pending = x.pending
    BY <2>7, <2>16 DEF Entries, FreshView
  <2>19. /\ w.top = v.top /\ w.topHash = v.topHash /\ w.topFilter = v.topFilter
         /\ w.opened = v.opened /\ w.low = v.low /\ w.lowHash = v.lowHash
         /\ w.lowFilter = v.lowFilter /\ w.done = v.done
    BY <2>17 DEF Entries, FreshView
  <2>20. /\ x.top = view.top /\ x.topHash = view.topHash /\ x.topFilter = view.topFilter
         /\ x.opened = view.opened /\ x.low = view.low /\ x.lowHash = view.lowHash
         /\ x.lowFilter = view.lowFilter /\ x.done = view.done
    BY <2>15 DEF Entries, FreshView
  <2>21. {x.paid, x.spent, x.pending} \subseteq 0..MaxHeight
    <3>1. {view.paid, view.spent, view.pending} \subseteq 0..MaxHeight
      BY <2>14 DEF ViewOK, IsView
    <3> QED BY <2>12, <2>15, <3>1
  <2>22. ViewOK(x)
    BY <2>14, <2>15, <2>20, <2>21 DEF ViewOK, IsView
  <2>23. ViewOK(w)
    BY <2>7, <2>15, <2>16, <2>18, <2>19, <2>21 DEF ViewOK, IsView
  <2>24. ASSUME ~torn PROVE Good(chain, Deep, w, todo \ {m})
    <3>1. /\ Firm(v) <= Deep /\ Agree(chain, v, todo, Firm(v))
          /\ InChain(chain, v.topHash, v.top) => Agree(chain, v, todo, v.top)
          /\ {v.paid, v.spent, v.pending} \subseteq 0..v.top
      BY <2>7, <2>24 DEF Good
    <3>2. ASSUME NEW tx \in Txs
          PROVE  IF tx \in m.block.txs THEN Shows(w, tx) \in {Shows(v, tx), m.height} \ {0}
                 ELSE Shows(w, tx) = Shows(v, tx)
      <4>1. Shows(w, tx) = Shows(x, tx) /\ Shows(v, tx) = Shows(view, tx)
        BY <2>18, SameShows
      <4> QED BY <2>9, <2>10, <2>15, <4>1
    <3>3. Sound(chain) /\ Len(chain) \in Nat
      BY <2>11 DEF Inv, ChainOK
    <3>4. ASSUME NEW hi \in Nat, hi <= Len(chain), Agree(chain, v, todo, hi)
          PROVE  Agree(chain, w, todo \ {m}, hi)
      BY <2>3, <2>9, <2>12, <2>13, <2>19, <3>2, <3>3, <3>4, AgreeEnter
    <3>5. Firm(w) = Firm(v) /\ Firm(v) \in Nat /\ Firm(v) <= Len(chain)
      BY <2>7, <2>11, <2>19, <3>1, FirmLemma, Heights DEF Inv, Firm
    <3>6. Agree(chain, w, todo \ {m}, Firm(w))
      BY <3>1, <3>4, <3>5
    <3>7. ASSUME InChain(chain, w.topHash, w.top)
          PROVE  Agree(chain, w, todo \ {m}, w.top)
      <4>1. InChain(chain, v.topHash, v.top)
        BY <2>19, <3>7
      <4>2. v.top \in Nat /\ v.top <= Len(chain)
        BY <2>11, <4>1 DEF InChain
      <4> QED BY <2>19, <3>1, <3>4, <4>1, <4>2
    <3>8. {w.paid, w.spent, w.pending} \subseteq 0..w.top
      <4>1. {view.paid, view.spent, view.pending} \subseteq 0..v.top
        BY <2>18, <3>1
      <4>2. h \in 0..v.top
        BY <2>11, <2>12, Constants
      <4>3. {x.paid, x.spent, x.pending} \subseteq 0..v.top
        BY <2>15, <4>1, <4>2
      <4> QED BY <2>18, <2>19, <4>3
    <3>9. w.opened /\ Firm(w) <= Deep
      BY <2>7, <2>19, <3>1, <3>5
    <3> QED BY <3>6, <3>7, <3>8, <3>9 DEF Good
  <2>25. ChainOK' /\ Deep' = Deep /\ ViewOK(x)' /\ ViewOK(w)' /\ ViewOK(disk)'
         /\ Hashes' = Hashes /\ chain' = chain /\ highest' = highest
         /\ torn' = torn /\ pc' = pc
    BY <2>6, <2>22, <2>23 DEF Inv, ChainOK, network, Tip, Deep, Blocks, ViewOK,
       IsView, Hashes
  <2>26. CallOK'
    BY <1>1, <2>6, <2>20, <2>25 DEF Inv, CallOK, Walking
  <2>27. HeadersOK'
    BY <1>1, <2>25 DEF HeadersOK
  <2>28. w = Moved(view, call.cursor)'
    BY <2>5, <2>6 DEF Moved
  <2>29. \A y \in todo \ {m} : IsTodo(y)'
    <3>1. Moved(view, call.cursor)'.top = v.top
      BY <2>19, <2>28
    <3>2. Blocks' = Blocks
      BY <2>6 DEF network, Blocks
    <3> QED BY <2>1, <2>7, <2>25, <3>1, <3>2 DEF IsTodo, Fetchable
  <2>30. BatchOK'
    <3>1. w.opened /\ w.low <= call'.tip /\ DOMAIN call'.cursor \cap Entries = {}
      BY <2>6, <2>7, <2>19
    <3>2. \A y \in call'.todo : IsTodo(y)'
      BY <2>6, <2>29
    <3>3. ~torn' => Good(chain', Deep', w, call'.todo)
      BY <2>6, <2>24, <2>25
    <3> QED BY <2>25, <2>28, <3>1, <3>2, <3>3 DEF BatchOK
  <2> QED BY <2>6, <2>25, <2>26, <2>27, <2>30 DEF Inv
<1> QED BY <1>3, <1>4

LEMMA CommitInv ==
  ASSUME Inv, Commit
  PROVE  Inv'
<1>1. PICK w : w = Moved(view, call.cursor)
  OBVIOUS
<1>2. PICK opening : opening = ("opened" \in DOMAIN call.cursor)
  OBVIOUS
<1>3. PICK c : c = [call EXCEPT !.batches = IF opening THEN @ ELSE @ + 1,
                                !.cursor = <<>>, !.applied = FALSE]
  OBVIOUS
<1>4. /\ pc = "blocks" /\ call.todo = {} /\ view' = w /\ disk' = w /\ call' = c
      /\ pc' \in {"check", Onward(w, c)} /\ UNCHANGED <<network, torn>>
  BY <1>1, <1>2, <1>3 DEF Commit, Saved
<1>5. /\ DOMAIN c = DOMAIN NoCall /\ c.tip = call.tip /\ c.tipHash = call.tipHash
      /\ c.applied = FALSE
  BY <1>3 DEF Inv, CallOK, NoCall
<1>6. /\ ViewOK(w) /\ w.opened /\ w.low <= call.tip
      /\ ~torn => Good(chain, Deep, w, {})
  BY <1>1, <1>4 DEF Inv, BatchOK
<1>7. c.tip \in Birthday + 1..highest /\ c.tipHash \in Hashes
  BY <1>4, <1>5 DEF Inv, CallOK
<1> QED BY <1>4, <1>5, <1>6, <1>7, OnwardInv

-----------------------------------------------------------------------------
(* The invariant holds at first, and every step keeps it.                  *)

LEMMA InitInv ==
  ASSUME Init
  PROVE  Inv
<1>1. /\ chain \in [1..Start -> {Block(i, t) : i \in 1..Start, t \in SUBSET Txs}]
      /\ Sound(chain) /\ mined = Start /\ highest = Start
      /\ view = FreshView /\ disk = FreshView
      /\ pc = "idle" /\ call = NoCall /\ torn = FALSE
  BY DEF Init
<1>2. \A b \in {Block(i, t) : i \in 1..Start, t \in SUBSET Txs} : b \in Blocks
  BY <1>1 DEF Block, Blocks
<1>3. chain \in [1..Start -> Blocks]
  BY <1>1, <1>2
<1>4. chain \in Seq(Blocks) /\ Len(chain) = Start
  BY <1>3, Constants, SeqDef, LenProperties
<1>5. ChainOK
  <2>1. Start \in Deep..highest
    BY <1>1, Constants DEF Deep, Max2
  <2> QED BY <1>1, <1>4, <2>1, Constants DEF ChainOK, Tip
<1>6. CallOK /\ HeadersOK /\ BatchOK
  BY <1>1 DEF CallOK, HeadersOK, BatchOK, NoCall, Walking
<1> QED BY <1>1, <1>5, <1>6, FreshGood DEF Inv

LEMMA NextInv ==
  ASSUME Inv, [Next]_vars
  PROVE  Inv'
<1>1. CASE \E txs \in SUBSET Txs : Mine(txs)
  BY <1>1, MineInv
<1>2. CASE \E k \in 1..Tip : Reorg(k)
  BY <1>2, ReorgInv
<1>3. CASE Begin(FALSE) \/ Begin(TRUE)
  BY <1>3, BeginInv
<1>4. CASE Open
  BY <1>4, OpenInv
<1>5. CASE Check
  BY <1>5, CheckInv
<1>6. CASE ForwardHeaders
  BY <1>6, ForwardHeadersInv
<1>7. CASE ForwardFilters
  BY <1>7, ForwardFiltersInv
<1>8. CASE DownHeaders
  BY <1>8, DownHeadersInv
<1>9. CASE DownFilters
  BY <1>9, DownFiltersInv
<1>10. CASE FetchBlock
  BY <1>10, FetchBlockInv
<1>11. CASE Commit
  BY <1>11, CommitInv
<1>12. CASE End
  BY <1>12, FailedInv DEF End
<1>13. CASE Fail
  BY <1>13, FailInv
<1>14. CASE PageClosed
  BY <1>14, PageClosedInv
<1>15. CASE Rebuild
  BY <1>15, RebuildInv
<1>16. CASE \E h \in 1..disk.top : Rewalk(h)
  BY <1>16, RewalkInv
<1>17. CASE UNCHANGED vars
  <2>1. UNCHANGED <<chain, mined, highest, view, disk, pc, call, torn>>
    BY <1>17 DEF vars
  <2>2. ChainOK' /\ Deep' = Deep /\ ViewOK(view)' /\ ViewOK(disk)'
    BY <2>1 DEF Inv, ChainOK, Deep, Tip, Blocks, ViewOK, IsView, Hashes
  <2>3. CallOK'
    BY <2>1 DEF Inv, CallOK, Hashes
  <2>4. HeadersOK'
    BY <2>1 DEF Inv, HeadersOK, Linked, Reach, From, To
  <2>5. BatchOK'
    BY <2>1, <2>2 DEF Inv, BatchOK, ViewOK, IsView, Hashes, IsTodo, Fetchable,
       Blocks
  <2> QED BY <2>1, <2>2, <2>3, <2>4, <2>5 DEF Inv
<1> QED BY <1>1, <1>2, <1>3, <1>4, <1>5, <1>6, <1>7, <1>8, <1>9, <1>10, <1>11,
           <1>12, <1>13, <1>14, <1>15, <1>16, <1>17 DEF Next, Sync

(* The inductive invariant: every view agrees with the chain as far as no  *)
(* reorganisation reaches, and up to its top while that is in the chain.   *)
LEMMA SpecInv == Spec => []Inv
<1>1. Init => Inv
  BY InitInv
<1>2. Inv /\ [Next]_vars => Inv'
  BY NextInv
<1> QED BY <1>1, <1>2, PTL DEF Spec

(* The views of the ledger are well formed at any time: heights and hashes *)
(* of blocks that were mined, no spend of a coin that is not there, no     *)
(* spend both marked and pending (apply_txs, rollback).                    *)
THEOREM WalkTypeCorrect == Spec => []TypeOK
<1>1. Inv => TypeOK
  BY DEF Inv, ViewOK, ChainOK, TypeOK
<1> QED BY <1>1, SpecInv, PTL

-----------------------------------------------------------------------------
(* What the invariant says of a ledger at rest.                            *)

(* A transaction of the chain is where HeightOf finds it.                  *)
LEMMA HeightFound ==
  ASSUME Sound(chain), Tip \in Nat, NEW tx \in Txs, NEW lo \in Nat, lo >= 1,
         NEW hi \in Nat, NEW h \in lo..hi, h <= Tip, tx \in chain[h].txs
  PROVE  HeightOf(tx, lo, hi) = h
<1> DEFINE In == lo..Min2(hi, Tip)
           found == CHOOSE k \in In : tx \in chain[k].txs
<1>1. h \in In
  BY DEF Min2
<1>2. found \in In /\ tx \in chain[found].txs
  BY <1>1
<1>3. In \subseteq 1..Len(chain)
  BY DEF Min2, Tip
<1>4. found = h
  BY <1>1, <1>2, <1>3 DEF Sound
<1>5. HeightOf(tx, lo, hi) = found
  BY <1>1 DEF HeightOf
<1> QED BY <1>4, <1>5

(* What HeightOf finds is in the chain.                                    *)
LEMMA HeightIn ==
  ASSUME Tip \in Nat, NEW tx \in Txs, NEW lo \in Nat, lo >= 1, NEW hi \in Nat,
         HeightOf(tx, lo, hi) # 0
  PROVE  /\ HeightOf(tx, lo, hi) \in lo..hi
         /\ HeightOf(tx, lo, hi) <= Tip
         /\ tx \in chain[HeightOf(tx, lo, hi)].txs
<1> DEFINE In == lo..Min2(hi, Tip)
           found == CHOOSE k \in In : tx \in chain[k].txs
<1>1. \E k \in In : tx \in chain[k].txs
  BY DEF HeightOf
<1>2. found \in In /\ tx \in chain[found].txs
  BY <1>1
<1>3. HeightOf(tx, lo, hi) = found
  BY <1>1 DEF HeightOf
<1>4. \A k \in In : k \in lo..hi /\ k <= Tip
  BY DEF Min2
<1> QED BY <1>2, <1>3, <1>4

(* At rest and untorn, the ledger agrees with the chain up to its top.     *)
LEMMA RestAgrees ==
  ASSUME Inv, AtRest, ~torn
  PROVE  /\ Agree(chain, disk, {}, disk.top) /\ ViewOK(disk) /\ disk.opened
         /\ {disk.paid, disk.spent, disk.pending} \subseteq 0..disk.top
         /\ disk.top \in Nat /\ disk.low \in Nat /\ disk.low >= 1
         /\ disk.top <= Tip /\ Tip \in Nat /\ Sound(chain)
<1>1. /\ disk.opened /\ disk.top <= Tip /\ disk.topHash = chain[disk.top].hash
      /\ ViewOK(disk) /\ Good(chain, Deep, disk, {})
  BY DEF AtRest, Inv
<1>2. /\ disk.top \in Birthday..highest /\ disk.top \in Nat
      /\ disk.low \in Birthday..highest /\ Tip \in Nat /\ Tip = Len(chain)
  BY <1>1, FirmLemma, Heights DEF Inv, ViewOK, Tip
<1>3. disk.low \in Nat /\ disk.low >= 1 /\ disk.top \in 1..Len(chain)
  BY <1>1, <1>2, Constants
<1>4. InChain(chain, disk.topHash, disk.top)
  BY <1>1, <1>3 DEF InChain
<1>5. /\ Agree(chain, disk, {}, disk.top)
      /\ {disk.paid, disk.spent, disk.pending} \subseteq 0..disk.top
  BY <1>1, <1>4 DEF Good
<1> QED BY <1>1, <1>2, <1>3, <1>5 DEF Inv, ChainOK

(* Nothing of an orphaned block is in the ledger between calls once its    *)
(* top is a block of the chain, whatever reorganisations, failed requests  *)
(* and closed pages the walk met (rollback, reorg_check, apply_txs).       *)
THEOREM LedgerHasNoPhantoms == Spec => []NoPhantom
<1>1. ASSUME Inv PROVE NoPhantom
  <2> SUFFICES ASSUME AtRest, ~torn PROVE NoOrphan
    BY DEF NoPhantom
  <2>1. /\ Agree(chain, disk, {}, disk.top) /\ ViewOK(disk)
        /\ {disk.paid, disk.spent, disk.pending} \subseteq 0..disk.top
        /\ disk.top \in Nat /\ disk.top <= Tip /\ Tip \in Nat /\ Sound(chain)
    BY <1>1, RestAgrees
  <2>2. ASSUME NEW tx \in Txs, NEW h, h = Shows(disk, tx), h \in 0..disk.top, h # 0
        PROVE  h = HeightOf(tx, 1, Tip)
    <3>1. h \in 1..disk.top /\ tx \in chain[h].txs
      BY <2>1, <2>2 DEF Agree
    <3>2. h \in 1..Tip /\ h <= Tip /\ 1 \in Nat /\ 1 >= 1
      BY <2>1, <3>1
    <3> QED BY <2>1, <3>1, <3>2, HeightFound
  <2>3. "pays" \in Txs /\ "spends" \in Txs
    BY DEF Txs
  <2>4. /\ Shows(disk, "pays") = disk.paid
        /\ disk.spent # 0 => Shows(disk, "spends") = disk.spent
        /\ disk.pending # 0 => Shows(disk, "spends") = disk.pending
    BY <2>1 DEF Shows, ViewOK
  <2> QED BY <2>1, <2>2, <2>3, <2>4 DEF NoOrphan
<1> QED BY <1>1, SpecInv, PTL

(* No coin of the blocks read is missing from the ledger between calls,    *)
(* none that they spend is shown as unspent, and the spend of a coin still *)
(* to be met is remembered (sync_step, sync_step_down, apply_txs).         *)
THEOREM LedgerMissesNothing == Spec => []NothingMissed
<1>1. ASSUME Inv PROVE NothingMissed
  <2> SUFFICES ASSUME AtRest, ~torn
               PROVE  LET paid == HeightOf("pays", disk.low, disk.top)
                          spent == HeightOf("spends", disk.low, disk.top)
                      IN  /\ paid # 0 => disk.paid = paid
                          /\ spent # 0 =>
                               spent = IF disk.paid # 0 THEN disk.spent
                                       ELSE disk.pending
    BY DEF NothingMissed
  <2>1. /\ Agree(chain, disk, {}, disk.top)
        /\ disk.top \in Nat /\ disk.low \in Nat /\ disk.low >= 1 /\ Tip \in Nat
    BY <1>1, RestAgrees
  <2>2. ASSUME NEW tx \in Txs, NEW h, h = HeightOf(tx, disk.low, disk.top), h # 0
        PROVE  Shows(disk, tx) = h
    <3>1. h \in disk.low..disk.top /\ tx \in chain[h].txs
      BY <2>1, <2>2, HeightIn
    <3>2. h \in 1..disk.top /\ h >= disk.low
      BY <2>1, <3>1
    <3> QED BY <2>1, <3>1, <3>2 DEF Agree
  <2>3. "pays" \in Txs /\ "spends" \in Txs
    BY DEF Txs
  <2>4. Shows(disk, "pays") = disk.paid
    BY DEF Shows
  <2>5. Shows(disk, "spends") = IF disk.paid # 0 THEN disk.spent ELSE disk.pending
    BY DEF Shows
  <2> QED BY <2>2, <2>3, <2>4, <2>5
<1> QED BY <1>1, SpecInv, PTL
=============================================================================
