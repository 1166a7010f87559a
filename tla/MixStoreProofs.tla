--------------------------- MODULE MixStoreProofs ---------------------------
(***************************************************************************)
(* Proofs about MixStore, for any coins, seats and pool ids, any settle    *)
(* depth and any number of blocks, failed writes, restores and rollbacks.  *)
(***************************************************************************)
EXTENDS MixStore, SequenceTheorems, TLAPS

(* Another attempt of this phone has recorded the coin.                    *)
Shared(a, c) == \E x \in Attempts \ {a} : <<x, c>> \in recorded

(* Attempt a's signature spends c, and the record was not lost with it.    *)
Signs(a, c) == a \in DOMAIN signed \ lost /\ signed[a] = c

Txs == {Nothing} \cup {Fund(a, c) : a \in Attempts, c \in Coins}
         \cup {Exit(a, c) : a \in Attempts, c \in Coins} \cup {Spend(c) : c \in Coins}
Budgets == [starts : Nat, cuts : Nat, restores : Nat, rollbacks : Nat]
Phases == {"running", "stuck", "saved", "halted", "signed"}

(* The chain and the bounds; no transaction is in two blocks.              *)
Once(ch) == \A i, j \in 1..Len(ch) : ch[i] = ch[j] /\ ch[i] # Nothing => i = j
ChainOK == /\ chain \in Seq(Txs) /\ scanned \in 0..Len(chain) /\ Once(chain)
           /\ budget \in Budgets /\ budget.cuts <= MaxCuts

(* Every record was saved, also those of the copy, which has one for each  *)
(* pool id as well.                                                        *)
Recorded ==
  /\ \A a \in DOMAIN recs : <<a, recs[a]>> \in recorded
  /\ \A a \in DOMAIN copy.recs : <<a, copy.recs[a]>> \in recorded
  /\ \A x, y \in DOMAIN copy.recs : x[1] = y[1] => x = y

(* Two live attempts have one pool id only where that has been noted.      *)
Noted == \A x, y \in DOMAIN live : x[1] = y[1] /\ x[1] \notin clashed => x = y

(* What an attempt's record and hold are by the phase it has reached: no   *)
(* attempt that may still stop has a pool that was signed before, or       *)
(* another's record under its pool id.                                     *)
Saved(a) ==
  LET c == live[a].coin
  IN  /\ ~Open(a) /\ OfPool(recs, a[1]) \subseteq {a}
      /\ a \in DOMAIN recs => recs[a] = c
      /\ Settled(a, c) \/ (a \in DOMAIN recs /\ (c \in locks \/ Shared(a, c)))
Reach(a) ==
  a[1] \notin clashed =>
    /\ live[a].phase = "running" => OfPool(recs, a[1]) = {} /\ ~Open(a)
    /\ live[a].phase = "stuck" => ~Open(a)
    /\ live[a].phase = "halted" => a \notin DOMAIN recs /\ ~Open(a)
    /\ live[a].phase = "saved" => Saved(a)
    /\ live[a].phase = "signed" => /\ Signs(a, live[a].coin)
                                   /\ a \in DOMAIN recs => recs[a] = live[a].coin
Reached == \A a \in DOMAIN live : Reach(a)

(* The coins of the signed pools are held, also while the page is closed.  *)
Held == \A a \in Attempts : Sole(a) => signed[a] \in locks \/ Shared(a, signed[a])

(* A record the copy has without its hold is one no attempt has signed, or *)
(* will: it still stands, and its pool id is refused, until it is settled. *)
Spare(a, c) ==
  \/ a[1] \in clashed
  \/ c \in copy.locks \/ Shared(a, c) \/ Settled(a, c)
  \/ /\ a \in DOMAIN recs /\ recs[a] = c /\ ~Signs(a, c)
     /\ a \in DOMAIN live => live[a].phase = "stuck"
Bare == \A a \in DOMAIN copy.recs : Spare(a, copy.recs[a])

(* Every hold has a seat or a record, or was that of a record that another *)
(* of its pool id may have replaced.                                       *)
Excused(c) == \E x \in Attempts : x[1] \in clashed /\ <<x, c>> \in recorded
Backed == \A c \in locks : c \in Named \cup Vals(seats) \/ Excused(c)

Inv == /\ TypeOK /\ ChainOK /\ Recorded /\ Noted /\ SignedIsKept /\ Reached /\ Held /\ Bare
       /\ NoOrphanHold

-----------------------------------------------------------------------------
(* The budget and the chain.                                               *)

(* What a cut spends.                                                      *)
LEMMA CutBudget ==
  ASSUME ChainOK, NEW cut \in BOOLEAN, Cut(cut)
  PROVE  /\ budget' \in Budgets /\ budget'.cuts <= MaxCuts
         /\ budget'.cuts = MaxCuts => ~cut /\ budget.cuts = MaxCuts
  BY StoreAssumption DEF ChainOK, Cut, Budgets

(* Settled, of a chain in which no transaction is twice.                   *)
DeepIn(ch, a, c) ==
  \E i \in 1..Len(ch) : /\ ch[i] = Exit(a, c) \/ (Spends(ch[i], c) /\ ch[i] # Fund(a, c))
                        /\ Len(ch) + 1 - i >= SettleDepth

DepthIn(ch, t, n) ==
  IF \E i \in 1..n : ch[i] = t
  THEN n + 1 - (CHOOSE i \in 1..n : ch[i] = t) ELSE 0

(* A transaction is d deep where it has d blocks, its own included.        *)
LEMMA DepthIs ==
  ASSUME NEW ch \in Seq(Txs), Once(ch), NEW n \in 0..Len(ch), NEW t, t # Nothing,
         NEW d \in Nat \ {0}
  PROVE  DepthIn(ch, t, n) >= d <=> \E i \in 1..n : ch[i] = t /\ n + 1 - i >= d
<1> DEFINE k == CHOOSE i \in 1..n : ch[i] = t
<1>1. CASE \E i \in 1..n : ch[i] = t
  <2>1. k \in 1..n /\ ch[k] = t
    BY <1>1
  <2> HIDE DEF k
  <2>2. \A i \in 1..n : ch[i] = t => i = k
    BY <2>1 DEF Once
  <2>3. n + 1 - k >= d <=> \E i \in 1..n : ch[i] = t /\ n + 1 - i >= d
    BY <2>1, <2>2
  <2> QED BY <1>1, <2>3 DEF k, DepthIn
<1>2. CASE ~(\E i \in 1..n : ch[i] = t)
  BY <1>2 DEF DepthIn
<1> QED BY <1>1, <1>2

(* No transaction of a pool is the empty one.                              *)
LEMMA ExitIsSomething ==
  ASSUME NEW a, NEW c
  PROVE  Exit(a, c) # Nothing /\ Fund(a, c) # Nothing /\ Spend(c) # Nothing
  BY DEF Exit, Fund, Spend, Nothing

(* Settled, said without the choice of a height.                           *)
LEMMA SettledIs ==
  ASSUME chain \in Seq(Txs), Once(chain), NEW a, NEW c
  PROVE  Settled(a, c) <=> DeepIn(chain, a, c)
<1> DEFINE n == Len(chain)
<1>1. n \in 0..n /\ SettleDepth \in Nat \ {0}
  BY StoreAssumption, LenProperties
<1>2. Depth(Exit(a, c), n) >= SettleDepth
        <=> \E i \in 1..n : chain[i] = Exit(a, c) /\ n + 1 - i >= SettleDepth
  <2>1. Exit(a, c) # Nothing
    BY ExitIsSomething
  <2>2. Depth(Exit(a, c), n) = DepthIn(chain, Exit(a, c), n)
    BY DEF Depth, DepthIn
  <2> QED BY <1>1, <2>1, <2>2, DepthIs
<1> QED BY <1>2 DEF Settled, Elsewhere, DeepIn

(* The same of the state after a step.                                     *)
LEMMA SettledThenIs ==
  ASSUME (chain \in Seq(Txs))', Once(chain'), NEW a, NEW c
  PROVE  Settled(a, c)' <=> DeepIn(chain', a, c)
<1> DEFINE n == Len(chain')
<1>1. n \in 0..n /\ SettleDepth \in Nat \ {0}
  BY StoreAssumption, LenProperties
<1>2. Depth(Exit(a, c), Len(chain))' >= SettleDepth
        <=> \E i \in 1..n : chain'[i] = Exit(a, c) /\ n + 1 - i >= SettleDepth
  <2>1. Exit(a, c) # Nothing
    BY ExitIsSomething
  <2>2. Depth(Exit(a, c), Len(chain))' = DepthIn(chain', Exit(a, c), n)
    BY DEF Depth, DepthIn
  <2> QED BY <1>1, <2>1, <2>2, DepthIs
<1> QED BY <1>2 DEF Settled, Elsewhere, DeepIn

(* What is settled depends on the chain alone.                             *)
LEMMA SameChain ==
  ASSUME ChainOK, chain' = chain, NEW a, NEW c
  PROVE  Settled(a, c)' <=> Settled(a, c)
<1>1. Settled(a, c) <=> DeepIn(chain, a, c)
  BY SettledIs DEF ChainOK
<1>2. Settled(a, c)' <=> DeepIn(chain', a, c)
  BY SettledThenIs DEF ChainOK
<1> QED BY <1>1, <1>2

(* What is settled stays so when less than the settle depth is replaced.   *)
LEMMA DeeperChain ==
  ASSUME NEW ch \in Seq(Txs), NEW dh \in Seq(Txs), NEW m \in 0..Len(ch),
         m > Len(ch) - SettleDepth, m <= Len(dh), Len(ch) <= Len(dh),
         \A i \in 1..m : dh[i] = ch[i], NEW a, NEW c, DeepIn(ch, a, c)
  PROVE  DeepIn(dh, a, c)
<1> PICK i \in 1..Len(ch) :
      /\ ch[i] = Exit(a, c) \/ (Spends(ch[i], c) /\ ch[i] # Fund(a, c))
      /\ Len(ch) + 1 - i >= SettleDepth
  BY DEF DeepIn
<1>1. SettleDepth \in Nat /\ Len(ch) \in Nat /\ Len(dh) \in Nat
  BY StoreAssumption, LenProperties
<1>2. i \in 1..m /\ i \in 1..Len(dh) /\ Len(dh) + 1 - i >= SettleDepth
  BY <1>1
<1>3. dh[i] = ch[i]
  BY <1>2
<1> QED BY <1>2, <1>3 DEF DeepIn

(* A record whose duty is a wipe is settled on the chain, too.             *)
LEMMA WipeIsSettled ==
  ASSUME ChainOK, NEW a \in DOMAIN recs, DutyIsWipe(a)
  PROVE  Settled(a, recs[a])
<1> DEFINE c == recs[a]
<1>1. /\ SettleDepth \in Nat \ {0} /\ Len(chain) \in Nat
      /\ scanned \in 0..Len(chain) /\ chain \in Seq(Txs) /\ Once(chain)
  BY StoreAssumption, LenProperties DEF ChainOK
<1>2. CASE Depth(Exit(a, c), scanned) >= SettleDepth
  <2>1. Depth(Exit(a, c), scanned) >= SettleDepth
          <=> \E i \in 1..scanned : chain[i] = Exit(a, c) /\ scanned + 1 - i >= SettleDepth
    <3>1. Exit(a, c) # Nothing
      BY ExitIsSomething
    <3>2. Depth(Exit(a, c), scanned) = DepthIn(chain, Exit(a, c), scanned)
      BY DEF Depth, DepthIn
    <3> QED BY <1>1, <3>1, <3>2, DepthIs
  <2>2. PICK i \in 1..scanned : chain[i] = Exit(a, c) /\ scanned + 1 - i >= SettleDepth
    BY <1>2, <2>1
  <2>3. i \in 1..Len(chain) /\ Len(chain) + 1 - i >= SettleDepth
    BY <1>1, <2>2
  <2>4. DeepIn(chain, a, c)
    BY <2>2, <2>3 DEF DeepIn
  <2> QED BY <1>1, <2>4, SettledIs
<1>3. CASE Elsewhere(a, c, scanned, SettleDepth)
  <2>1. PICK i \in 1..scanned : /\ Spends(chain[i], c) /\ chain[i] # Fund(a, c)
                                /\ scanned + 1 - i >= SettleDepth
    BY <1>3 DEF Elsewhere
  <2>2. i \in 1..Len(chain) /\ Len(chain) + 1 - i >= SettleDepth
    BY <1>1, <2>1
  <2>3. DeepIn(chain, a, c)
    BY <2>1, <2>2 DEF DeepIn
  <2> QED BY <1>1, <2>3, SettledIs
<1> QED BY <1>2, <1>3 DEF DutyIsWipe

-----------------------------------------------------------------------------
(* What the operations on the store have in common: a record goes when it  *)
(* is settled or when the attempt that saved it stops unsigned, comes with *)
(* the save of a running attempt, and a hold goes only from a coin that no *)
(* record is left to name, or that two pools have recorded.                *)

Steady(x) ==
  /\ x \in DOMAIN live /\ live'[x].phase = live[x].phase
  /\ live'[x].coin = live[x].coin

RecordsCareful ==
  /\ \A x \in DOMAIN recs :
       \/ x[1] \in clashed
       \/ x \in DOMAIN recs' /\ recs'[x] = recs[x]
       \/ Settled(x, recs[x])
       \/ /\ x \in DOMAIN live /\ live[x].phase = "saved"
          /\ x \in DOMAIN live' => live'[x].phase = "halted"
  /\ \A x \in DOMAIN recs' :
       \/ x \in DOMAIN recs /\ recs'[x] = recs[x]
       \/ x \in DOMAIN live /\ live[x].phase = "running" /\ ~Steady(x)

HoldsCareful ==
  \A x \in DOMAIN recs' : recs'[x] \in locks => recs'[x] \in locks' \/ Shared(x, recs'[x])

LiveCareful ==
  \A x \in DOMAIN live' :
    x \in DOMAIN recs => /\ x \in DOMAIN live
                         /\ live[x].phase = "stuck" => live'[x].phase = "stuck"

Careful ==
  /\ chain' = chain /\ copy' = copy /\ signed' = signed /\ lost' = lost
  /\ recorded \subseteq recorded' /\ clashed \subseteq clashed'
  /\ RecordsCareful /\ HoldsCareful /\ LiveCareful

(* A coin of two records stays one: records made are never unmade; and a   *)
(* hold that is excused stays so.                                          *)
LEMMA SharedStays ==
  ASSUME recorded \subseteq recorded', NEW a, NEW c, Shared(a, c)
  PROVE  Shared(a, c)'
  BY DEF Shared

LEMMA ExcusedStays ==
  ASSUME recorded \subseteq recorded', clashed \subseteq clashed', NEW c, Excused(c)
  PROVE  Excused(c)'
  BY DEF Excused

(* So does, but for what was signed and lost, which pools are open.        *)
LEMMA SameOpen ==
  ASSUME ChainOK, chain' = chain, signed' = signed, lost' = lost, NEW a
  PROVE  (Open(a)' <=> Open(a)) /\ \A c : Signs(a, c)' <=> Signs(a, c)
  BY SameChain DEF Open, Signs

(* A careful step keeps the records, holds and attempts of signed pools.   *)
LEMMA CarefulStep ==
  ASSUME Inv, Careful
  PROVE  /\ SignedIsKept' /\ Held' /\ Bare'
         /\ \A x \in DOMAIN live' : Steady(x) => Reach(x)'
<1>1. \A a : (Open(a)' <=> Open(a)) /\ \A c : Signs(a, c)' <=> Signs(a, c)
  BY SameOpen DEF Inv, Careful
<1>2. \A a, c : Settled(a, c)' <=> Settled(a, c)
  BY SameChain DEF Inv, Careful
<1>3. \A a, c : Shared(a, c) => Shared(a, c)'
  BY SharedStays DEF Careful
<1>4. \A a : Sole(a)' => Sole(a)
  BY <1>1 DEF Sole, Careful
<1>5. \A a \in Attempts : Sole(a) => /\ a \in DOMAIN recs' /\ recs'[a] = signed[a]
                                     /\ recs[a] = signed[a]
  <2> SUFFICES ASSUME NEW a \in Attempts, Sole(a)
               PROVE  a \in DOMAIN recs' /\ recs'[a] = signed[a] /\ recs[a] = signed[a]
    OBVIOUS
  <2>1. a \in DOMAIN recs /\ recs[a] = signed[a] /\ Open(a) /\ a[1] \notin clashed
    BY DEF Inv, SignedIsKept, Sole
  <2>2. ~Settled(a, recs[a])
    BY <2>1 DEF Open
  <2>3. ~(a \in DOMAIN live /\ live[a].phase = "saved")
    BY <2>1 DEF Inv, Reached, Reach, Saved
  <2> QED BY <2>1, <2>2, <2>3 DEF Careful, RecordsCareful
<1>6. SignedIsKept'
  BY <1>4, <1>5 DEF SignedIsKept, Careful
<1>7. Held'
  <2> SUFFICES ASSUME NEW a \in Attempts, Sole(a)'
               PROVE  (signed[a] \in locks \/ Shared(a, signed[a]))'
    BY DEF Held
  <2>1. Sole(a) /\ signed'[a] = signed[a]
    BY <1>4 DEF Careful
  <2>2. signed[a] \in locks \/ Shared(a, signed[a])
    BY <2>1 DEF Inv, Held
  <2>3. signed[a] \in locks' \/ Shared(a, signed[a])
    BY <1>5, <2>1, <2>2 DEF Careful, HoldsCareful
  <2> QED BY <1>3, <2>1, <2>3
<1>8. Bare'
  <2> SUFFICES ASSUME NEW a \in DOMAIN copy.recs PROVE Spare(a, copy.recs[a])'
    BY DEF Bare, Careful
  <2> DEFINE c == copy.recs[a]
  <2>1. Spare(a, c) /\ copy' = copy /\ clashed \subseteq clashed'
    BY DEF Inv, Bare, Careful
  <2>2. CASE a[1] \in clashed \/ c \in copy.locks \/ Shared(a, c) \/ Settled(a, c)
    BY <1>2, <1>3, <2>1, <2>2 DEF Spare
  <2>3. CASE /\ a \in DOMAIN recs /\ recs[a] = c /\ ~Signs(a, c)
             /\ a \in DOMAIN live => live[a].phase = "stuck"
    BY <1>1, <1>2, <2>1, <2>3 DEF Spare, Careful, RecordsCareful, LiveCareful
  <2> QED BY <2>1, <2>2, <2>3 DEF Spare
<1>9. ASSUME NEW x \in DOMAIN live', Steady(x) PROVE Reach(x)'
  <2> DEFINE c == live[x].coin
  <2>1. /\ x \in DOMAIN live /\ live'[x].phase = live[x].phase /\ live'[x].coin = c
        /\ Reach(x)
    BY <1>9 DEF Steady, Inv, Reached
  <2> SUFFICES ASSUME x[1] \notin clashed' PROVE Reach(x)'
    BY DEF Reach
  <2>2. x[1] \notin clashed
    BY DEF Careful
  <2>3. \A y \in DOMAIN recs' : y[1] = x[1] => y \in DOMAIN recs /\ recs'[y] = recs[y]
    BY <1>9, <2>1, <2>2 DEF Inv, Noted, Careful, RecordsCareful
  <2>4. OfPool(recs, x[1])' \subseteq OfPool(recs, x[1])
    BY <2>3 DEF OfPool
  <2>5. CASE live[x].phase = "saved"
    <3>1. Saved(x)
      BY <2>1, <2>2, <2>5 DEF Reach
    <3>2. x \in DOMAIN recs => x \in DOMAIN recs' \/ Settled(x, c)
      BY <2>1, <2>2, <2>5, <3>1 DEF Careful, RecordsCareful, Saved
    <3>3. x \in DOMAIN recs' /\ c \in locks => c \in locks' \/ Shared(x, c)
      BY <2>3, <3>1 DEF Careful, HoldsCareful, Saved
    <3>4. Saved(x)'
      BY <1>1, <1>2, <1>3, <2>1, <2>3, <2>4, <3>1, <3>2, <3>3 DEF Saved
    <3> QED BY <2>1, <2>5, <3>4 DEF Reach
  <2>6. CASE live[x].phase # "saved"
    BY <1>1, <2>1, <2>2, <2>3, <2>4, <2>6 DEF Reach
  <2> QED BY <2>5, <2>6
<1> QED BY <1>6, <1>7, <1>8, <1>9

(* What is left to show of a careful step.                                 *)
LEMMA CarefulInv ==
  ASSUME Inv, Careful, TypeOK', ChainOK', Recorded', Noted', NoOrphanHold',
         \A x \in DOMAIN live' : Steady(x) \/ Reach(x)'
  PROVE  Inv'
  BY CarefulStep DEF Inv, Reached

(* A step that leaves the records alone.                                   *)
LEMMA RecordsKept ==
  ASSUME Inv, chain' = chain, copy' = copy, signed' = signed, lost' = lost,
         recorded' = recorded, clashed \subseteq clashed', recs' = recs, HoldsCareful,
         LiveCareful
  PROVE  Careful /\ Recorded'
  BY DEF Inv, Careful, RecordsCareful, Recorded

(* The hold that goes with a seat is no record's.                          *)
LEMMA SeatDroppedLemma ==
  ASSUME Inv, NEW s \in DOMAIN seats, NEW cut \in BOOLEAN, SeatDropped(s, cut), recs' = recs,
         recorded' = recorded, clashed' = clashed
  PROVE  /\ IsMap(seats', Seats, Coins) /\ locks' \subseteq Coins /\ HoldsCareful
         /\ (~cut /\ Backed => Backed')
<1>1. IsMap(seats, Seats, Coins) /\ locks \subseteq Coins
  BY DEF Inv, TypeOK
<1>2. /\ IsMap(seats', Seats, Coins) /\ DOMAIN seats' = DOMAIN seats \ {s}
      /\ \A z \in DOMAIN seats : z # s => seats'[z] = seats[z]
  BY <1>1 DEF SeatDropped, IsMap, Drop
<1>3. locks' \subseteq locks
  BY DEF SeatDropped
<1>4. HoldsCareful
  BY DEF HoldsCareful, SeatDropped, Named, Vals
<1>5. ASSUME ~cut, Backed PROVE Backed'
  <2> SUFFICES ASSUME NEW c \in locks'
               PROVE  (c \in Named \/ c \in Vals(seats) \/ Excused(c))'
    BY DEF Backed
  <2>1. Named' = Named
    BY DEF Named
  <2>2. CASE c \in Named
    BY <2>1, <2>2
  <2>3. CASE Excused(c)
    BY <2>3, ExcusedStays
  <2>4. CASE c \notin Named /\ ~Excused(c)
    <3>1. c \in Vals(seats) /\ c # seats[s]
      BY <1>3, <1>5, <2>4 DEF SeatDropped, Backed
    <3>2. PICK z \in DOMAIN seats : c = seats[z]
      BY <3>1 DEF Vals
    <3>3. z \in DOMAIN seats' /\ seats'[z] = c
      BY <1>2, <3>1, <3>2
    <3> QED BY <3>3 DEF Vals
  <2> QED BY <2>2, <2>3, <2>4
<1> QED BY <1>1, <1>2, <1>3, <1>4, <1>5

-----------------------------------------------------------------------------
(* One lemma for each action.                                              *)

LEMMA WalkInv ==
  ASSUME Inv, Walk \/ \E h \in 0..scanned : Rollback(h)
  PROVE  Inv'
<1>1. /\ chain' = chain /\ copy' = copy /\ signed' = signed /\ lost' = lost
      /\ clashed' = clashed
      /\ recorded' = recorded /\ recs' = recs /\ locks' = locks /\ live' = live
      /\ seats' = seats /\ up' = up /\ sends' = sends
  BY DEF Walk, Rollback, storage, history
<1>2. Len(chain) \in Nat /\ scanned \in 0..Len(chain) /\ budget \in Budgets
  BY LenProperties DEF Inv, ChainOK
<1>3. /\ scanned' \in 0..Len(chain) /\ budget' \in Budgets
      /\ budget'.cuts = budget.cuts
  BY <1>2 DEF Walk, Rollback, Budgets
<1>4. HoldsCareful /\ LiveCareful
  BY <1>1 DEF HoldsCareful, LiveCareful
<1>5. Careful /\ Recorded'
  BY <1>1, <1>4, RecordsKept
<1>6. TypeOK' /\ ChainOK' /\ Noted'
  BY <1>1, <1>3 DEF Inv, TypeOK, ChainOK, Noted
<1>7. NoOrphanHold'
  BY <1>1, <1>3 DEF Inv, NoOrphanHold, Named, Vals
<1> QED BY <1>1, <1>5, <1>6, <1>7, CarefulInv DEF Steady

LEMMA SeatNewInv ==
  ASSUME Inv, NEW s \in Seats, NEW c \in Coins, NEW cut \in BOOLEAN, SeatNew(s, c, cut)
  PROVE  Inv'
<1>1. /\ chain' = chain /\ copy' = copy /\ signed' = signed /\ lost' = lost
      /\ clashed' = clashed
      /\ recorded' = recorded /\ recs' = recs /\ live' = live /\ up' = up
      /\ sends' = sends /\ scanned' = scanned /\ locks' = locks \cup {c}
      /\ s \notin DOMAIN seats
  BY DEF SeatNew, world, history
<1>2. /\ IsMap(seats', Seats, Coins) /\ \A z \in DOMAIN seats : z \in DOMAIN seats'
      /\ \A z \in DOMAIN seats : seats'[z] = seats[z]
      /\ ~cut => s \in DOMAIN seats' /\ seats'[s] = c
  BY <1>1 DEF SeatNew, Inv, TypeOK, IsMap, Put
<1>3. /\ budget' \in Budgets /\ budget'.cuts <= MaxCuts
      /\ budget'.cuts = MaxCuts => ~cut /\ budget.cuts = MaxCuts
  BY CutBudget DEF SeatNew, Inv
<1>4. Careful /\ Recorded'
  <2>1. HoldsCareful /\ LiveCareful
    BY <1>1 DEF HoldsCareful, LiveCareful
  <2> QED BY <1>1, <2>1, RecordsKept
<1>5. TypeOK' /\ ChainOK' /\ Noted'
  BY <1>1, <1>2, <1>3 DEF Inv, TypeOK, ChainOK, Noted
<1>6. NoOrphanHold'
  <2> SUFFICES ASSUME up, budget'.cuts = MaxCuts, NEW d \in locks \cup {c}
               PROVE  d \in Named' \/ d \in Vals(seats)' \/ Excused(d)
    BY <1>1 DEF NoOrphanHold, Excused
  <2>1. CASE d \in Named
    BY <1>1, <2>1 DEF Named, Vals
  <2>2. CASE d \in Vals(seats)
    BY <1>2, <2>2 DEF Vals
  <2>3. CASE d = c
    BY <1>2, <1>3, <2>3 DEF Vals
  <2> QED BY <1>3, <2>1, <2>2, <2>3 DEF Inv, NoOrphanHold, Excused
<1> QED BY <1>1, <1>4, <1>5, <1>6, CarefulInv DEF Steady

LEMMA SeatDropInv ==
  ASSUME Inv, NEW s \in Seats, NEW cut \in BOOLEAN, SeatDrop(s, cut)
  PROVE  Inv'
<1> DEFINE signing == {a \in DOMAIN live : a[2] = s /\ live[a].phase = "signed"}
<1>1. /\ chain' = chain /\ copy' = copy /\ signed' = signed /\ lost' = lost
      /\ clashed' = clashed
      /\ recorded' = recorded /\ recs' = recs /\ up' = up
      /\ sends' = sends /\ scanned' = scanned /\ s \in DOMAIN seats
  BY DEF SeatDrop, world, history
<1>2. CASE signing = {}
  <2>1. SeatDropped(s, cut) /\ Cut(cut) /\ live' = live
    BY <1>2 DEF SeatDrop
  <2>2. /\ IsMap(seats', Seats, Coins) /\ locks' \subseteq Coins /\ HoldsCareful
        /\ (~cut /\ Backed => Backed')
    BY <1>1, <2>1, SeatDroppedLemma
  <2>3. /\ budget' \in Budgets /\ budget'.cuts <= MaxCuts
        /\ budget'.cuts = MaxCuts => ~cut /\ budget.cuts = MaxCuts
    BY <2>1, CutBudget DEF Inv
  <2>4. Careful /\ Recorded'
    BY <1>1, <2>1, <2>2, RecordsKept DEF LiveCareful
  <2>5. TypeOK' /\ ChainOK' /\ Noted'
    BY <1>1, <2>1, <2>2, <2>3 DEF Inv, TypeOK, ChainOK, Noted
  <2>6. NoOrphanHold'
    BY <1>1, <2>2, <2>3 DEF Inv, NoOrphanHold, Backed, Excused
  <2> QED BY <2>1, <2>4, <2>5, <2>6, CarefulInv DEF Steady
<1>3. CASE signing # {}
  <2>1. /\ seats' = seats /\ locks' = locks /\ budget' = budget
        /\ live' = [a \in DOMAIN live |->
                      IF a \in signing THEN [live[a] EXCEPT !.dropAfter = TRUE]
                                        ELSE live[a]]
    BY <1>3 DEF SeatDrop
  <2>2. \A a \in DOMAIN live :
          LET l == [live[a] EXCEPT !.dropAfter = TRUE]
          IN  /\ l \in Phones /\ live[a] \in Phones
              /\ l.phase = live[a].phase /\ l.coin = live[a].coin
    <3> SUFFICES ASSUME NEW a \in DOMAIN live
                 PROVE  LET l == [live[a] EXCEPT !.dropAfter = TRUE]
                        IN  /\ l \in Phones /\ live[a] \in Phones
                            /\ l.phase = live[a].phase /\ l.coin = live[a].coin
      OBVIOUS
    <3>1. live[a] \in Phones
      BY DEF Inv, TypeOK, IsMap
    <3> QED BY <3>1 DEF Phones
  <2>3. /\ IsMap(live', Attempts, Phones) /\ DOMAIN live' = DOMAIN live
        /\ \A a \in DOMAIN live : /\ live'[a].phase = live[a].phase
                                  /\ live'[a].coin = live[a].coin
    BY <2>1, <2>2 DEF Inv, TypeOK, IsMap
  <2>4. Careful /\ Recorded'
    BY <1>1, <2>1, <2>3, RecordsKept DEF LiveCareful, HoldsCareful
  <2>5. TypeOK' /\ ChainOK' /\ Noted'
    BY <1>1, <2>1, <2>3 DEF Inv, TypeOK, ChainOK, Noted
  <2>6. NoOrphanHold'
    BY <1>1, <2>1 DEF Inv, NoOrphanHold, Named
  <2> QED BY <2>3, <2>4, <2>5, <2>6, CarefulInv DEF Steady
<1> QED BY <1>2, <1>3

LEMMA StartInv ==
  ASSUME Inv, NEW id \in Pools, NEW s \in Seats, Start(id, s)
  PROVE  Inv'
<1> DEFINE a == <<id, s>>
           l == [coin |-> seats[s], phase |-> "running", dropAfter |-> FALSE]
<1>1. /\ chain' = chain /\ copy' = copy /\ signed' = signed /\ lost' = lost
      /\ recorded' = recorded /\ recs' = recs /\ up' = up /\ locks' = locks /\ seats' = seats
      /\ sends' = sends /\ scanned' = scanned /\ s \in DOMAIN seats
      /\ OfPool(recs, id) = {} /\ \A x \in DOMAIN live : x[2] # s
      /\ live' = Put(live, a, l) /\ budget' = [budget EXCEPT !.starts = @ - 1]
      /\ budget.starts > 0
      /\ clashed' = IF OfPool(live, id) = {} THEN clashed ELSE clashed \cup {id}
  BY DEF Start, Run, world, history, storage
<1>2. l \in Phones /\ l.phase = "running" /\ a \in Attempts /\ a[1] = id /\ a[2] = s
  BY <1>1 DEF Phones, Attempts, Inv, TypeOK, IsMap
<1> HIDE DEF a, l
<1>3. /\ IsMap(live', Attempts, Phones) /\ DOMAIN live' = DOMAIN live \cup {a}
      /\ live'[a] = l /\ a \notin DOMAIN live /\ \A z \in DOMAIN live : live'[z] = live[z]
  BY <1>1, <1>2 DEF Inv, TypeOK, IsMap, Put
<1>4. clashed \subseteq clashed' /\ clashed' \subseteq Pools
  BY <1>1 DEF Inv, TypeOK
<1>5. Careful /\ Recorded'
  <2>1. HoldsCareful
    BY <1>1 DEF HoldsCareful
  <2>2. LiveCareful
    BY <1>1, <1>2, <1>3 DEF LiveCareful, OfPool
  <2> QED BY <1>1, <1>4, <2>1, <2>2, RecordsKept
<1>6. budget' \in Budgets /\ budget'.cuts = budget.cuts
  BY <1>1 DEF Inv, ChainOK, Budgets
<1>7. TypeOK' /\ ChainOK'
  <2>1. \A x, y \in DOMAIN live' : x[2] = y[2] => x = y
    BY <1>1, <1>2, <1>3 DEF Inv, TypeOK
  <2> QED BY <1>1, <1>3, <1>4, <1>6, <2>1 DEF Inv, TypeOK, ChainOK
<1>8. Noted'
  <2> SUFFICES ASSUME NEW x \in DOMAIN live', NEW y \in DOMAIN live',
                      x[1] = y[1], x[1] \notin clashed', x # y
               PROVE  FALSE
    BY DEF Noted
  <2>1. x[1] \notin clashed
    BY <1>4
  <2>2. CASE x # a /\ y # a
    BY <1>3, <2>1, <2>2 DEF Inv, Noted
  <2>3. CASE x = a \/ y = a
    BY <1>1, <1>2, <1>3, <2>3 DEF OfPool
  <2> QED BY <2>2, <2>3
<1>9. NoOrphanHold'
  BY <1>1, <1>4, <1>6 DEF Inv, NoOrphanHold, Named
<1>10. Reach(a)'
  <2> SUFFICES ASSUME a[1] \notin clashed' PROVE ~Open(a)' /\ OfPool(recs, a[1])' = {}
    BY <1>2, <1>3 DEF Reach
  <2>1. OfPool(recs, a[1])' = {} /\ a \notin DOMAIN recs
    BY <1>1, <1>2 DEF OfPool
  <2>2. ~Open(a)
    BY <1>2, <1>4, <2>1 DEF Inv, SignedIsKept, Sole
  <2> QED BY <1>1, <2>1, <2>2, SameOpen DEF Inv
<1>11. \A x \in DOMAIN live' : Steady(x) \/ Reach(x)'
  BY <1>3, <1>10 DEF Steady
<1> QED BY <1>5, <1>7, <1>8, <1>9, <1>11, CarefulInv

LEMMA RecordSaveInv ==
  ASSUME Inv, NEW a \in Attempts, NEW cut \in BOOLEAN, RecordSave(a, cut)
  PROVE  Inv'
<1> DEFINE c == live[a].coin
           p == IF cut THEN "stuck" ELSE "saved"
<1>1. /\ chain' = chain /\ copy' = copy /\ signed' = signed /\ lost' = lost
      /\ clashed' = clashed
      /\ recorded' = recorded \cup {<<a, c>>} /\ recs' = Put(Without(recs, a[1]), a, c)
      /\ up' = up /\ seats' = seats /\ sends' = sends /\ scanned' = scanned
      /\ a \in DOMAIN live /\ live[a].phase = "running" /\ Cut(cut)
      /\ locks \subseteq locks' /\ (~cut => c \in locks') /\ locks' \subseteq locks \cup {c}
      /\ live' = [live EXCEPT ![a].phase = p]
  BY DEF RecordSave, world
<1>2. c \in Coins /\ p \in Phases
  BY <1>1 DEF Inv, TypeOK, IsMap, Phones, Phases
<1>3. a[1] \notin clashed => OfPool(recs, a[1]) = {} /\ ~Open(a)
  BY <1>1 DEF Inv, Reached, Reach
<1>4. /\ IsMap(recs', Attempts, Coins) /\ a \in DOMAIN recs' /\ recs'[a] = c
      /\ \A z \in DOMAIN recs' : z # a => /\ z \in DOMAIN recs /\ recs'[z] = recs[z]
                                          /\ z[1] # a[1]
      /\ \A z \in DOMAIN recs : z[1] # a[1] => z \in DOMAIN recs' /\ recs'[z] = recs[z]
  <2>1. IsMap(recs, Attempts, Coins)
    BY DEF Inv, TypeOK
  <2>2. /\ DOMAIN Without(recs, a[1]) = DOMAIN recs \ OfPool(recs, a[1])
        /\ \A z \in DOMAIN recs \ OfPool(recs, a[1]) : Without(recs, a[1])[z] = recs[z]
    BY DEF Without
  <2>3. /\ DOMAIN recs' = (DOMAIN recs \ OfPool(recs, a[1])) \cup {a}
        /\ \A z \in DOMAIN recs' : recs'[z] = IF z = a THEN c ELSE recs[z]
    BY <1>1, <2>2 DEF Put
  <2>4. recs' \in [DOMAIN recs' -> Coins]
    BY <1>1, <1>2, <2>1, <2>2, <2>3 DEF Put, IsMap
  <2> QED BY <2>1, <2>3, <2>4 DEF IsMap, OfPool
<1>5. /\ IsMap(live', Attempts, Phones) /\ DOMAIN live' = DOMAIN live
      /\ live'[a].phase = p /\ live'[a].coin = live[a].coin
      /\ \A z \in DOMAIN live : z # a => live'[z] = live[z]
  <2> HIDE DEF p
  <2>1. IsMap(live, Attempts, Phones) /\ a \in DOMAIN live
    BY <1>1 DEF Inv, TypeOK
  <2> QED BY <1>1, <1>2, <2>1 DEF IsMap, Phones, Phases
<1>6. /\ budget' \in Budgets /\ budget'.cuts <= MaxCuts
      /\ budget'.cuts = MaxCuts => ~cut /\ budget.cuts = MaxCuts
  BY <1>1, CutBudget DEF Inv
<1>7. Careful
  <2>1. RecordsCareful
    BY <1>1, <1>3, <1>4, <1>5 DEF RecordsCareful, Steady, OfPool
  <2>2. HoldsCareful /\ LiveCareful
    BY <1>1, <1>5 DEF HoldsCareful, LiveCareful
  <2> QED BY <1>1, <2>1, <2>2 DEF Careful
<1>8. Recorded'
  BY <1>1, <1>4 DEF Inv, Recorded
<1>9. TypeOK' /\ ChainOK' /\ Noted'
  <2>1. \A x, y \in DOMAIN recs' : x[1] = y[1] => x = y
    BY <1>4 DEF Inv, TypeOK
  <2> QED BY <1>1, <1>2, <1>4, <1>5, <1>6, <2>1 DEF Inv, TypeOK, ChainOK, Noted
<1>10. NoOrphanHold'
  <2> SUFFICES ASSUME up, budget'.cuts = MaxCuts, NEW d \in locks'
               PROVE  d \in Named' \/ d \in Vals(seats)' \/ Excused(d)'
    BY <1>1 DEF NoOrphanHold, Excused
  <2>1. CASE d \in Named
    <3>1. PICK z \in DOMAIN recs : d = recs[z]
      BY <2>1 DEF Named, Vals
    <3>2. CASE z[1] = a[1]
      <4>1. a[1] \in clashed /\ z \in Attempts /\ <<z, d>> \in recorded
        BY <1>3, <3>1, <3>2 DEF OfPool, Inv, TypeOK, IsMap, Recorded
      <4> QED BY <1>1, <3>2, <4>1 DEF Excused
    <3>3. CASE z[1] # a[1]
      BY <1>4, <3>1, <3>3 DEF Named, Vals
    <3> QED BY <3>2, <3>3
  <2>2. CASE d \in Vals(seats)
    BY <1>1, <2>2 DEF Vals
  <2>3. CASE d = c
    BY <1>4, <2>3 DEF Named, Vals
  <2>4. CASE Excused(d)
    BY <1>1, <2>4, ExcusedStays
  <2> QED BY <1>1, <1>6, <2>1, <2>2, <2>3, <2>4 DEF Inv, NoOrphanHold, Excused
<1>11. Reach(a)'
  <2> SUFFICES ASSUME a[1] \notin clashed PROVE ~Open(a)' /\ (~cut => Saved(a)')
    BY <1>1, <1>5 DEF Reach
  <2>1. ~Open(a)'
    BY <1>1, <1>3, SameOpen DEF Inv
  <2>2. OfPool(recs, a[1])' \subseteq {a}
    BY <1>4 DEF OfPool
  <2> QED BY <1>1, <1>4, <1>5, <2>1, <2>2 DEF Saved
<1>12. \A x \in DOMAIN live' : Steady(x) \/ Reach(x)'
  BY <1>5, <1>11 DEF Steady
<1> QED BY <1>7, <1>8, <1>9, <1>10, <1>12, CarefulInv

(* The records of a pool id go.                                            *)
LEMMA WithoutLemma ==
  ASSUME Inv, NEW id, recs' = Without(recs, id)
  PROVE  /\ IsMap(recs', Attempts, Coins) /\ DOMAIN recs' = DOMAIN recs \ OfPool(recs, id)
         /\ \A z \in DOMAIN recs' : recs'[z] = recs[z] /\ z[1] # id
         /\ \A z \in DOMAIN recs : z \in DOMAIN recs' \/ z[1] = id
<1>1. IsMap(recs, Attempts, Coins)
  BY DEF Inv, TypeOK
<1> QED BY <1>1 DEF Without, OfPool, IsMap

(* The record that is wiped, and the hold with it.                         *)
LEMMA WipeLemma ==
  ASSUME Inv, NEW id, NEW cut \in BOOLEAN, RecordWipe(id, cut), seats' = seats,
         recorded' = recorded, clashed' = clashed
  PROVE  locks' \subseteq Coins /\ HoldsCareful /\ (~cut /\ Backed => Backed')
<1> DEFINE gone == {recs[y] : y \in OfPool(recs, id)}
<1>1. /\ DOMAIN recs' = DOMAIN recs \ OfPool(recs, id)
      /\ \A z \in DOMAIN recs' : recs'[z] = recs[z] /\ z[1] # id
  BY WithoutLemma DEF RecordWipe
<1>2. /\ locks' \subseteq locks /\ locks \subseteq Coins
      /\ \A c \in locks : c \in locks' \/ c \in gone
      /\ ~cut => locks' = locks \ gone
  BY DEF RecordWipe, Inv, TypeOK
<1>3. HoldsCareful
  <2> SUFFICES ASSUME NEW x \in DOMAIN recs', recs'[x] \in locks, recs'[x] \notin locks'
               PROVE  Shared(x, recs'[x])
    BY DEF HoldsCareful
  <2>1. PICK y \in DOMAIN recs : y[1] = id /\ recs'[x] = recs[y]
    BY <1>2 DEF OfPool
  <2>2. y # x /\ y \in Attempts /\ <<y, recs[y]>> \in recorded
    BY <1>1, <2>1 DEF Inv, TypeOK, IsMap, Recorded
  <2> QED BY <2>1, <2>2 DEF Shared
<1>4. ASSUME ~cut, Backed PROVE Backed'
  <2> SUFFICES ASSUME NEW c \in locks'
               PROVE  (c \in Named \/ c \in Vals(seats) \/ Excused(c))'
    BY DEF Backed
  <2>1. CASE c \in Vals(seats)
    BY <2>1 DEF Vals
  <2>2. CASE c \in Named
    <3>1. PICK z \in DOMAIN recs : c = recs[z]
      BY <2>2 DEF Named, Vals
    <3>2. z \notin OfPool(recs, id)
      BY <1>2, <1>4, <3>1
    <3> QED BY <1>1, <3>1, <3>2 DEF Named, Vals
  <2>3. CASE Excused(c)
    BY <2>3, ExcusedStays
  <2> QED BY <1>2, <1>4, <2>1, <2>2, <2>3 DEF Backed
<1> QED BY <1>2, <1>3, <1>4

(* The record and the seat go, one after the other.                        *)
LEMMA WipeAndLeaveLemma ==
  ASSUME Inv, NEW id, NEW s \in DOMAIN seats, recorded' = recorded, clashed' = clashed,
         recs' = Without(recs, id), seats' = Drop(seats, s),
         locks' = locks \ ({recs[x] : x \in OfPool(recs, id)}
                             \cup ({seats[s]} \ Vals(recs')))
  PROVE  /\ IsMap(seats', Seats, Coins) /\ locks' \subseteq Coins /\ HoldsCareful
         /\ (Backed => Backed')
<1> DEFINE gone == {recs[y] : y \in OfPool(recs, id)}
<1>1. /\ DOMAIN recs' = DOMAIN recs \ OfPool(recs, id)
      /\ \A z \in DOMAIN recs' : recs'[z] = recs[z] /\ z[1] # id
  BY WithoutLemma
<1>2. /\ IsMap(seats', Seats, Coins) /\ DOMAIN seats' = DOMAIN seats \ {s}
      /\ \A z \in DOMAIN seats : z # s => seats'[z] = seats[z]
  BY DEF Drop, IsMap, Inv, TypeOK
<1>3. locks' \subseteq Coins
  BY DEF Inv, TypeOK
<1>4. HoldsCareful
  <2> SUFFICES ASSUME NEW x \in DOMAIN recs', recs'[x] \in locks, recs'[x] \notin locks'
               PROVE  Shared(x, recs'[x])
    BY DEF HoldsCareful
  <2>1. recs'[x] \in Vals(recs')
    BY DEF Vals
  <2>2. PICK y \in DOMAIN recs : y[1] = id /\ recs'[x] = recs[y]
    BY <2>1 DEF OfPool
  <2>3. y # x /\ y \in Attempts /\ <<y, recs[y]>> \in recorded
    BY <1>1, <2>2 DEF Inv, TypeOK, IsMap, Recorded
  <2> QED BY <2>2, <2>3 DEF Shared
<1>5. ASSUME Backed PROVE Backed'
  <2> SUFFICES ASSUME NEW c \in locks'
               PROVE  (c \in Named \/ c \in Vals(seats) \/ Excused(c))'
    BY DEF Backed
  <2>1. CASE c \in Vals(seats)
    <3>1. PICK z \in DOMAIN seats : c = seats[z]
      BY <2>1 DEF Vals
    <3>2. CASE z = s
      <4>1. c \in Vals(recs')
        BY <3>1, <3>2
      <4> QED BY <4>1 DEF Named, Vals
    <3>3. CASE z # s
      BY <1>2, <3>1, <3>3 DEF Vals
    <3> QED BY <3>2, <3>3
  <2>2. CASE c \in Named
    <3>1. PICK z \in DOMAIN recs : c = recs[z]
      BY <2>2 DEF Named, Vals
    <3>2. z \notin OfPool(recs, id)
      BY <3>1
    <3> QED BY <1>1, <3>1, <3>2 DEF Named, Vals
  <2>3. CASE Excused(c)
    BY <2>3, ExcusedStays
  <2> QED BY <1>5, <2>1, <2>2, <2>3 DEF Backed
<1> QED BY <1>2, <1>3, <1>4, <1>5

LEMMA StopInv ==
  ASSUME Inv, NEW a \in Attempts, NEW solo \in BOOLEAN, NEW cut \in BOOLEAN,
         Stop(a, solo, cut)
  PROVE  Inv'
<1> DEFINE s == a[2]
           saved == live[a].phase = "saved"
           leaves == solo /\ s \in DOMAIN seats
<1>1. /\ chain' = chain /\ copy' = copy /\ signed' = signed /\ lost' = lost
      /\ clashed' = clashed
      /\ recorded' = recorded /\ up' = up /\ sends' = sends /\ scanned' = scanned
      /\ a \in DOMAIN live /\ Cut(cut)
  BY DEF Stop, world, history
<1>2. /\ budget' \in Budgets /\ budget'.cuts <= MaxCuts
      /\ budget'.cuts = MaxCuts => ~cut /\ budget.cuts = MaxCuts
  BY <1>1, CutBudget DEF Inv
<1>3. /\ IsMap(live', Attempts, Phones) /\ DOMAIN live' \subseteq DOMAIN live
      /\ \A z \in DOMAIN live' : z # a => live'[z] = live[z]
      /\ a \in DOMAIN live' => saved /\ live'[a].phase = "halted"
  <2>1. CASE saved /\ cut
    <3>1. live' = [live EXCEPT ![a].phase = "halted"]
      BY <2>1 DEF Stop
    <3> QED BY <1>1, <2>1, <3>1 DEF Inv, TypeOK, IsMap, Phones
  <2>2. CASE ~(saved /\ cut)
    <3>1. live' = Drop(live, a)
      BY <2>2 DEF Stop
    <3> QED BY <3>1 DEF Inv, TypeOK, IsMap, Drop
  <2> QED BY <2>1, <2>2
<1>4. /\ IsMap(recs', Attempts, Coins) /\ IsMap(seats', Seats, Coins) /\ locks' \subseteq Coins
      /\ DOMAIN recs' \subseteq DOMAIN recs /\ \A z \in DOMAIN recs' : recs'[z] = recs[z]
      /\ \A z \in DOMAIN recs : z \in DOMAIN recs' \/ (z[1] = a[1] /\ saved)
      /\ saved => a \notin DOMAIN recs'
      /\ HoldsCareful /\ (~cut /\ Backed => Backed')
  <2>1. CASE ~saved /\ ~leaves /\ UNCHANGED storage
    <3>1. recs' = recs /\ locks' = locks /\ seats' = seats
      BY <2>1 DEF storage
    <3>2. HoldsCareful /\ (Backed => Backed')
      BY <1>1, <3>1 DEF HoldsCareful, Named, Backed, Excused
    <3> QED BY <2>1, <3>1, <3>2 DEF Inv, TypeOK
  <2>2. CASE ~saved /\ leaves /\ SeatDropped(s, cut) /\ UNCHANGED recs
    <3>1. s \in DOMAIN seats /\ recs' = recs
      BY <2>2
    <3> HIDE DEF s
    <3>2. /\ IsMap(seats', Seats, Coins) /\ locks' \subseteq Coins /\ HoldsCareful
          /\ (~cut /\ Backed => Backed')
      BY <1>1, <2>2, <3>1, SeatDroppedLemma
    <3> QED BY <2>2, <3>1, <3>2 DEF Inv, TypeOK
  <2>3. CASE saved /\ (cut \/ ~leaves) /\ RecordWipe(a[1], cut) /\ UNCHANGED seats
    <3>1. locks' \subseteq Coins /\ HoldsCareful /\ (~cut /\ Backed => Backed')
      BY <1>1, <2>3, WipeLemma
    <3>2. /\ IsMap(recs', Attempts, Coins) /\ DOMAIN recs' \subseteq DOMAIN recs
          /\ \A z \in DOMAIN recs' : recs'[z] = recs[z] /\ z[1] # a[1]
          /\ \A z \in DOMAIN recs : z \in DOMAIN recs' \/ z[1] = a[1]
      BY <2>3, WithoutLemma DEF RecordWipe
    <3> QED BY <2>3, <3>1, <3>2 DEF Inv, TypeOK
  <2>4. CASE /\ saved /\ leaves /\ ~cut
             /\ recs' = Without(recs, a[1]) /\ seats' = Drop(seats, s)
             /\ locks' = locks \ ({recs[x] : x \in OfPool(recs, a[1])}
                                    \cup ({seats[s]} \ Vals(recs')))
    <3>1. s \in DOMAIN seats
      BY <2>4
    <3> HIDE DEF s
    <3>2. /\ IsMap(seats', Seats, Coins) /\ locks' \subseteq Coins /\ HoldsCareful
          /\ (Backed => Backed')
      BY <1>1, <2>4, <3>1, WipeAndLeaveLemma
    <3>3. /\ IsMap(recs', Attempts, Coins) /\ DOMAIN recs' \subseteq DOMAIN recs
          /\ \A z \in DOMAIN recs' : recs'[z] = recs[z] /\ z[1] # a[1]
          /\ \A z \in DOMAIN recs : z \in DOMAIN recs' \/ z[1] = a[1]
      BY <2>4, WithoutLemma
    <3> QED BY <2>4, <3>2, <3>3
  <2> QED BY <2>1, <2>2, <2>3, <2>4 DEF Stop
<1> HIDE DEF s, saved, leaves
<1>5. saved = (live[a].phase = "saved")
  BY DEF saved
<1>6. saved /\ a[1] \notin clashed => Saved(a)
  BY <1>1, <1>5 DEF Inv, Reached, Reach
<1>7. Careful
  <2>1. \A z \in DOMAIN recs : z[1] = a[1] /\ saved => z[1] \in clashed \/ z = a
    BY <1>6 DEF Saved, OfPool
  <2>2. RecordsCareful
    BY <1>1, <1>3, <1>4, <1>5, <2>1 DEF RecordsCareful
  <2>3. LiveCareful
    BY <1>3, <1>5 DEF LiveCareful
  <2> QED BY <1>1, <1>4, <2>2, <2>3 DEF Careful
<1>8. Recorded'
  BY <1>1, <1>4 DEF Inv, Recorded
<1>9. TypeOK' /\ ChainOK' /\ Noted'
  BY <1>1, <1>2, <1>3, <1>4 DEF Inv, TypeOK, ChainOK, Noted
<1>10. NoOrphanHold'
  BY <1>1, <1>2, <1>4 DEF Inv, NoOrphanHold, Backed, Excused
<1>11. \A x \in DOMAIN live' : Steady(x) \/ Reach(x)'
  <2> SUFFICES ASSUME NEW x \in DOMAIN live' PROVE Steady(x) \/ Reach(x)'
    OBVIOUS
  <2>1. CASE x # a
    BY <1>3, <2>1 DEF Steady
  <2>2. CASE x = a
    <3> SUFFICES ASSUME a[1] \notin clashed PROVE Reach(a)'
      BY <1>1, <2>2 DEF Reach
    <3>1. ~Open(a)
      BY <1>3, <1>6, <2>2 DEF Saved
    <3>2. ~Open(a)'
      BY <1>1, <3>1, SameOpen DEF Inv
    <3> QED BY <1>3, <1>4, <2>2, <3>2 DEF Reach
  <2> QED BY <2>1, <2>2
<1> QED BY <1>7, <1>8, <1>9, <1>10, <1>11, CarefulInv

LEMMA NoticeInv ==
  ASSUME Inv, NEW a \in Attempts, Notice(a)
  PROVE  Inv'
<1>1. /\ chain' = chain /\ copy' = copy /\ signed' = signed /\ lost' = lost
      /\ clashed' = clashed
      /\ recorded' = recorded /\ recs' = recs /\ up' = up /\ locks' = locks /\ seats' = seats
      /\ sends' = sends /\ scanned' = scanned /\ budget' = budget
      /\ live' = Drop(live, a)
  BY DEF Notice, world, history, storage
<1>2. /\ IsMap(live', Attempts, Phones) /\ DOMAIN live' \subseteq DOMAIN live
      /\ \A z \in DOMAIN live' : live'[z] = live[z]
  BY <1>1 DEF Inv, TypeOK, IsMap, Drop
<1>3. Careful /\ Recorded'
  BY <1>1, <1>2, RecordsKept DEF LiveCareful, HoldsCareful
<1>4. TypeOK' /\ ChainOK' /\ Noted'
  BY <1>1, <1>2 DEF Inv, TypeOK, ChainOK, Noted
<1>5. NoOrphanHold'
  BY <1>1 DEF Inv, NoOrphanHold, Named
<1> QED BY <1>2, <1>3, <1>4, <1>5, CarefulInv DEF Steady

LEMMA EndedInv ==
  ASSUME Inv, NEW a \in Attempts, NEW seatToo \in BOOLEAN, NEW cut \in BOOLEAN,
         Ended(a, seatToo, cut)
  PROVE  Inv'
<1>1. /\ chain' = chain /\ copy' = copy /\ signed' = signed /\ lost' = lost
      /\ clashed' = clashed
      /\ recorded' = recorded /\ recs' = recs /\ up' = up
      /\ sends' = sends /\ scanned' = scanned /\ live' = Drop(live, a)
  BY DEF Ended, world, history
<1>2. /\ IsMap(live', Attempts, Phones) /\ DOMAIN live' \subseteq DOMAIN live
      /\ \A z \in DOMAIN live' : live'[z] = live[z]
  BY <1>1 DEF Inv, TypeOK, IsMap, Drop
<1>3. /\ IsMap(seats', Seats, Coins) /\ locks' \subseteq Coins /\ HoldsCareful
      /\ (~cut /\ Backed => Backed')
      /\ budget' \in Budgets /\ budget'.cuts <= MaxCuts
      /\ budget'.cuts = MaxCuts => ~cut /\ budget.cuts = MaxCuts
  <2>1. CASE seatToo /\ a[2] \in DOMAIN seats
    <3>1. SeatDropped(a[2], cut) /\ Cut(cut)
      BY <2>1 DEF Ended
    <3>2. /\ IsMap(seats', Seats, Coins) /\ locks' \subseteq Coins /\ HoldsCareful
          /\ (~cut /\ Backed => Backed')
      BY <1>1, <2>1, <3>1, SeatDroppedLemma
    <3>3. /\ budget' \in Budgets /\ budget'.cuts <= MaxCuts
          /\ budget'.cuts = MaxCuts => ~cut /\ budget.cuts = MaxCuts
      BY <3>1, CutBudget DEF Inv
    <3> QED BY <3>2, <3>3
  <2>2. CASE ~(seatToo /\ a[2] \in DOMAIN seats)
    <3>1. ~cut /\ seats' = seats /\ locks' = locks /\ budget' = budget
      BY <2>2 DEF Ended
    <3>2. HoldsCareful /\ (Backed => Backed')
      BY <1>1, <3>1 DEF HoldsCareful, Named, Backed, Excused
    <3> QED BY <3>1, <3>2 DEF Inv, TypeOK, ChainOK, Noted
  <2> QED BY <2>1, <2>2
<1>4. Careful /\ Recorded'
  BY <1>1, <1>2, <1>3, RecordsKept DEF LiveCareful
<1>5. TypeOK' /\ ChainOK' /\ Noted'
  BY <1>1, <1>2, <1>3 DEF Inv, TypeOK, ChainOK, Noted
<1>6. NoOrphanHold'
  BY <1>1, <1>3 DEF Inv, NoOrphanHold, Backed, Excused
<1> QED BY <1>2, <1>4, <1>5, <1>6, CarefulInv DEF Steady

LEMMA GiveUpInv ==
  ASSUME Inv, NEW a \in Attempts, NEW cut \in BOOLEAN, GiveUp(a, cut)
  PROVE  Inv'
<1>1. live[a].dropAfter \in BOOLEAN /\ Ended(a, live[a].dropAfter, cut)
  BY DEF GiveUp, Inv, TypeOK, IsMap, Phones
<1> QED BY <1>1, EndedInv

LEMMA SettlePassInv ==
  ASSUME Inv, NEW done \in SUBSET DOMAIN recs, NEW cut \in BOOLEAN, SettlePass(done, cut)
  PROVE  Inv'
<1>1. /\ chain' = chain /\ copy' = copy /\ signed' = signed /\ lost' = lost
      /\ clashed' = clashed
      /\ recorded' = recorded /\ up' = up /\ sends' = sends /\ scanned' = scanned
      /\ live' = live /\ seats' = seats /\ Cut(cut)
      /\ recs' = [a \in DOMAIN recs \ done |-> recs[a]]
      /\ \A x \in done : DutyIsWipe(x)
  BY DEF SettlePass, world, history
<1>2. /\ budget' \in Budgets /\ budget'.cuts <= MaxCuts
      /\ budget'.cuts = MaxCuts => ~cut /\ budget.cuts = MaxCuts
  BY <1>1, CutBudget DEF Inv
<1>3. /\ IsMap(recs', Attempts, Coins) /\ DOMAIN recs' = DOMAIN recs \ done
      /\ \A z \in DOMAIN recs' : recs'[z] = recs[z]
  BY <1>1 DEF Inv, TypeOK, IsMap
<1>4. /\ locks' \subseteq locks
      /\ \A c \in locks : c \notin locks' => \E x \in done : c = recs[x]
      /\ ~cut => \A x \in done : recs[x] \notin locks'
  BY DEF SettlePass
<1>5. \A x \in done : Settled(x, recs[x])
  BY <1>1, WipeIsSettled DEF Inv
<1>6. Careful
  <2>1. RecordsCareful
    BY <1>3, <1>5 DEF RecordsCareful
  <2>2. LiveCareful
    BY <1>1 DEF LiveCareful
  <2>3. HoldsCareful
    <3> SUFFICES ASSUME NEW x \in DOMAIN recs', recs'[x] \in locks, recs'[x] \notin locks'
                 PROVE  Shared(x, recs'[x])
      BY DEF HoldsCareful
    <3>1. PICK y \in done : recs'[x] = recs[y]
      BY <1>4
    <3>2. y # x /\ y \in Attempts /\ <<y, recs[y]>> \in recorded
      BY <1>3 DEF Inv, TypeOK, IsMap, Recorded
    <3> QED BY <3>1, <3>2 DEF Shared
  <2> QED BY <1>1, <2>1, <2>2, <2>3 DEF Careful
<1>7. Recorded'
  BY <1>1, <1>3 DEF Inv, Recorded
<1>8. TypeOK' /\ ChainOK' /\ Noted'
  BY <1>1, <1>2, <1>3, <1>4 DEF Inv, TypeOK, ChainOK, Noted
<1>9. NoOrphanHold'
  <2> SUFFICES ASSUME up, budget'.cuts = MaxCuts, NEW d \in locks'
               PROVE  d \in Named' \/ d \in Vals(seats)' \/ Excused(d)
    BY <1>1 DEF NoOrphanHold, Excused
  <2>1. CASE d \in Named
    <3>1. PICK z \in DOMAIN recs : d = recs[z]
      BY <2>1 DEF Named, Vals
    <3>2. z \in DOMAIN recs'
      BY <1>2, <1>3, <1>4, <3>1
    <3> QED BY <1>3, <3>1, <3>2 DEF Named, Vals
  <2>2. CASE d \in Vals(seats)
    BY <1>1, <2>2 DEF Vals
  <2> QED BY <1>2, <1>4, <2>1, <2>2 DEF Inv, NoOrphanHold, Excused
<1> QED BY <1>1, <1>6, <1>7, <1>8, <1>9, CarefulInv DEF Steady

LEMMA SendInv ==
  ASSUME Inv, NEW c \in Coins, Send(c) \/ KeepOut(c)
  PROVE  Inv'
<1>1. /\ chain' = chain /\ copy' = copy /\ signed' = signed /\ lost' = lost
      /\ clashed' = clashed
      /\ recorded' = recorded /\ recs' = recs /\ locks' = locks /\ live' = live
      /\ seats' = seats /\ up' = up /\ scanned' = scanned /\ budget' = budget
  BY DEF Send, KeepOut, storage, history
<1>2. IsMap(sends', Coins, {"send", "keepout"})
  BY DEF Send, KeepOut, Inv, TypeOK, IsMap, Put
<1>3. Careful /\ Recorded'
  BY <1>1, RecordsKept DEF HoldsCareful, LiveCareful
<1>4. TypeOK' /\ ChainOK' /\ Noted'
  BY <1>1, <1>2 DEF Inv, TypeOK, ChainOK, Noted
<1>5. NoOrphanHold'
  BY <1>1 DEF Inv, NoOrphanHold, Named
<1> QED BY <1>1, <1>3, <1>4, <1>5, CarefulInv DEF Steady

LEMMA PageInv ==
  ASSUME Inv, Crash \/ Boot
  PROVE  Inv'
<1>1. /\ chain' = chain /\ copy' = copy /\ signed' = signed /\ lost' = lost
      /\ clashed' = clashed
      /\ recorded' = recorded /\ recs' = recs
      /\ seats' = seats /\ sends' = sends /\ scanned' = scanned /\ budget' = budget
  BY DEF Crash, Boot, storage, history, world
<1>2. /\ IsMap(live', Attempts, Phones) /\ live' \in {live, Empty}
      /\ DOMAIN live' \subseteq DOMAIN live /\ \A x \in DOMAIN live' : live'[x] = live[x]
  BY DEF Crash, Boot, Inv, TypeOK, IsMap, Empty
<1>3. locks' \subseteq Coins
  BY DEF Crash, Boot, storage, Inv, TypeOK, IsMap, Named, Vals
<1>4. Careful /\ Recorded'
  <2>1. HoldsCareful
    BY <1>1 DEF HoldsCareful, Crash, Boot, storage, Named, Vals
  <2>2. LiveCareful
    BY <1>2 DEF LiveCareful
  <2> QED BY <1>1, <2>1, <2>2, RecordsKept
<1>5. TypeOK' /\ ChainOK' /\ Noted'
  BY <1>1, <1>2, <1>3 DEF Inv, TypeOK, ChainOK, Noted, Crash, Boot
<1>6. NoOrphanHold'
  BY <1>1 DEF NoOrphanHold, Named, Crash, Boot
<1> QED BY <1>2, <1>4, <1>5, <1>6, CarefulInv DEF Steady

LEMMA SignInv ==
  ASSUME Inv, NEW a \in Attempts, Sign(a)
  PROVE  Inv'
<1> DEFINE c == live[a].coin
<1>1. /\ chain' = chain /\ copy' = copy /\ recorded' = recorded /\ recs' = recs
      /\ locks' = locks /\ seats' = seats /\ up' = up /\ sends' = sends
      /\ scanned' = scanned /\ budget' = budget /\ lost' = lost \ {a}
      /\ clashed' = clashed
      /\ signed' = Put(signed, a, c) /\ a \in DOMAIN live /\ live[a].phase = "saved"
      /\ live' = [live EXCEPT ![a].phase = "signed"]
  BY DEF Sign, storage, world
<1>2. c \in Coins /\ (a[1] \notin clashed => Saved(a))
  BY <1>1 DEF Inv, TypeOK, IsMap, Phones, Reached, Reach
<1>3. /\ IsMap(signed', Attempts, Coins) /\ DOMAIN signed' = DOMAIN signed \cup {a}
      /\ signed'[a] = c /\ \A z \in DOMAIN signed : z # a => signed'[z] = signed[z]
  BY <1>1, <1>2 DEF Inv, TypeOK, IsMap, Put
<1>4. /\ IsMap(live', Attempts, Phones) /\ DOMAIN live' = DOMAIN live
      /\ live'[a].phase = "signed" /\ live'[a].coin = c
      /\ \A z \in DOMAIN live : z # a => live'[z] = live[z]
  BY <1>1 DEF Inv, TypeOK, IsMap, Phones
<1>5. \A x, d : (Settled(x, d)' <=> Settled(x, d)) /\ (Shared(x, d)' <=> Shared(x, d))
  BY <1>1, SameChain DEF Inv, Shared
<1>6. \A x : x # a => /\ Open(x)' <=> Open(x)
                      /\ \A d : Signs(x, d)' <=> Signs(x, d)
  BY <1>1, <1>3, <1>5 DEF Open, Signs
<1>7. a \in DOMAIN signed' \ lost' /\ (Open(a)' => ~Settled(a, c))
  BY <1>1, <1>3, <1>5 DEF Open
<1> HIDE DEF c
<1>8. Sole(a)' => a \in DOMAIN recs /\ recs[a] = c /\ (c \in locks \/ Shared(a, c))
  BY <1>1, <1>2, <1>7 DEF Saved, Sole, c
<1>9. TypeOK' /\ ChainOK' /\ Recorded' /\ Noted'
  BY <1>1, <1>3, <1>4 DEF Inv, TypeOK, ChainOK, Recorded, Noted
<1>10. SignedIsKept' /\ Held'
  <2>1. ASSUME NEW x \in Attempts, Sole(x)'
        PROVE  /\ x \in DOMAIN recs /\ recs[x] = signed'[x]
               /\ signed'[x] \in locks \/ Shared(x, signed'[x])
    <3>1. CASE x = a
      BY <1>3, <1>8, <2>1, <3>1
    <3>2. CASE x # a
      <4>1. Sole(x) /\ signed'[x] = signed[x]
        BY <1>1, <1>3, <1>6, <2>1, <3>2 DEF Open, Sole
      <4> QED BY <4>1 DEF Inv, SignedIsKept, Held
    <3> QED BY <3>1, <3>2
  <2> QED BY <1>1, <1>5, <2>1 DEF SignedIsKept, Held
<1>11. Reached'
  <2> SUFFICES ASSUME NEW x \in DOMAIN live PROVE Reach(x)'
    BY <1>4 DEF Reached
  <2>1. CASE x = a
    BY <1>1, <1>2, <1>3, <1>4, <1>7, <2>1 DEF Reach, Saved, Signs, c
  <2>2. CASE x # a
    <3>1. Reach(x) /\ live'[x] = live[x]
      BY <1>4, <2>2 DEF Inv, Reached
    <3>2. OfPool(recs, x[1])' = OfPool(recs, x[1])
      BY <1>1 DEF OfPool
    <3> QED BY <1>1, <1>5, <1>6, <2>2, <3>1, <3>2 DEF Reach, Saved
  <2> QED BY <2>1, <2>2
<1>12. Bare'
  <2> SUFFICES ASSUME NEW x \in DOMAIN copy.recs PROVE Spare(x, copy.recs[x])'
    BY <1>1 DEF Bare
  <2>1. Spare(x, copy.recs[x])
    BY DEF Inv, Bare
  <2>2. CASE x = a
    BY <1>1, <1>5, <2>1, <2>2 DEF Spare
  <2>3. CASE x # a
    BY <1>1, <1>4, <1>5, <1>6, <2>1, <2>3 DEF Spare
  <2> QED BY <2>2, <2>3
<1>13. NoOrphanHold'
  BY <1>1 DEF Inv, NoOrphanHold, Named
<1> QED BY <1>9, <1>10, <1>11, <1>12, <1>13 DEF Inv

LEMMA BackupInv ==
  ASSUME Inv, Backup
  PROVE  Inv'
<1>1. /\ chain' = chain /\ recorded' = recorded /\ recs' = recs /\ signed' = signed
      /\ locks' = locks /\ seats' = seats /\ up' = up /\ sends' = sends /\ lost' = lost
      /\ scanned' = scanned /\ budget' = budget /\ live' = live /\ clashed' = clashed
      /\ copy' = [recs |-> recs, locks |-> locks]
  BY DEF Backup, storage, world, history
<1>2. copy'.recs = recs /\ copy'.locks = locks
  BY <1>1
<1>3. \A x, d : (Settled(x, d)' <=> Settled(x, d)) /\ (Shared(x, d)' <=> Shared(x, d))
  BY <1>1, SameChain DEF Inv, Shared
<1>4. \A x : (Open(x)' <=> Open(x)) /\ \A d : Signs(x, d)' <=> Signs(x, d)
  BY <1>1, SameOpen DEF Inv
<1>5. TypeOK' /\ ChainOK' /\ Recorded' /\ Noted' /\ NoOrphanHold'
  BY <1>1, <1>2 DEF Inv, TypeOK, ChainOK, Recorded, Noted, NoOrphanHold, Named
<1>6. SignedIsKept' /\ Held' /\ Reached'
  BY <1>1, <1>3, <1>4 DEF Inv, SignedIsKept, Sole, Held, Reached, Reach, Saved, OfPool
<1>7. Bare'
  <2> SUFFICES ASSUME NEW x \in DOMAIN recs PROVE Spare(x, recs[x])'
    BY <1>1, <1>2 DEF Bare
  <2> SUFFICES ASSUME x[1] \notin clashed PROVE Spare(x, recs[x])'
    BY <1>1 DEF Spare
  <2> DEFINE c == recs[x]
  <2>1. ASSUME Signs(x, c) PROVE c \in locks \/ Shared(x, c) \/ Settled(x, c)
    <3>1. Open(x) \/ Settled(x, c)
      BY <2>1 DEF Signs, Open
    <3>2. x \in Attempts /\ signed[x] = c
      BY <2>1 DEF Signs, Inv, TypeOK, IsMap
    <3> QED BY <3>1, <3>2 DEF Inv, Held, Sole
  <2>2. ASSUME x \in DOMAIN live, live[x].phase # "stuck"
        PROVE  c \in locks \/ Shared(x, c) \/ Settled(x, c)
    <3>1. Reach(x) /\ live[x].phase \in {"running", "saved", "halted", "signed"}
      BY <2>2 DEF Inv, Reached, TypeOK, IsMap, Phones
    <3>2. CASE live[x].phase = "saved"
      BY <3>1, <3>2 DEF Reach, Saved
    <3>3. CASE live[x].phase = "signed"
      BY <2>1, <3>1, <3>3 DEF Reach
    <3> QED BY <3>1, <3>2, <3>3 DEF Reach, OfPool
  <2> QED BY <1>1, <1>2, <1>3, <1>4, <2>1, <2>2 DEF Spare
<1> QED BY <1>5, <1>6, <1>7 DEF Inv

LEMMA RestoreInv ==
  ASSUME Inv, Restore
  PROVE  Inv'
<1>1. /\ chain' = chain /\ recorded' = recorded /\ signed' = signed /\ copy' = copy
      /\ sends' = sends /\ recs' = copy.recs /\ locks' = copy.locks /\ seats' = Empty
      /\ live' = Empty /\ up' = FALSE /\ scanned' = 0 /\ clashed' = clashed
      /\ lost' = lost \cup {a \in DOMAIN signed :
                              ~(a \in DOMAIN copy.recs /\ copy.recs[a] = signed[a])}
  BY DEF Restore
<1>2. DOMAIN live' = {} /\ IsMap(live', Attempts, Phones) /\ IsMap(seats', Seats, Coins)
  BY <1>1 DEF Empty, IsMap
<1>3. \A x, d : (Settled(x, d)' <=> Settled(x, d)) /\ (Shared(x, d)' <=> Shared(x, d))
  BY <1>1, SameChain DEF Inv, Shared
<1>4. \A x, d : Signs(x, d)' => Signs(x, d)
  BY <1>1 DEF Signs
<1>5. \A x \in Attempts : Sole(x)' => /\ Sole(x) /\ Signs(x, signed[x])
                                   /\ x \in DOMAIN copy.recs /\ copy.recs[x] = signed[x]
  BY <1>1, <1>3 DEF Sole, Open, Signs
<1>6. budget' \in Budgets /\ budget'.cuts = budget.cuts
  BY DEF Restore, Inv, ChainOK, Budgets
<1>7. TypeOK'
  <2>1. lost' \subseteq Attempts
    BY <1>1 DEF Inv, TypeOK, IsMap
  <2>2. scanned' \in 0..Len(chain')
    BY <1>1, LenProperties DEF Inv, ChainOK
  <2>3. \A x, y \in DOMAIN live' : x[2] = y[2] => x = y
    BY <1>2
  <2>4. \A x, y \in DOMAIN recs' : x[1] = y[1] => x = y
    BY <1>1 DEF Inv, Recorded
  <2> QED BY <1>1, <1>2, <2>1, <2>2, <2>3, <2>4 DEF Inv, TypeOK
<1>8. ChainOK' /\ Recorded' /\ Noted' /\ NoOrphanHold' /\ Reached'
  BY <1>1, <1>2, <1>6, LenProperties DEF Inv, ChainOK, Recorded, NoOrphanHold,
     Reached, Noted
<1>9. SignedIsKept'
  BY <1>1, <1>5 DEF SignedIsKept
<1>10. Held'
  <2> SUFFICES ASSUME NEW x \in Attempts, Sole(x)'
               PROVE  signed[x] \in copy.locks \/ Shared(x, signed[x])
    BY <1>1, <1>3 DEF Held
  <2>1. Spare(x, signed[x])
    BY <1>5 DEF Inv, Bare
  <2>2. ~Settled(x, signed[x]) /\ x[1] \notin clashed
    BY <1>5 DEF Sole, Open
  <2> QED BY <1>5, <2>1, <2>2 DEF Spare
<1>11. Bare'
  <2> SUFFICES ASSUME NEW x \in DOMAIN copy.recs PROVE Spare(x, copy.recs[x])'
    BY <1>1 DEF Bare
  <2>1. Spare(x, copy.recs[x])
    BY DEF Inv, Bare
  <2> QED BY <1>1, <1>2, <1>3, <1>4, <2>1 DEF Spare
<1> QED BY <1>7, <1>8, <1>9, <1>10, <1>11 DEF Inv

(* A block, or a reorganisation: what was settled still is.                *)
LEMMA ChainStep ==
  ASSUME Inv, UNCHANGED <<storage, live, up, copy, sends, history, budget>>,
         \A x, d : Settled(x, d) => Settled(x, d)'
  PROVE  Recorded' /\ Noted' /\ NoOrphanHold' /\ SignedIsKept' /\ Held' /\ Reached' /\ Bare'
<1>1. /\ copy' = copy /\ recorded' = recorded /\ recs' = recs /\ signed' = signed
      /\ locks' = locks /\ seats' = seats /\ up' = up /\ lost' = lost
      /\ budget' = budget /\ live' = live /\ clashed' = clashed
  BY DEF storage, history
<1>2. \A x, d : Shared(x, d)' <=> Shared(x, d)
  BY <1>1 DEF Shared
<1>3. \A x : (Open(x)' => Open(x)) /\ \A d : Signs(x, d)' <=> Signs(x, d)
  BY <1>1 DEF Open, Signs
<1>4. Recorded' /\ Noted' /\ NoOrphanHold'
  BY <1>1 DEF Inv, Recorded, Noted, NoOrphanHold, Named
<1>5. SignedIsKept' /\ Held'
  BY <1>1, <1>2, <1>3 DEF Inv, SignedIsKept, Held, Sole
<1>6. Reached'
  BY <1>1, <1>2, <1>3 DEF Inv, Reached, Reach, Saved, OfPool
<1>7. Bare'
  BY <1>1, <1>2, <1>3 DEF Inv, Bare, Spare
<1> QED BY <1>4, <1>5, <1>6, <1>7

(* What is mined is nothing, or in no block yet.                           *)
LEMMA MinedOnce ==
  ASSUME Inv, NEW t \in Minable
  PROVE  t \in Txs /\ (t = Nothing \/ \A i \in 1..Len(chain) : chain[i] # t)
<1>1. /\ \A x \in DOMAIN signed : x \in Attempts /\ signed[x] \in Coins
      /\ \A c \in DOMAIN sends : c \in Coins
  BY DEF Inv, TypeOK, IsMap
<1>2. CASE t = Nothing
  BY <1>2 DEF Txs
<1>3. ASSUME NEW a \in DOMAIN signed, t = Fund(a, signed[a]),
             ~SpentAt(signed[a], Len(chain))
      PROVE  t \in Txs /\ \A i \in 1..Len(chain) : chain[i] # t
  <2>1. Spends(Fund(a, signed[a]), signed[a])
    BY DEF Spends, Fund
  <2> QED BY <1>1, <1>3, <2>1 DEF SpentAt, Txs
<1>4. ASSUME NEW a \in DOMAIN signed, t = Exit(a, signed[a]),
             Depth(Exit(a, signed[a]), Len(chain)) = 0
      PROVE  t \in Txs /\ \A i \in 1..Len(chain) : chain[i] # t
  <2> DEFINE n == Len(chain)
  <2>1. n \in Nat /\ n \in 0..n /\ 1 \in Nat \ {0} /\ chain \in Seq(Txs) /\ Once(chain)
    BY LenProperties DEF Inv, ChainOK
  <2>2. DepthIn(chain, t, n) = 0
    BY <1>4 DEF Depth, DepthIn
  <2>3. t # Nothing
    BY <1>4, ExitIsSomething
  <2>4. DepthIn(chain, t, n) >= 1 <=> \E i \in 1..n : chain[i] = t /\ n + 1 - i >= 1
    BY <2>1, <2>3, DepthIs
  <2>5. \A i \in 1..n : chain[i] # t
    BY <2>1, <2>2, <2>4
  <2> QED BY <1>1, <1>4, <2>5 DEF Txs
<1>5. ASSUME NEW c \in DOMAIN sends, t = Spend(c), ~SpentAt(c, Len(chain))
      PROVE  t \in Txs /\ \A i \in 1..Len(chain) : chain[i] # t
  <2>1. Spends(Spend(c), c)
    BY DEF Spends, Spend
  <2> QED BY <1>1, <1>5, <2>1 DEF SpentAt, Txs
<1> QED BY <1>2, <1>3, <1>4, <1>5 DEF Minable

LEMMA BlockInv ==
  ASSUME Inv, NEW t \in Minable, Block(t)
  PROVE  Inv'
<1> DEFINE n == Len(chain)
<1>1. chain \in Seq(Txs) /\ n \in Nat /\ scanned \in 0..n /\ Once(chain)
  BY LenProperties DEF Inv, ChainOK
<1>2. t \in Txs /\ (t = Nothing \/ \A i \in 1..n : chain[i] # t)
  BY MinedOnce
<1>3. /\ chain' = Append(chain, t) /\ n < MaxTip /\ scanned' = scanned
      /\ UNCHANGED <<storage, live, up, copy, sends, history, budget>>
  BY DEF Block
<1>4. /\ chain' \in Seq(Txs) /\ Len(chain') = n + 1 /\ chain'[n + 1] = t
      /\ \A i \in 1..n : chain'[i] = chain[i]
  BY <1>1, <1>2, <1>3
<1>5. Once(chain')
  BY <1>1, <1>2, <1>4 DEF Once
<1>6. \A x, d : Settled(x, d) => Settled(x, d)'
  <2> SUFFICES ASSUME NEW x, NEW d, Settled(x, d) PROVE Settled(x, d)'
    OBVIOUS
  <2>1. DeepIn(chain, x, d)
    BY <1>1, SettledIs
  <2>2. n > n - SettleDepth /\ n \in 0..n
    BY <1>1, StoreAssumption
  <2>3. DeepIn(chain', x, d)
    BY <1>1, <1>4, <2>1, <2>2, DeeperChain
  <2> QED BY <1>4, <1>5, <2>3, SettledThenIs
<1>7. Recorded' /\ Noted' /\ NoOrphanHold' /\ SignedIsKept' /\ Held' /\ Reached' /\ Bare'
  BY <1>3, <1>6, ChainStep
<1>8. Len(chain') \in 0..(MaxTip + 1) /\ scanned' \in 0..Len(chain')
  BY <1>1, <1>3, <1>4, StoreAssumption
<1>9. TypeOK'
  BY <1>3, <1>8 DEF Inv, TypeOK, storage, history
<1>10. ChainOK'
  BY <1>3, <1>4, <1>5, <1>8 DEF Inv, ChainOK
<1> QED BY <1>7, <1>9, <1>10 DEF Inv

LEMMA ReorgInv ==
  ASSUME Inv, NEW k \in 1..(SettleDepth - 1), Reorg(k)
  PROVE  Inv'
<1> DEFINE n == Len(chain)
           m == n - k
           new == [i \in 1..(k + 1) |-> Nothing]
<1>1. /\ chain \in Seq(Txs) /\ n \in Nat /\ scanned \in 0..n /\ Once(chain)
      /\ SettleDepth \in Nat /\ k \in Nat
  BY LenProperties, StoreAssumption DEF Inv, ChainOK
<1>2. /\ chain' = SubSeq(chain, 1, m) \o new /\ n < MaxTip /\ k <= n
      /\ scanned' = IF scanned > m THEN m ELSE scanned
      /\ UNCHANGED <<storage, live, up, copy, sends, history, budget>>
  BY DEF Reorg
<1>3. m \in 0..n /\ m > n - SettleDepth /\ m + (k + 1) = n + 1
  BY <1>1, <1>2
<1> HIDE DEF m, n
<1>4. new \in Seq(Txs) /\ Len(new) = k + 1 /\ \A i \in 1..(k + 1) : new[i] = Nothing
  BY <1>1 DEF Txs
<1> HIDE DEF new
<1> DEFINE old == SubSeq(chain, 1, m)
<1>5. old \in Seq(Txs) /\ Len(old) = m /\ \A i \in 1..m : old[i] = chain[i]
  BY <1>1, <1>3, SubSeqProperties DEF n
<1> HIDE DEF old
<1>6. /\ chain' \in Seq(Txs) /\ Len(chain') = n + 1
      /\ \A i \in 1..m : chain'[i] = chain[i]
      /\ \A i \in (m + 1)..(n + 1) : chain'[i] = Nothing
  <2>1. chain' = old \o new
    BY <1>2 DEF old
  <2>2. /\ chain' \in Seq(Txs) /\ Len(chain') = Len(old) + Len(new)
        /\ \A i \in 1..(Len(old) + Len(new)) :
             chain'[i] = IF i <= Len(old) THEN old[i] ELSE new[i - Len(old)]
    BY <1>4, <1>5, <2>1, ConcatProperties
  <2>3. Len(chain') = m + (k + 1) /\ \A i \in 1..(m + (k + 1)) :
                                       chain'[i] = IF i <= m THEN old[i] ELSE new[i - m]
    BY <1>4, <1>5, <2>2
  <2>4. m \in Nat /\ n \in Nat /\ k \in Nat /\ m + (k + 1) = n + 1
    BY <1>1, <1>3
  <2>5. \A i \in 1..m : chain'[i] = chain[i]
    BY <1>5, <2>3, <2>4
  <2>6. ASSUME NEW i \in (m + 1)..(n + 1) PROVE chain'[i] = Nothing
    <3>1. i - m \in 1..(k + 1) /\ i \in 1..(m + (k + 1)) /\ ~(i <= m)
      BY <2>4
    <3> QED BY <1>4, <2>3, <3>1
  <2> QED BY <2>2, <2>3, <2>4, <2>5, <2>6
<1>7. Once(chain')
  <2> SUFFICES ASSUME NEW i \in 1..(n + 1), NEW j \in 1..(n + 1),
                      chain'[i] = chain'[j], chain'[i] # Nothing
               PROVE  i = j
    BY <1>6 DEF Once
  <2>1. i \in 1..m /\ j \in 1..m
    BY <1>1, <1>3, <1>6
  <2>2. i \in 1..n /\ j \in 1..n /\ chain[i] = chain[j] /\ chain[i] # Nothing
    BY <1>1, <1>3, <1>6, <2>1
  <2> QED BY <1>1, <2>2 DEF Once, n
<1>8. \A x, d : Settled(x, d) => Settled(x, d)'
  <2> SUFFICES ASSUME NEW x, NEW d, Settled(x, d) PROVE Settled(x, d)'
    OBVIOUS
  <2>1. DeepIn(chain, x, d)
    BY <1>1, SettledIs
  <2>2. /\ m \in 0..Len(chain) /\ m > Len(chain) - SettleDepth
        /\ m <= Len(chain') /\ Len(chain) <= Len(chain')
    BY <1>1, <1>3, <1>6 DEF n
  <2>3. DeepIn(chain', x, d)
    BY <1>1, <1>6, <2>1, <2>2, DeeperChain
  <2> QED BY <1>6, <1>7, <2>3, SettledThenIs
<1>9. Recorded' /\ Noted' /\ NoOrphanHold' /\ SignedIsKept' /\ Held' /\ Reached' /\ Bare'
  BY <1>2, <1>8, ChainStep
<1>10. Len(chain') \in 0..(MaxTip + 1) /\ scanned' \in 0..Len(chain')
  BY <1>1, <1>2, <1>3, <1>6, StoreAssumption
<1>11. TypeOK'
  BY <1>2, <1>10 DEF Inv, TypeOK, storage, history
<1>12. ChainOK'
  BY <1>2, <1>6, <1>7, <1>10 DEF Inv, ChainOK
<1> QED BY <1>9, <1>11, <1>12 DEF Inv

-----------------------------------------------------------------------------
(* The theorems.                                                           *)

LEMMA InitInv == Init => Inv
<1> SUFFICES ASSUME Init PROVE Inv
  OBVIOUS
<1>1. /\ recs = Empty /\ seats = Empty /\ live = Empty /\ sends = Empty /\ signed = Empty
      /\ copy.recs = Empty /\ copy.locks = {} /\ locks = {} /\ up = TRUE
      /\ chain = <<>> /\ scanned = 0 /\ recorded = {} /\ lost = {} /\ clashed = {}
      /\ budget = [starts |-> MaxStarts, cuts |-> MaxCuts, restores |-> MaxRestores,
                   rollbacks |-> MaxRollbacks]
  BY DEF Init
<1>2. DOMAIN Empty = {} /\ \A D, R : IsMap(Empty, D, R)
  BY DEF Empty, IsMap
<1>3. TypeOK
  BY <1>1, <1>2, StoreAssumption DEF TypeOK
<1>4. ChainOK
  <2>1. budget \in Budgets /\ budget.cuts <= MaxCuts
    BY <1>1, StoreAssumption DEF Budgets
  <2> QED BY <1>1, <2>1 DEF ChainOK, Once
<1>5. Recorded /\ Noted /\ Reached /\ Bare /\ NoOrphanHold
  BY <1>1, <1>2 DEF Recorded, Noted, Reached, Bare, NoOrphanHold
<1>6. SignedIsKept /\ Held
  BY <1>1, <1>2 DEF SignedIsKept, Held, Sole, Open
<1> QED BY <1>3, <1>4, <1>5, <1>6 DEF Inv

LEMMA StutterInv == ASSUME Inv, UNCHANGED vars PROVE Inv'
<1>1. UNCHANGED <<storage, live, up, copy, sends, history, budget>> /\ chain' = chain
      /\ scanned' = scanned
  BY DEF vars, storage, history
<1>2. \A x, d : Settled(x, d) => Settled(x, d)'
  BY <1>1, SameChain DEF Inv
<1>3. Recorded' /\ Noted' /\ NoOrphanHold' /\ SignedIsKept' /\ Held' /\ Reached' /\ Bare'
  BY <1>1, <1>2, ChainStep
<1>4. TypeOK' /\ ChainOK' /\ Noted'
  BY <1>1 DEF Inv, TypeOK, ChainOK, Noted, storage, history
<1> QED BY <1>3, <1>4 DEF Inv

LEMMA NextInv == Inv /\ [Next]_vars => Inv'
<1> SUFFICES ASSUME Inv, [Next]_vars PROVE Inv'
  OBVIOUS
<1>1. CASE (\E t \in Minable : Block(t)) \/ (\E k \in 1..(SettleDepth - 1) : Reorg(k))
  BY <1>1, BlockInv, ReorgInv
<1>2. CASE Walk \/ \E h \in 0..scanned : Rollback(h)
  BY <1>2, WalkInv
<1>3. CASE \/ \E s \in Seats, c \in Coins, cut \in BOOLEAN : SeatNew(s, c, cut)
           \/ \E s \in Seats, cut \in BOOLEAN : SeatDrop(s, cut)
           \/ \E id \in Pools, s \in Seats : Start(id, s)
           \/ \E a \in Attempts, cut \in BOOLEAN : RecordSave(a, cut)
           \/ \E a \in Attempts : Sign(a)
  BY <1>3, SeatNewInv, SeatDropInv, StartInv, RecordSaveInv, SignInv
<1>4. CASE \/ \E a \in Attempts, solo, cut \in BOOLEAN : Stop(a, solo, cut)
           \/ \E a \in Attempts : Notice(a)
           \/ \E a \in Attempts, cut \in BOOLEAN : GiveUp(a, cut)
  BY <1>4, StopInv, NoticeInv, GiveUpInv
<1>5. CASE \E a \in Attempts, cut \in BOOLEAN : Finish(a, cut)
  BY <1>5, EndedInv DEF Finish
<1>6. CASE \E done \in SUBSET DOMAIN recs, cut \in BOOLEAN : SettlePass(done, cut)
  BY <1>6, SettlePassInv
<1>7. CASE (\E c \in Coins : Send(c)) \/ (\E c \in Coins : KeepOut(c))
  BY <1>7, SendInv
<1>8. CASE Crash \/ Boot \/ Backup \/ Restore
  BY <1>8, PageInv, BackupInv, RestoreInv
<1>9. CASE UNCHANGED vars
  BY <1>9, StutterInv
<1> QED BY <1>1, <1>2, <1>3, <1>4, <1>5, <1>6, <1>7, <1>8, <1>9 DEF Next

LEMMA SpecInv == Spec => []Inv
  BY InitInv, NextInv, PTL DEF Spec

(* The stores, the attempts and the copy keep to their types; a seat has   *)
(* one attempt at most, and a pool id one record.                          *)
THEOREM StoreTypeCorrect == Spec => []TypeOK
<1>1. Inv => TypeOK
  BY DEF Inv
<1> QED BY <1>1, SpecInv, PTL

(* For any number of pools, seats, coins and faults, with any number of    *)
(* attempts at once: a pool this phone signed keeps its record until the   *)
(* chain has settled it, unless a restored copy is older than the record   *)
(* or two attempts ran under its pool id at once.                          *)
THEOREM SignedPoolsKeepTheirRecords == Spec => []SignedIsKept
<1>1. Inv => SignedIsKept
  BY DEF Inv
<1> QED BY <1>1, SpecInv, PTL

(* ... and its coin is held, or was recorded by another attempt as well.   *)
THEOREM SignedCoinsAreHeld == Spec => []SignedIsHeld
<1>1. Inv => SignedIsHeld
  BY DEF Inv, Held, SignedIsHeld, Shared
<1> QED BY <1>1, SpecInv, PTL

(* While no write was cut short, every hold has a seat or a record, or is  *)
(* the coin of a record that two attempts of its pool id contended for.    *)
THEOREM HoldsHaveReasons == Spec => []NoOrphanHold
<1>1. Inv => NoOrphanHold
  BY DEF Inv
<1> QED BY <1>1, SpecInv, PTL

(* A send takes no coin that a signed pool may still spend, in an open     *)
(* page or in one just restored.                                           *)
THEOREM SendsSpareSignedCoins == Spec => SendSparesSigned
<1> DEFINE Spares ==
      \A c \in Coins :
        c \in DOMAIN sends' \ DOMAIN sends /\ sends'[c] = "send"
          => \A a \in Attempts :
               Sole(a) /\ signed[a] = c
                 => \E x \in Attempts \ {a} : <<x, c>> \in recorded
<1>1. ASSUME Inv, [Next]_vars PROVE [Spares]_vars
  <2>1. CASE UNCHANGED sends
    BY <2>1
  <2>2. ASSUME NEW c \in Coins, Send(c) PROVE Spares
    <3>1. DOMAIN sends' = DOMAIN sends \cup {c} /\ c \notin locks
      BY <2>2 DEF Send, Put, Free
    <3> QED BY <1>1, <3>1 DEF Inv, Held, Shared
  <2>3. ASSUME NEW c \in Coins, KeepOut(c) PROVE Spares
    <3>1. DOMAIN sends' = DOMAIN sends \cup {c} /\ sends'[c] = "keepout"
      BY <2>3 DEF KeepOut, Put
    <3> QED BY <3>1
  <2>4. UNCHANGED sends \/ \E c \in Coins : Send(c) \/ KeepOut(c)
    BY <1>1 DEF Next, vars, Block, Reorg, Walk, Rollback, SeatNew, SeatDrop, Start,
       Run, RecordSave, Sign, Stop, Notice, Finish, GiveUp, Ended, SettlePass, Crash,
       Boot, Backup, Restore, world
  <2> QED BY <2>1, <2>2, <2>3, <2>4
<1>2. Spec => [][Next]_vars
  BY PTL DEF Spec
<1> QED BY <1>1, <1>2, SpecInv, PTL DEF SendSparesSigned

=============================================================================
