------------------------------ MODULE MixStore ------------------------------
(***************************************************************************)
(* What a phone keeps of its Mix pools (tatara/store.rs, records.rs,       *)
(* wallet.rs): the seats on the waiting list, the attempt records, and the *)
(* holds on coins among the wallet's marks, through attempts, stops,       *)
(* storage that fails between two writes, a page that is closed, a copy    *)
(* restored on another phone, and a chain that reorganises.                *)
(*                                                                         *)
(* The protocol of an attempt is in MixPool; here one only starts, saves   *)
(* its record, signs, and ends.  An attempt is known by its pool id, which *)
(* its creator chose, and its seat: the page runs several at once, also    *)
(* under one pool id, and a record is kept by the pool id alone.  The      *)
(* phone's ledger is the chain up to the height it has walked.             *)
(***************************************************************************)
EXTENDS Naturals, Sequences, FiniteSets

CONSTANTS
  Coins,        \* the wallet's coins
  Seats,        \* seat keys
  Pools,        \* pool ids; a creator may use one again
  SettleDepth,  \* records::SETTLE_DEPTH
  MaxTip,       \* bound: blocks
  MaxStarts,    \* bound: attempts started
  MaxCuts,      \* bound: storage failures between two writes
  MaxRestores,  \* bound: copies restored
  MaxRollbacks  \* bound: the ledger rolled back (tail verify, a re-walk)

ASSUME StoreAssumption ==
  /\ SettleDepth \in Nat \ {0}
  /\ {MaxTip, MaxStarts, MaxCuts, MaxRestores, MaxRollbacks} \subseteq Nat
  /\ IsFiniteSet(Pools) /\ IsFiniteSet(Coins) /\ IsFiniteSet(Seats)

Attempts == Pools \X Seats

VARIABLES
  recs,      \* RECORDS_KEY: recs[a] is the coin of the record attempt a saved
  locks,     \* MARKS_KEY: CoinMarks.mix_locks
  seats,     \* SEATS_KEY: seats[s] is the coin of the seat
  live,      \* MIX_PHONES, MIX_SEAT_OF: the attempts of this page, live[a]
  up,        \* the page is up and has reconciled the holds
  copy,      \* the last backup: its records and holds
  chain,     \* the blocks, each with one transaction of interest or none
  scanned,   \* view.cursor.scanned_to
  sends,     \* the coins spent by a send of this wallet's, and which
  signed,    \* signed[a]: the coin the funding signature posted spends
  recorded,  \* the records ever saved, as <<a, coin>>
  lost,      \* attempts signed on a phone whose restored copy lacks the record
  clashed,   \* pool ids under which two attempts ran at once
  budget     \* what is left of the bounds

vars == <<recs, locks, seats, live, up, copy, chain, scanned, sends, signed,
          recorded, lost, clashed, budget>>
storage == <<recs, locks, seats>>
world == <<chain, scanned, sends>>
history == <<signed, recorded, lost, clashed>>

Put(f, x, y) == [z \in DOMAIN f \cup {x} |-> IF z = x THEN y ELSE f[z]]
Drop(f, x) == [z \in DOMAIN f \ {x} |-> f[z]]
Vals(f) == {f[x] : x \in DOMAIN f}
Empty == [x \in {} |-> x]
OfPool(f, p) == {x \in DOMAIN f : x[1] = p}
Without(f, p) == [x \in DOMAIN f \ OfPool(f, p) |-> f[x]]

Init ==
  /\ recs = Empty /\ locks = {} /\ seats = Empty /\ live = Empty
  /\ up = TRUE
  /\ copy = [recs |-> Empty, locks |-> {}]
  /\ chain = <<>> /\ scanned = 0 /\ sends = Empty
  /\ signed = Empty /\ recorded = {} /\ lost = {} /\ clashed = {}
  /\ budget = [starts |-> MaxStarts, cuts |-> MaxCuts,
               restores |-> MaxRestores, rollbacks |-> MaxRollbacks]

-----------------------------------------------------------------------------
(* The chain, and the ledger the phone has of it.                          *)

Fund(a, c) == <<"fund", a, c>>
Exit(a, c) == <<"exit", a, c>>
Spend(c)   == <<"send", 0, c>>
Nothing    == <<"none">>

Spends(t, c) == Len(t) = 3 /\ t[1] \in {"fund", "send"} /\ t[3] = c

(* How deep a transaction is at tip n, 0 when it is not in a block.        *)
Depth(t, n) ==
  IF \E i \in 1..n : chain[i] = t
  THEN n + 1 - (CHOOSE i \in 1..n : chain[i] = t)
  ELSE 0

SpentAt(c, n) == \E i \in 1..n : Spends(chain[i], c)

(* The coin went elsewhere than into attempt a's pool, that deep.          *)
Elsewhere(a, c, n, d) ==
  \E i \in 1..n : Spends(chain[i], c) /\ chain[i] # Fund(a, c) /\ n + 1 - i >= d

(* Mutant: a coin that went elsewhere settles nothing.                     *)
DutyIsWipePaid(a) == Depth(Exit(a, recs[a]), scanned) >= SettleDepth

(* duty: wipe a record when its payout, or another spend of its coin, is   *)
(* SETTLE_DEPTH deep in the ledger; once the funding is in, only the       *)
(* payout counts.  (A payout to another wallet or a channel is asked of    *)
(* chain servers; it is taken to be seen with the ledger's height.)        *)
DutyIsWipe(a) ==
  IF Depth(Fund(a, recs[a]), scanned) > 0
  THEN Depth(Exit(a, recs[a]), scanned) >= SettleDepth
  ELSE Elsewhere(a, recs[a], scanned, SettleDepth)

(* The same of the chain itself: nothing can undo it any more.             *)
Settled(a, c) ==
  \/ Depth(Exit(a, c), Len(chain)) >= SettleDepth
  \/ Elsewhere(a, c, Len(chain), SettleDepth)

(* What may be in the next block: the funding of a pool this phone signed, *)
(* the exits once the funding is in (anyone sends them), a send.           *)
Minable ==
  {Nothing}
    \cup {Fund(a, signed[a]) :
            a \in {x \in DOMAIN signed : ~SpentAt(signed[x], Len(chain))}}
    \cup {Exit(a, signed[a]) :
            a \in {x \in DOMAIN signed :
                      /\ Depth(Fund(x, signed[x]), Len(chain)) > 0
                      /\ Depth(Exit(x, signed[x]), Len(chain)) = 0}}
    \cup {Spend(c) : c \in {x \in DOMAIN sends : ~SpentAt(x, Len(chain))}}

Block(t) ==
  /\ Len(chain) < MaxTip
  /\ t \in Minable
  /\ chain' = Append(chain, t)
  /\ UNCHANGED <<storage, live, up, copy, scanned, sends, history, budget>>

(* Fewer blocks than SETTLE_DEPTH are replaced by one more.  The ledger    *)
(* follows (reorg_check, rollback); until it has, what it still shows of   *)
(* the lost blocks is not SETTLE_DEPTH deep.                               *)
Reorg(k) ==
  /\ k \in 1..(SettleDepth - 1) /\ k <= Len(chain) /\ Len(chain) < MaxTip
  /\ chain' = SubSeq(chain, 1, Len(chain) - k) \o [i \in 1..(k + 1) |-> Nothing]
  /\ scanned' = IF scanned > Len(chain) - k THEN Len(chain) - k ELSE scanned
  /\ UNCHANGED <<storage, live, up, copy, sends, history, budget>>

Walk ==
  /\ scanned < Len(chain)
  /\ scanned' = scanned + 1
  /\ UNCHANGED <<storage, live, up, copy, chain, sends, history, budget>>

Rollback(h) ==
  /\ h < scanned /\ budget.rollbacks > 0
  /\ scanned' = h
  /\ budget' = [budget EXCEPT !.rollbacks = @ - 1]
  /\ UNCHANGED <<storage, live, up, copy, chain, sends, history>>

-----------------------------------------------------------------------------
(* Storage: each operation writes one key after another; a cut operation   *)
(* ends between its two writes (the storage failed, or the page is closed  *)
(* and Crash follows).                                                     *)

Cut(cut) ==
  IF cut THEN budget.cuts > 0 /\ budget' = [budget EXCEPT !.cuts = @ - 1]
         ELSE UNCHANGED budget

Named == Vals(recs)

(* A coin the pickers may take: in the ledger unspent, in no send of this  *)
(* wallet's, not held.                                                     *)
Free(c) == ~SpentAt(c, scanned) /\ c \notin DOMAIN sends /\ c \notin locks

(* seat_new: the hold, then the seat, whose key is new.  Storage asks only *)
(* that the coin is not held; that no seat or record names it is the       *)
(* page's part (heldHere).                                                 *)
SeatNew(s, c, cut) ==
  /\ up /\ s \notin DOMAIN seats \cup {a[2] : a \in DOMAIN live}
  /\ Free(c) /\ c \notin Vals(seats) \cup Named
  /\ locks' = locks \cup {c}
  /\ seats' = IF cut THEN seats ELSE Put(seats, s, c)
  /\ Cut(cut)
  /\ UNCHANGED <<recs, live, up, copy, world, history>>

(* Mutants: the seat goes and its hold stays; the hold goes whatever a     *)
(* record names.                                                           *)
SeatDroppedHolding(s, cut) == seats' = Drop(seats, s) /\ UNCHANGED locks

SeatDroppedFreeing(s, cut) ==
  /\ seats' = Drop(seats, s)
  /\ locks' = IF cut THEN locks ELSE locks \ {seats[s]}

(* seat_drop: the seat, then the hold (unlock) - a coin a record names     *)
(* stays held.                                                             *)
SeatDropped(s, cut) ==
  /\ seats' = Drop(seats, s)
  /\ locks' = IF cut \/ seats[s] \in Named THEN locks ELSE locks \ {seats[s]}

(* The person leaves, or the provider removed the seat (the page's gone),  *)
(* also while an attempt of it runs; once that has signed, the seat goes   *)
(* when the attempt does (dropAfter).                                      *)
SeatDrop(s, cut) ==
  LET signing == {a \in DOMAIN live : a[2] = s /\ live[a].phase = "signed"}
  IN  /\ up /\ s \in DOMAIN seats
      /\ IF signing = {}
         THEN SeatDropped(s, cut) /\ Cut(cut) /\ UNCHANGED live
         ELSE /\ ~cut
              /\ live' = [a \in DOMAIN live |->
                           IF a \in signing THEN [live[a] EXCEPT !.dropAfter = TRUE]
                                            ELSE live[a]]
              /\ UNCHANGED <<seats, locks, budget>>
      /\ UNCHANGED <<recs, up, copy, world, history>>

(* A new attempt of a seat; its pool id may be that of a live one.         *)
Run(id, s) ==
  /\ budget.starts > 0 /\ budget' = [budget EXCEPT !.starts = @ - 1]
  /\ live' = Put(live, <<id, s>>,
                 [coin |-> seats[s], phase |-> "running", dropAfter |-> FALSE])
  /\ clashed' = IF OfPool(live, id) = {} THEN clashed ELSE clashed \cup {id}
  /\ UNCHANGED <<storage, up, copy, world, signed, recorded, lost>>

(* Mutants: the seat is not claimed; a pool id that a record has is not    *)
(* refused.                                                                *)
StartUnclaimed(id, s) ==
  /\ up /\ s \in DOMAIN seats /\ <<id, s>> \notin DOMAIN live
  /\ OfPool(recs, id) = {}
  /\ ~SpentAt(seats[s], scanned)
  /\ Run(id, s)

StartAny(id, s) ==
  /\ up /\ s \in DOMAIN seats
  /\ \A a \in DOMAIN live : a[2] # s
  /\ ~SpentAt(seats[s], scanned)
  /\ Run(id, s)

(* An attempt of a seat starts: one at a time for a seat (mix_seat_claim), *)
(* no pool id that a record has (mix_refuse_known_pool, record_exists),    *)
(* its coin unspent in the ledger (attempt_common, coin_for_pool).  A pool *)
(* id that another seat's attempt is running under is not refused.         *)
Start(id, s) ==
  /\ up /\ s \in DOMAIN seats
  /\ OfPool(recs, id) = {}
  /\ \A a \in DOMAIN live : a[2] # s
  /\ ~SpentAt(seats[s], scanned)
  /\ Run(id, s)

(* record_save: the record (put replaces one of the same pool id), then    *)
(* the hold.  When it fails the attempt is never told and goes nowhere.    *)
RecordSave(a, cut) ==
  LET c == live[a].coin
  IN  /\ a \in DOMAIN live /\ live[a].phase = "running"
      /\ recs' = Put(Without(recs, a[1]), a, c)
      /\ locks' = IF cut THEN locks ELSE locks \cup {c}
      /\ live' = [live EXCEPT ![a].phase = IF cut THEN "stuck" ELSE "saved"]
      /\ recorded' = recorded \cup {<<a, c>>}
      /\ Cut(cut)
      /\ UNCHANGED <<seats, up, copy, world, signed, lost, clashed>>

(* The funding signature is posted (machine::try_fund).                    *)
Sign(a) ==
  /\ a \in DOMAIN live /\ live[a].phase = "saved"
  /\ live' = [live EXCEPT ![a].phase = "signed"]
  /\ signed' = Put(signed, a, live[a].coin)
  /\ lost' = lost \ {a}
  /\ UNCHANGED <<storage, up, copy, world, recorded, clashed, budget>>

(* record_wipe: the record of a pool id, whichever attempt saved it, then  *)
(* its hold, whoever else names the coin; nothing when there is no such    *)
(* record (any more).                                                      *)
RecordWipe(id, cut) ==
  /\ recs' = Without(recs, id)
  /\ locks' = IF cut THEN locks ELSE locks \ {recs[x] : x \in OfPool(recs, id)}

(* A stop before this phone's signature: a record that was saved goes at   *)
(* once (after, Stopped.wipe_record), then the page ends the run, and a    *)
(* seat made for this public room goes with it (solo).  When the wipe      *)
(* fails the page never hears of the stop and keeps the run.               *)
Stop(a, solo, cut) ==
  LET s == a[2]
      saved == live[a].phase = "saved"
      leaves == solo /\ s \in DOMAIN seats
      freed == {recs[x] : x \in OfPool(recs, a[1])}
  IN  /\ a \in DOMAIN live /\ live[a].phase \in {"running", "stuck", "saved"}
      /\ cut => saved \/ leaves
      /\ Cut(cut)
      /\ live' = IF saved /\ cut THEN [live EXCEPT ![a].phase = "halted"]
                 ELSE Drop(live, a)
      /\ \/ ~saved /\ ~leaves /\ UNCHANGED storage
         \/ ~saved /\ leaves /\ SeatDropped(s, cut) /\ UNCHANGED recs
         \/ saved /\ (cut \/ ~leaves) /\ RecordWipe(a[1], cut) /\ UNCHANGED seats
         \/ /\ saved /\ leaves /\ ~cut
            /\ recs' = Without(recs, a[1]) /\ seats' = Drop(seats, s)
            /\ locks' = locks \ (freed \cup ({seats[s]} \ Vals(recs')))
      /\ UNCHANGED <<up, copy, world, history>>

(* The provider's notice that the attempt stopped: the page lets the run   *)
(* go, whatever it has reached, without asking the machine - a record      *)
(* stays.                                                                  *)
Notice(a) ==
  /\ a \in DOMAIN live
  /\ live' = Drop(live, a)
  /\ UNCHANGED <<storage, up, copy, world, history, budget>>

(* A signed attempt leaves the page, with its seat, if it still has one,   *)
(* or without.                                                             *)
Ended(a, seatToo, cut) ==
  /\ a \in DOMAIN live /\ live[a].phase = "signed"
  /\ live' = Drop(live, a)
  /\ IF seatToo /\ a[2] \in DOMAIN seats
     THEN SeatDropped(a[2], cut) /\ Cut(cut)
     ELSE ~cut /\ UNCHANGED <<seats, locks, budget>>
  /\ UNCHANGED <<recs, up, copy, world, history>>

(* The funding is complete and sent: the seat goes (the page's finish).    *)
Finish(a, cut) == Ended(a, TRUE, cut)

(* The others' signatures never came: ten minutes later the page lets the  *)
(* attempt go, and the seat stays unless it was to go.                     *)
GiveUp(a, cut) ==
  /\ a \in DOMAIN live
  /\ Ended(a, live[a].dropAfter, cut)

(* settle_pass: every record the ledger has settled is wiped; a failure    *)
(* ends the pass with some of them wiped (done) and one of these still     *)
(* holding its coin.                                                       *)
SettlePass(done, cut) ==
  /\ up /\ done # {}
  /\ done \subseteq {a \in DOMAIN recs : DutyIsWipe(a)}
  /\ cut \/ done = {a \in DOMAIN recs : DutyIsWipe(a)}
  /\ recs' = [a \in DOMAIN recs \ done |-> recs[a]]
  /\ IF cut THEN \E a \in done : locks' = locks \ {recs[x] : x \in done \ {a}}
            ELSE locks' = locks \ {recs[x] : x \in done}
  /\ Cut(cut)
  /\ UNCHANGED <<seats, live, up, copy, world, history>>

(* An ordinary send takes a free coin; "Keep my coin out" one that a       *)
(* record and no seat names, while no attempt runs (keep_out_check,        *)
(* canKeepOut).  The hold stays (keep_out_plan frees a copy of the marks). *)
Send(c) ==
  /\ Free(c)
  /\ sends' = Put(sends, c, "send")
  /\ UNCHANGED <<storage, live, up, copy, chain, scanned, history, budget>>

KeepOut(c) ==
  /\ up /\ live = Empty
  /\ c \in Named /\ c \notin Vals(seats)
  /\ ~SpentAt(c, scanned) /\ c \notin DOMAIN sends
  /\ sends' = Put(sends, c, "keepout")
  /\ UNCHANGED <<storage, live, up, copy, chain, scanned, history, budget>>

-----------------------------------------------------------------------------
(* The page and the copies.                                                *)

Crash ==
  /\ up
  /\ live' = Empty /\ up' = FALSE
  /\ UNCHANGED <<storage, copy, world, history, budget>>

(* Mutant: at start the holds become those of the seats.                   *)
BootSeats ==
  /\ ~up /\ up' = TRUE
  /\ locks' = Vals(seats)
  /\ UNCHANGED <<recs, seats, live, copy, world, history, budget>>

(* The page starts: the holds become exactly the coins a seat or a record  *)
(* names (reconcile, reconcile_locks).                                     *)
Boot ==
  /\ ~up /\ up' = TRUE
  /\ locks' = Named \cup Vals(seats)
  /\ UNCHANGED <<recs, seats, live, copy, world, history, budget>>

(* The backup is uploaded (no more than a restore can still read).         *)
Backup ==
  /\ budget.restores > 0
  /\ copy' = [recs |-> recs, locks |-> locks]
  /\ copy' # copy
  /\ UNCHANGED <<storage, live, up, world, history, budget>>

(* The last copy on another phone, its ledger walked anew; no seat comes   *)
(* with it.                                                                *)
Restore ==
  /\ budget.restores > 0
  /\ budget' = [budget EXCEPT !.restores = @ - 1]
  /\ recs' = copy.recs /\ locks' = copy.locks /\ seats' = Empty
  /\ live' = Empty /\ up' = FALSE /\ scanned' = 0
  /\ lost' = lost \cup {a \in DOMAIN signed :
                          ~(a \in DOMAIN copy.recs /\ copy.recs[a] = signed[a])}
  /\ UNCHANGED <<copy, chain, sends, signed, recorded, clashed>>

-----------------------------------------------------------------------------
Next ==
  \/ \E t \in Minable : Block(t)
  \/ \E k \in 1..(SettleDepth - 1) : Reorg(k)
  \/ Walk
  \/ \E h \in 0..scanned : Rollback(h)
  \/ \E s \in Seats, c \in Coins, cut \in BOOLEAN : SeatNew(s, c, cut)
  \/ \E s \in Seats, cut \in BOOLEAN : SeatDrop(s, cut)
  \/ \E id \in Pools, s \in Seats : Start(id, s)
  \/ \E a \in Attempts, cut \in BOOLEAN : RecordSave(a, cut)
  \/ \E a \in Attempts : Sign(a)
  \/ \E a \in Attempts, solo, cut \in BOOLEAN : Stop(a, solo, cut)
  \/ \E a \in Attempts : Notice(a)
  \/ \E a \in Attempts, cut \in BOOLEAN : Finish(a, cut)
  \/ \E a \in Attempts, cut \in BOOLEAN : GiveUp(a, cut)
  \/ \E done \in SUBSET DOMAIN recs, cut \in BOOLEAN : SettlePass(done, cut)
  \/ \E c \in Coins : Send(c)
  \/ \E c \in Coins : KeepOut(c)
  \/ Crash
  \/ Boot
  \/ Backup
  \/ Restore

Spec == Init /\ [][Next]_vars

-----------------------------------------------------------------------------
(* What the store promises.                                                *)

IsMap(f, D, R) == DOMAIN f \subseteq D /\ f \in [DOMAIN f -> R]

Phones == [coin : Coins, dropAfter : BOOLEAN,
           phase : {"running", "stuck", "saved", "halted", "signed"}]

(* The types; one attempt at most for each seat, one record for each pool  *)
(* id.                                                                     *)
TypeOK ==
  /\ IsMap(recs, Attempts, Coins) /\ IsMap(seats, Seats, Coins)
  /\ IsMap(live, Attempts, Phones) /\ IsMap(signed, Attempts, Coins)
  /\ IsMap(sends, Coins, {"send", "keepout"})
  /\ locks \subseteq Coins /\ up \in BOOLEAN
  /\ IsMap(copy.recs, Attempts, Coins) /\ copy.locks \subseteq Coins
  /\ scanned \in 0..Len(chain) /\ Len(chain) \in 0..(MaxTip + 1)
  /\ recorded \subseteq Attempts \X Coins /\ lost \subseteq Attempts
  /\ clashed \subseteq Pools
  /\ \A x, y \in DOMAIN live : x[2] = y[2] => x = y
  /\ \A x, y \in DOMAIN recs : x[1] = y[1] => x = y

(* The funding signature of attempt a is out, this phone had its record,   *)
(* and the chain has not settled it.                                       *)
Open(a) == a \in DOMAIN signed \ lost /\ ~Settled(a, signed[a])

(* ... and its pool id was never that of two attempts at once.             *)
Sole(a) == Open(a) /\ a[1] \notin clashed

(* A pool this phone has signed keeps its record - the signed exits, the   *)
(* only way to the money if the others vanish - until the chain has        *)
(* settled it for good: through stops, other attempts, pool ids used       *)
(* again, failing writes, closed pages, reorganisations and restored       *)
(* copies (unless the copy is older than the record).  Two attempts at     *)
(* once under one pool id are not promised this: put replaces the record   *)
(* of the first by that of the second, and either's stop wipes it.         *)
SignedIsKept ==
  \A a \in Attempts : Sole(a) => a \in DOMAIN recs /\ recs[a] = signed[a]

(* ... and its coin held, unless another attempt of this phone recorded    *)
(* the same coin: the wipe of one record frees what another names.         *)
SignedIsHeld ==
  \A a \in Attempts :
    Sole(a) /\ up => \/ signed[a] \in locks
                     \/ \E x \in Attempts \ {a} : <<x, signed[a]>> \in recorded

(* No hold without a seat or a record behind it, in a page that started    *)
(* and whose writes all succeeded: a coin is not held for ever.  Only the  *)
(* coin of a record that another of its pool id may have replaced is.      *)
NoOrphanHold ==
  up /\ budget.cuts = MaxCuts =>
    \A c \in locks : \/ c \in Named \cup Vals(seats)
                     \/ \E x \in Attempts : x[1] \in clashed /\ <<x, c>> \in recorded

(* A send of this wallet's never takes a coin a signed pool may still      *)
(* spend.                                                                  *)
SendSparesSigned ==
  [][\A c \in Coins :
       c \in DOMAIN sends' \ DOMAIN sends /\ sends'[c] = "send"
         => \A a \in Attempts :
              Sole(a) /\ signed[a] = c
                => \E x \in Attempts \ {a} : <<x, c>> \in recorded]_vars

(* One coin is never signed into two pools ("a provider pool and a public  *)
(* room for the same coin can never both be signed").                      *)
CoinSignedOnce ==
  \A x, y \in Attempts :
    Open(x) /\ Open(y) /\ signed[x] = signed[y] => x = y
=============================================================================
