-------------------------- MODULE ChainFeedProofs --------------------------
(***************************************************************************)
(* Proofs about ChainFeed, for any number of channels, heights, moves,     *)
(* restarts and failed saves.                                              *)
(***************************************************************************)
EXTENDS ChainFeed, TLAPS

(* A channel that LDK, at this best block, will not find without           *)
(* confirmations - unless the heal has recorded its funding too early: its *)
(* funding, if it was ever seen, is recorded and at or below the block.    *)
Sound(k, best) ==
  k.early \/ /\ k.st # "unconfirmed"
             /\ k.st = "open" => (k.seen => k.fund # 0) /\ k.fund <= best

(* The manager, the one on disk, and the coordinator's ratchet: it never   *)
(* runs ahead of LDK, so what it lets through LDK can record.              *)
ManagerSound(m) == \A c \in Channels : Sound(m.chan[c], m.best)
NotAhead == coord.tip <= ldk.best /\ coord.floor <= ldk.best
ReadyBelow == \A p \in ready : p[2] <= ldk.best

(* The spend of a channel's funding, between the manager's channel (k) and *)
(* the saved one (s), the monitor in memory (l) and on disk (d): a monitor *)
(* that has seen it has the event or a closed channel, and one that is     *)
(* ahead stands for every close that the disk's manager does not know.     *)
KeptAt(k, s, l, d) ==
  /\ l.seen /\ k.st = "open" => l.event
  /\ d.seen /\ k.st = "open" => d.event
  /\ d.seen /\ s.st = "open" /\ ~d.ahead => d.event
  /\ s.st = "open" /\ k.st # "open" => d.ahead
  /\ d.ahead => l.ahead
  /\ k.st = "none" => ~l.seen /\ ~d.seen
  /\ s.st = "none" <=> k.st = "none"
Kept == \A c \in Channels :
          KeptAt(ldk.chan[c], saved.chan[c], mon.live[c], mon.disk[c])

Inv == /\ TypeOK /\ ManagerSound(ldk) /\ ManagerSound(saved)
       /\ NotAhead /\ ReadyBelow /\ Kept

Coords == [tip : Heights, floor : Heights, fund : [Channels -> Heights],
           spend : SUBSET Channels]
Bridges == [height : Heights, pending : SUBSET Confirmations]
Budgets == [{"moves", "restarts", "fails"} -> Nat]
Pairs == [live : Monitors, disk : Monitors]
Monitor == [seen : BOOLEAN, event : BOOLEAN, ahead : BOOLEAN]
Budget == {"moves", "restarts", "fails"}

-----------------------------------------------------------------------------
(* LDK's channels.                                                         *)

(* What is left of the bounds keeps its type.                              *)
LEMMA SpentType ==
  ASSUME budget \in Budgets, NEW w \in Budget, Spent(w)
  PROVE  budget' \in Budgets
  BY DEF Spent, Budgets, Budget

(* A block at or above the funding takes nothing away.                     *)
LEMMA BestOnSound ==
  ASSUME NEW k \in Chan, NEW h \in Heights, NEW b \in Heights, Sound(k, b), b <= h
  PROVE  BestOn(k, h) \in Chan /\ Sound(BestOn(k, h), h)
<1> DEFINE r1 == [k EXCEPT !.fund = 0]
           st == IF k.ours /\ k.seen THEN "unconfirmed" ELSE "open"
<1>1. CASE k.st # "open" \/ Confs(k, h) > 0
  BY <1>1, FeedAssumption DEF BestOn, Confs, Sound, Chan, Heights
<1>2. CASE ~(k.st # "open" \/ Confs(k, h) > 0)
  <2>1. r1 \in Chan /\ r1.early = k.early /\ r1.fund = 0 /\ r1.seen = k.seen
    BY FeedAssumption DEF Chan, Heights
  <2>2. k.fund = 0 \/ h < k.fund
    BY <1>2, FeedAssumption DEF Confs, Chan, Heights
  <2>3. k.early \/ ~k.seen
    BY <1>2, <2>2, FeedAssumption DEF Sound, Chan, Heights
  <2> HIDE DEF r1
  <2>4. st \in {"open", "unconfirmed"} /\ (k.early \/ st = "open")
    BY <2>3
  <2> HIDE DEF st
  <2>5. LET r2 == [r1 EXCEPT !.st = st]
        IN  /\ r2 \in Chan /\ r2.early = k.early /\ r2.fund = 0 /\ r2.seen = k.seen
            /\ r2.st = st
    BY <2>1, <2>4 DEF Chan
  <2>6. BestOn(k, h) = [r1 EXCEPT !.st = st]
    BY <1>2 DEF BestOn, r1, st
  <2> QED BY <2>3, <2>4, <2>5, <2>6, FeedAssumption DEF Sound, Heights
<1> QED BY <1>1, <1>2

(* A funding recorded at or below the best block.                          *)
LEMMA FundOnSound ==
  ASSUME NEW k \in Chan, NEW h \in 1..MaxTip, NEW b \in Heights, Sound(k, b)
  PROVE  /\ FundOn(k, h) \in Chan
         /\ FundOn(k, h).early = k.early
         /\ h <= b => Sound(FundOn(k, h), b)
         /\ h > b => Sound(FundOn(k, h), b) \/ (k.st = "open" /\ k.fund = 0)
<1>1. CASE k.st # "open" \/ k.fund # 0
  BY <1>1 DEF FundOn
<1>2. CASE ~(k.st # "open" \/ k.fund # 0)
  <2> DEFINE r1 == [k EXCEPT !.fund = h]
             r2 == [r1 EXCEPT !.seen = TRUE]
  <2>1. r1 \in Chan /\ r1.early = k.early /\ r1.fund = h /\ r1.st = "open"
    BY <1>2, FeedAssumption DEF Chan, Heights
  <2> HIDE DEF r1
  <2>2. r2 \in Chan /\ r2.early = k.early /\ r2.fund = h /\ r2.st = "open"
    BY <2>1 DEF Chan
  <2> HIDE DEF r2
  <2>3. LET r3 == [r2 EXCEPT !.ours = TRUE]
        IN  r3 \in Chan /\ r3.early = k.early /\ r3.fund = h /\ r3.st = "open"
    BY <2>2 DEF Chan
  <2>4. FundOn(k, h) = [r2 EXCEPT !.ours = TRUE]
    BY <1>2 DEF FundOn, r1, r2
  <2> QED BY <1>2, <2>3, <2>4, FeedAssumption DEF Sound, Heights
<1> QED BY <1>1, <1>2

(* A channel that the manager closes stays sound.                          *)
LEMMA CloseSound ==
  ASSUME NEW k \in Chan, NEW b \in Heights, Sound(k, b)
  PROVE  LET r == [k EXCEPT !.st = "closed"]
         IN  r \in Chan /\ Sound(r, b) /\ r.st = "closed"
  BY DEF Chan, Sound

(* Neither a block nor a funding opens a channel or makes it unknown.      *)
LEMMA OnlyCloses ==
  ASSUME NEW k \in Chan, NEW h
  PROVE  /\ BestOn(k, h).st = "open" => k.st = "open"
         /\ BestOn(k, h).st = "none" <=> k.st = "none"
         /\ FundOn(k, h).st = k.st
  BY DEF BestOn, FundOn, Chan

(* A call into LDK that opens no channel keeps what the monitors know.     *)
LEMMA LeavesKept ==
  ASSUME Inv, NEW best, NEW chan \in [Channels -> Chan], NEW live \in Monitors,
         NEW synced \in SUBSET Channels, NEW touched \in BOOLEAN,
         Leaves(best, chan, live, synced, touched), saved' = saved,
         \A c \in Channels :
           /\ chan[c].st = "open" => ldk.chan[c].st = "open"
           /\ chan[c].st = "none" <=> ldk.chan[c].st = "none"
           /\ live[c].ahead = mon.live[c].ahead
           /\ live[c].seen /\ chan[c].st = "open" => live[c].event
           /\ chan[c].st = "none" => ~live[c].seen
  PROVE  /\ ldk' = [best |-> best, chan |-> chan]
         /\ mon' \in Pairs /\ dirty' \in BOOLEAN /\ Kept'
<1> DEFINE closed == {c \in Channels : ldk.chan[c].st = "open" /\ chan[c].st # "open"}
           after == [c \in Channels |-> [live[c] EXCEPT !.ahead = @ \/ c \in closed]]
           disk == [c \in Channels |->
                      IF c \in closed \cup synced THEN after[c] ELSE mon.disk[c]]
<1>1. /\ ldk' = [best |-> best, chan |-> chan] /\ mon' = [live |-> after, disk |-> disk]
      /\ dirty' \in BOOLEAN
  BY DEF Leaves
<1>2. \A c \in Channels : live[c] \in Monitor /\ mon.disk[c] \in Monitor
  BY DEF Inv, TypeOK, Monitors, Monitor
<1>3. \A c \in Channels :
        /\ after[c] \in Monitor
        /\ after[c].seen = live[c].seen /\ after[c].event = live[c].event
        /\ after[c].ahead = (live[c].ahead \/ c \in closed)
  <2> TAKE c \in Channels
  <2> DEFINE x == live[c].ahead \/ c \in closed
  <2>1. x \in BOOLEAN /\ after[c] = [live[c] EXCEPT !.ahead = x]
    OBVIOUS
  <2> HIDE DEF x
  <2>2. /\ after[c] \in Monitor /\ after[c].ahead = x
        /\ after[c].seen = live[c].seen /\ after[c].event = live[c].event
    BY <1>2, <2>1 DEF Monitor
  <2> QED BY <2>2 DEF x
<1>4. \A c \in Channels : disk[c] = IF c \in closed \cup synced THEN after[c] ELSE mon.disk[c]
  OBVIOUS
<1>5. \A c \in Channels : c \in closed <=> ldk.chan[c].st = "open" /\ chan[c].st # "open"
  OBVIOUS
<1>6. after \in Monitors /\ disk \in Monitors
  <2>1. after = [c \in Channels |-> after[c]] /\ disk = [c \in Channels |-> disk[c]]
    OBVIOUS
  <2> HIDE DEF after, disk
  <2> QED BY <1>2, <1>3, <1>4, <2>1 DEF Monitors, Monitor
<1> HIDE DEF after, disk, closed
<1>7. ASSUME NEW c \in Channels
      PROVE  KeptAt(chan[c], saved.chan[c], after[c], disk[c])
  <2>1. KeptAt(ldk.chan[c], saved.chan[c], mon.live[c], mon.disk[c])
    BY DEF Inv, Kept
  <2>2. saved.chan[c].st = "open" /\ chan[c].st # "open" => disk[c].ahead
    BY <1>3, <1>4, <1>5, <2>1 DEF KeptAt
  <2>3. after[c].seen /\ chan[c].st = "open" => after[c].event
    BY <1>3
  <2>4. disk[c].seen /\ chan[c].st = "open" => disk[c].event
    BY <1>4, <2>1, <2>3 DEF KeptAt
  <2>5. disk[c].seen /\ saved.chan[c].st = "open" /\ ~disk[c].ahead => disk[c].event
    BY <2>2, <2>4
  <2>6. disk[c].ahead => after[c].ahead
    BY <1>3, <1>4, <2>1 DEF KeptAt
  <2>7. chan[c].st = "none" => ~after[c].seen /\ ~disk[c].seen
    BY <1>3, <1>4, <2>1 DEF KeptAt
  <2>8. saved.chan[c].st = "none" <=> chan[c].st = "none"
    BY <2>1 DEF KeptAt
  <2> QED BY <2>2, <2>3, <2>4, <2>5, <2>6, <2>7, <2>8 DEF KeptAt
<1>8. Kept'
  BY <1>1, <1>7 DEF Kept
<1>9. mon' \in Pairs
  BY <1>1, <1>6 DEF Pairs
<1> QED BY <1>1, <1>8, <1>9

(* Every channel checked against a new best block.                         *)
LEMMA BestBlockSound ==
  ASSUME Inv, NEW h \in Heights, h >= ldk.best, BestBlockUpdated(h), saved' = saved
  PROVE  /\ ldk' \in Manager /\ ManagerSound(ldk)' /\ ldk'.best = h
         /\ mon' \in Pairs /\ dirty' \in BOOLEAN /\ Kept'
<1> DEFINE f == [c \in Channels |-> BestOn(ldk.chan[c], h)]
<1>1. \A c \in Channels : /\ BestOn(ldk.chan[c], h) \in Chan
                          /\ Sound(BestOn(ldk.chan[c], h), h)
  BY BestOnSound DEF Inv, ManagerSound, TypeOK, Manager
<1>2. f \in [Channels -> Chan] /\ mon.live \in Monitors
  BY <1>1 DEF Inv, TypeOK
<1>3. \A c \in Channels : /\ f[c].st = "open" => ldk.chan[c].st = "open"
                          /\ f[c].st = "none" <=> ldk.chan[c].st = "none"
  BY OnlyCloses DEF Inv, TypeOK, Manager
<1>4. PICK synced \in SUBSET Channels : Leaves(h, f, mon.live, synced, TRUE)
  BY DEF BestBlockUpdated
<1>5. \A c \in Channels : Sound(f[c], h)
  BY <1>1
<1> HIDE DEF f
<1>6. /\ ldk' = [best |-> h, chan |-> f]
      /\ mon' \in Pairs /\ dirty' \in BOOLEAN /\ Kept'
  BY <1>2, <1>3, <1>4, LeavesKept DEF Inv, Kept, KeptAt
<1> QED BY <1>2, <1>5, <1>6 DEF Manager, ManagerSound

(* ... and a confirmation, with the check of every channel it may set off. *)
LEMMA ConfirmedSound ==
  ASSUME Inv, NEW chan \in [Channels -> Chan], NEW live \in Monitors, NEW h \in Heights,
         \A c \in Channels : Sound(chan[c], ldk.best), Confirmed(chan, live, h),
         saved' = saved,
         \A c \in Channels :
           /\ chan[c].st = ldk.chan[c].st
           /\ live[c].ahead = mon.live[c].ahead
           /\ live[c].seen /\ chan[c].st = "open" => live[c].event
           /\ chan[c].st = "none" => ~live[c].seen
  PROVE  /\ ldk' \in Manager /\ ManagerSound(ldk)' /\ ldk'.best = ldk.best
         /\ mon' \in Pairs /\ dirty' \in BOOLEAN /\ Kept'
<1> DEFINE f == IF h < ldk.best
                THEN [c \in Channels |-> BestOn(chan[c], ldk.best)] ELSE chan
<1>1. ldk.best \in Heights /\ ldk \in Manager
  BY DEF Inv, TypeOK, Manager
<1>2. \A c \in Channels : /\ BestOn(chan[c], ldk.best) \in Chan
                          /\ Sound(BestOn(chan[c], ldk.best), ldk.best)
  BY <1>1, BestOnSound DEF Heights
<1>3. f \in [Channels -> Chan] /\ \A c \in Channels : Sound(f[c], ldk.best)
  BY <1>2
<1>4. \A c \in Channels : /\ f[c].st = "open" => chan[c].st = "open"
                          /\ f[c].st = "none" <=> chan[c].st = "none"
  BY OnlyCloses
<1>5. PICK synced \in SUBSET Channels : Leaves(ldk.best, f, live, synced, FALSE)
  BY DEF Confirmed
<1> HIDE DEF f
<1>6. \A c \in Channels :
        /\ f[c].st = "open" => ldk.chan[c].st = "open"
        /\ f[c].st = "none" <=> ldk.chan[c].st = "none"
        /\ live[c].ahead = mon.live[c].ahead
        /\ live[c].seen /\ f[c].st = "open" => live[c].event
        /\ f[c].st = "none" => ~live[c].seen
  BY <1>4
<1>7. /\ ldk' = [best |-> ldk.best, chan |-> f]
      /\ mon' \in Pairs /\ dirty' \in BOOLEAN /\ Kept'
  BY <1>3, <1>5, <1>6, LeavesKept
<1> QED BY <1>1, <1>3, <1>7 DEF Manager, ManagerSound

(* A funding confirmed at or below the best block keeps the channels       *)
(* sound.                                                                  *)
LEMMA FundingSound ==
  ASSUME Inv, NEW c \in Channels, NEW h \in 1..MaxTip, h <= ldk.best,
         FundingConfirmed(c, h), saved' = saved
  PROVE  /\ ldk' \in Manager /\ ManagerSound(ldk)' /\ ldk'.best = ldk.best
         /\ mon' \in Pairs /\ dirty' \in BOOLEAN /\ Kept'
<1> DEFINE f == [ldk.chan EXCEPT ![c] = FundOn(@, h)]
<1>1. ldk.best \in Heights /\ ldk.chan \in [Channels -> Chan]
  BY DEF Inv, TypeOK, Manager
<1>2. FundOn(ldk.chan[c], h) \in Chan /\ Sound(FundOn(ldk.chan[c], h), ldk.best)
  BY <1>1, FundOnSound DEF Inv, ManagerSound
<1>3. f \in [Channels -> Chan] /\ \A d \in Channels : Sound(f[d], ldk.best)
  BY <1>1, <1>2 DEF Inv, ManagerSound
<1>4. Confirmed(f, mon.live, h) /\ h \in Heights
  BY FeedAssumption DEF FundingConfirmed, Heights
<1>5. \A d \in Channels : f[d].st = ldk.chan[d].st
  BY <1>1, OnlyCloses
<1> HIDE DEF f
<1>6. /\ mon.live \in Monitors
      /\ \A d \in Channels :
           /\ mon.live[d].seen /\ f[d].st = "open" => mon.live[d].event
           /\ f[d].st = "none" => ~mon.live[d].seen
  BY <1>5 DEF Inv, TypeOK, Kept, KeptAt
<1> QED BY <1>3, <1>4, <1>5, <1>6, ConfirmedSound

(* The heal marks what it records above the best block.                    *)
LEMMA HealSound ==
  ASSUME Inv, NEW c \in Channels, NEW h \in 1..MaxTip, HealConfirmed(c, h), saved' = saved
  PROVE  /\ ldk' \in Manager /\ ManagerSound(ldk)' /\ ldk'.best = ldk.best
         /\ mon' \in Pairs /\ dirty' \in BOOLEAN /\ Kept'
<1> DEFINE k == ldk.chan[c]
           g == FundOn(k, h)
           e == k.early \/ (k.st = "open" /\ k.fund = 0 /\ h > ldk.best)
           r == [g EXCEPT !.early = e]
           f == [ldk.chan EXCEPT ![c] = r]
<1>1. ldk.best \in Heights /\ ldk.chan \in [Channels -> Chan] /\ k \in Chan
  BY DEF Inv, TypeOK, Manager
<1>2. /\ g \in Chan /\ g.early = k.early
      /\ h <= ldk.best => Sound(g, ldk.best)
      /\ h > ldk.best => Sound(g, ldk.best) \/ (k.st = "open" /\ k.fund = 0)
  BY <1>1, FundOnSound DEF Inv, ManagerSound
<1>3. h \in Heights
  BY FeedAssumption DEF Heights
<1>4. Confirmed(f, mon.live, h)
  BY DEF HealConfirmed
<1>0. g.st = k.st
  BY <1>1, OnlyCloses
<1> HIDE DEF g
<1>5. e \/ Sound(g, ldk.best)
  BY <1>1, <1>2, <1>3 DEF Heights
<1>6. e \in BOOLEAN /\ (g.early => e)
  BY <1>1, <1>2 DEF Chan
<1> HIDE DEF e
<1>7. /\ r \in Chan /\ r.early = e /\ r.st = g.st /\ r.fund = g.fund
      /\ r.seen = g.seen
  BY <1>2, <1>6 DEF Chan
<1>8. Sound(r, ldk.best)
  BY <1>5, <1>6, <1>7 DEF Sound
<1>9. f \in [Channels -> Chan] /\ \A d \in Channels : Sound(f[d], ldk.best)
  BY <1>1, <1>7, <1>8 DEF Inv, ManagerSound
<1>10. \A d \in Channels : f[d].st = ldk.chan[d].st
  BY <1>0, <1>1, <1>7
<1> HIDE DEF f
<1>11. /\ mon.live \in Monitors
       /\ \A d \in Channels :
            /\ mon.live[d].seen /\ f[d].st = "open" => mon.live[d].event
            /\ f[d].st = "none" => ~mon.live[d].seen
  BY <1>10 DEF Inv, TypeOK, Kept, KeptAt
<1> QED BY <1>3, <1>4, <1>9, <1>10, <1>11, ConfirmedSound

(* A spend that is confirmed closes nothing, and gives the monitor its     *)
(* event.                                                                  *)
LEMMA SpendSound ==
  ASSUME Inv, NEW c \in Channels, NEW h \in Heights, SpendConfirmed(c, h),
         ldk.chan[c].st # "none", saved' = saved
  PROVE  /\ ldk' \in Manager /\ ManagerSound(ldk)' /\ ldk'.best = ldk.best
         /\ mon' \in Pairs /\ dirty' \in BOOLEAN /\ Kept'
<1> DEFINE m == mon.live[c]
           e == m.event \/ ~m.seen
           m1 == [m EXCEPT !.seen = TRUE]
           m2 == [m1 EXCEPT !.event = e]
           live == [mon.live EXCEPT ![c] = m2]
<1>1. ldk.best \in Heights /\ ldk.chan \in [Channels -> Chan]
  BY DEF Inv, TypeOK, Manager
<1>2. mon.live \in [Channels -> Monitor] /\ m \in Monitor /\ e \in BOOLEAN
  BY DEF Inv, TypeOK, Monitors, Monitor
<1>3. m1 \in Monitor /\ m1.ahead = m.ahead /\ m1.seen = TRUE
  BY <1>2 DEF Monitor
<1>4. Confirmed(ldk.chan, live, h)
  <2>1. [m EXCEPT !.seen = TRUE, !.event = m.event \/ ~m.seen] = m2
    OBVIOUS
  <2> QED BY <2>1 DEF SpendConfirmed
<1>5. KeptAt(ldk.chan[c], saved.chan[c], m, mon.disk[c])
  BY DEF Inv, Kept
<1>6. ldk.chan[c].st = "open" => e
  BY <1>5 DEF KeptAt
<1> HIDE DEF m1, e
<1>7. m2 \in Monitor /\ m2.ahead = m.ahead /\ m2.event = e
  BY <1>2, <1>3 DEF Monitor
<1> HIDE DEF m2
<1>8. live \in Monitors
  BY <1>2, <1>7 DEF Monitors, Monitor
<1>9. \A d \in Channels :
        /\ live[d].ahead = mon.live[d].ahead
        /\ live[d].seen /\ ldk.chan[d].st = "open" => live[d].event
        /\ ldk.chan[d].st = "none" => ~live[d].seen
  <2> TAKE d \in Channels
  <2>1. CASE d = c
    BY <1>2, <1>6, <1>7, <2>1
  <2>2. CASE d # c
    <3>1. KeptAt(ldk.chan[d], saved.chan[d], mon.live[d], mon.disk[d])
      BY DEF Inv, Kept
    <3>2. live[d] = mon.live[d]
      BY <1>2, <2>2
    <3> QED BY <3>1, <3>2 DEF KeptAt
  <2> QED BY <2>1, <2>2
<1> HIDE DEF live
<1> QED BY <1>1, <1>4, <1>8, <1>9, ConfirmedSound DEF Inv, ManagerSound

-----------------------------------------------------------------------------
(* The coordinator.                                                        *)

(* The coordinator made anew knows no tip.                                 *)
LEMMA HydratedType ==
  ASSUME NEW m \in Manager
  PROVE  Hydrated(m) \in Coords /\ Hydrated(m).tip = 0 /\ Hydrated(m).floor = 0
<1> DEFINE f == [c \in Channels |-> IF m.chan[c].st = "open" THEN m.chan[c].fund ELSE 0]
<1>1. f \in [Channels -> Heights]
  BY FeedAssumption DEF Manager, Chan, Heights
<1>2. FreshCoord \in Coords /\ FreshCoord.tip = 0 /\ FreshCoord.floor = 0
  BY FeedAssumption DEF FreshCoord, Coords, Heights
<1>3. Hydrated(m) = [FreshCoord EXCEPT !.fund = f]
  BY DEF Hydrated
<1> HIDE DEF f
<1> QED BY <1>1, <1>2, <1>3 DEF Coords

(* The tip: LDK hears of one above its best block, and the coordinator's   *)
(* stays at or below LDK's.                                                *)
LEMMA TipStepSound ==
  ASSUME Inv, NEW h \in Heights, TipStep(h), saved' = saved
  PROVE  /\ coord' \in Coords /\ ldk' \in Manager /\ dirty' \in BOOLEAN
         /\ ManagerSound(ldk)' /\ NotAhead' /\ ldk'.best >= ldk.best
         /\ mon' \in Pairs /\ Kept'
<1> DEFINE seeded == SeedFloor(coord)
           r == IngestBridgeTip(seeded, h)
<1>1. ldk.best \in Heights /\ ldk \in Manager /\ coord \in Coords /\ dirty \in BOOLEAN
  BY DEF Inv, TypeOK, Manager, Coords
<1>2. seeded \in Coords /\ seeded.tip = coord.tip /\ seeded.floor = ldk.best
  BY <1>1, FeedAssumption DEF Inv, NotAhead, SeedFloor, Max2, Coords, Heights
<1> HIDE DEF seeded
<1>3. CASE h <= ldk.best
  <2>1. coord' = seeded /\ ldk' = ldk /\ dirty' = dirty /\ mon' = mon
    BY <1>3 DEF TipStep, seeded, node
  <2>2. ManagerSound(ldk)'
    BY <2>1 DEF Inv, ManagerSound
  <2>3. NotAhead'
    BY <1>1, <1>2, <2>1 DEF Inv, NotAhead, Heights
  <2>4. ldk'.best >= ldk.best
    BY <1>1, <2>1, FeedAssumption DEF Heights
  <2>5. mon' \in Pairs /\ Kept'
    BY <2>1 DEF Inv, TypeOK, Pairs, Kept
  <2> QED BY <1>1, <1>2, <2>1, <2>2, <2>3, <2>4, <2>5
<1>4. CASE ~(h <= ldk.best)
  <2>1. h > ldk.best /\ ~(h <= seeded.tip) /\ ~(h < seeded.floor)
    BY <1>1, <1>2, <1>4, FeedAssumption DEF Inv, NotAhead, Coords, Heights
  <2>2. r = [to |-> [seeded EXCEPT !.tip = h, !.floor = h], tell |-> TRUE]
    BY <2>1 DEF IngestBridgeTip
  <2> DEFINE s1 == [seeded EXCEPT !.tip = h]
  <2>3. s1 \in Coords /\ s1.tip = h
    BY <1>2 DEF Coords
  <2> HIDE DEF s1
  <2>4. LET s2 == [s1 EXCEPT !.floor = h]
        IN  s2 \in Coords /\ s2.tip = h /\ s2.floor = h
    BY <2>3 DEF Coords
  <2>5. r.to = [s1 EXCEPT !.floor = h] /\ r.tell
    BY <2>2 DEF s1
  <2>6. coord' = r.to /\ BestBlockUpdated(h)
    BY <1>4, <2>5 DEF TipStep, seeded
  <2>7. /\ ldk' \in Manager /\ ManagerSound(ldk)' /\ ldk'.best = h
        /\ mon' \in Pairs /\ dirty' \in BOOLEAN /\ Kept'
    BY <1>1, <2>1, <2>6, BestBlockSound DEF Heights
  <2>8. NotAhead' /\ ldk'.best >= ldk.best
    BY <1>1, <2>1, <2>4, <2>5, <2>6, <2>7 DEF NotAhead, Heights
  <2> QED BY <2>4, <2>5, <2>6, <2>7, <2>8
<1> QED BY <1>3, <1>4

-----------------------------------------------------------------------------
(* What is left to show of a step: the types of what it changes, LDK, and  *)
(* the confirmations that are being drained.                               *)

(* The invariant after a step of the feed that drops no best block.        *)
LEMMA InvOf ==
  ASSUME Inv, TypeOK', ldk'.best >= ldk.best, NotAhead', ready' \subseteq ready,
         ManagerSound(ldk)', saved' \in {saved, ldk}, Kept'
  PROVE  Inv'
<1>1. ManagerSound(saved)'
  BY DEF Inv, ManagerSound
<1>2. ReadyBelow'
  <2> SUFFICES ASSUME NEW p \in ready' PROVE p[2] <= ldk'.best
    BY DEF ReadyBelow
  <2>1. p[2] \in Heights /\ p[2] <= ldk.best
    BY FeedAssumption DEF Inv, TypeOK, Confirmations, ReadyBelow, Heights
  <2> QED BY <2>1 DEF Inv, TypeOK, Manager, Heights
<1> QED BY <1>1, <1>2 DEF Inv

LEMMA MineInv ==
  ASSUME Inv, NEW funds \in SUBSET Channels, NEW closes \in SUBSET Channels,
         Mine(funds, closes)
  PROVE  Inv'
<1>1. tip + 1 \in 1..MaxTip /\ tip + 1 \in Heights
  BY FeedAssumption DEF Inv, TypeOK, Mine, Heights
<1>2. conf' \in [Channels -> Heights] /\ spent' \in [Channels -> Heights]
  BY <1>1 DEF Inv, TypeOK, Mine
<1>3. TypeOK'
  BY <1>1, <1>2 DEF Inv, TypeOK, Mine, node, tick
<1> QED BY <1>3 DEF Inv, Mine, tick, node, Kept, ManagerSound, NotAhead, ReadyBelow

LEMMA MoveInv ==
  ASSUME Inv, NEW c \in Channels, Move(c)
  PROVE  Inv'
<1>1. tip + 1 \in 1..MaxTip /\ tip + 1 \in Heights
  BY FeedAssumption DEF Inv, TypeOK, Move, Heights
<1>2. conf' \in [Channels -> Heights]
  BY <1>1 DEF Inv, TypeOK, Move
<1>3. budget' \in Budgets
  BY SpentType DEF Inv, TypeOK, Move, Budgets, Budget
<1>4. TypeOK'
  BY <1>1, <1>2, <1>3 DEF Inv, TypeOK, Move, node, tick, Budgets
<1> QED BY <1>4 DEF Inv, Move, tick, node, Kept, ManagerSound, NotAhead, ReadyBelow

LEMMA LspSendsTipInv ==
  ASSUME Inv, NEW h \in 1..MaxTip, LspSendsTip(h)
  PROVE  Inv'
<1>1. bridge' \in Bridges
  BY FeedAssumption DEF Inv, TypeOK, LspSendsTip, Bridges, Heights
<1>2. TypeOK'
  BY <1>1 DEF Inv, TypeOK, LspSendsTip, node, tick, chain, Bridges
<1> QED BY <1>2 DEF Inv, LspSendsTip, tick, node, Kept, ManagerSound, NotAhead, ReadyBelow

LEMMA LspSendsConfInv ==
  ASSUME Inv, NEW c \in Channels, LspSendsConf(c)
  PROVE  Inv'
<1>1. <<c, conf[c]>> \in Confirmations
  BY FeedAssumption DEF Inv, TypeOK, LspSendsConf, Confirmations, Heights
<1>2. bridge' \in Bridges
  BY <1>1 DEF Inv, TypeOK, LspSendsConf, Bridges
<1>3. TypeOK'
  BY <1>2 DEF Inv, TypeOK, LspSendsConf, node, tick, chain, Bridges
<1> QED BY <1>3 DEF Inv, LspSendsConf, tick, node, Kept, ManagerSound, NotAhead, ReadyBelow

LEMMA OpenInv ==
  ASSUME Inv, NEW c \in Channels, NEW zeroConf \in BOOLEAN, Open(c, zeroConf)
  PROVE  Inv'
<1> DEFINE n1 == [NoChannel EXCEPT !.st = "open"]
           n2 == [n1 EXCEPT !.ours = zeroConf]
<1>1. n1 \in Chan /\ n1.fund = 0 /\ ~n1.seen /\ n1.st = "open"
  <2>1. NoChannel \in Chan /\ NoChannel.fund = 0 /\ NoChannel.seen = FALSE
    BY FeedAssumption DEF NoChannel, Chan, Heights
  <2> QED BY <2>1 DEF Chan
<1> HIDE DEF n1
<1>2. n2 \in Chan /\ n2.fund = 0 /\ ~n2.seen /\ n2.st = "open"
  BY <1>1 DEF Chan
<1>3. ldk' = [ldk EXCEPT !.chan[c] = n2] /\ saved' = ldk'
  BY DEF Open, n1
<1> HIDE DEF n2
<1>4. ldk \in Manager /\ ldk.best \in Heights
  BY DEF Inv, TypeOK, Manager
<1>5. /\ ldk' \in Manager /\ ldk'.best = ldk.best
      /\ ldk'.chan = [ldk.chan EXCEPT ![c] = n2]
  BY <1>2, <1>3, <1>4 DEF Manager
<1>6. Sound(n2, ldk.best)
  BY <1>2, <1>4 DEF Sound, Heights
<1>7. ManagerSound(ldk)' /\ ManagerSound(saved)'
  BY <1>3, <1>4, <1>5, <1>6 DEF Inv, ManagerSound, Manager
<1>8. TypeOK'
  BY <1>3, <1>5 DEF Inv, TypeOK, Open, tick, chain
<1>9. Kept'
  <2> SUFFICES ASSUME NEW d \in Channels
               PROVE  KeptAt(ldk'.chan[d], saved'.chan[d], mon.live[d], mon.disk[d])
    BY DEF Open, Kept
  <2>1. KeptAt(ldk.chan[d], saved.chan[d], mon.live[d], mon.disk[d])
    BY DEF Inv, Kept
  <2>2. CASE d = c
    <3>1. ldk'.chan[d] = n2 /\ saved'.chan[d] = n2 /\ ldk.chan[d].st = "none"
      BY <1>3, <1>4, <1>5, <2>2 DEF Manager, Open
    <3>2. ~mon.live[d].seen /\ ~mon.disk[d].seen
      BY <2>1, <3>1 DEF KeptAt
    <3> QED BY <1>2, <2>1, <3>1, <3>2 DEF KeptAt
  <2>3. CASE d # c
    <3>1. ldk'.chan[d] = ldk.chan[d] /\ saved'.chan[d] = ldk.chan[d]
      BY <1>3, <1>4, <1>5, <2>3 DEF Manager
    <3> QED BY <2>1, <3>1 DEF KeptAt
  <2> QED BY <2>2, <2>3
<1> QED BY <1>5, <1>7, <1>8, <1>9 DEF Inv, Open, tick, NotAhead, ReadyBelow

LEMMA TheirReadyInv ==
  ASSUME Inv, NEW c \in Channels, TheirReady(c)
  PROVE  Inv'
<1> DEFINE k == [ldk.chan[c] EXCEPT !.theirs = TRUE]
<1>1. ldk \in Manager /\ ldk.chan[c] \in Chan
  BY DEF Inv, TypeOK, Manager
<1>2. /\ k \in Chan /\ k.st = ldk.chan[c].st /\ k.early = ldk.chan[c].early
      /\ k.fund = ldk.chan[c].fund /\ k.seen = ldk.chan[c].seen
  BY <1>1 DEF Chan
<1>3. ldk' = [ldk EXCEPT !.chan[c] = k]
  BY DEF TheirReady
<1> HIDE DEF k
<1>4. /\ ldk' \in Manager /\ ldk'.best = ldk.best
      /\ ldk'.chan = [ldk.chan EXCEPT ![c] = k]
  BY <1>1, <1>2, <1>3 DEF Manager
<1>5. Sound(k, ldk.best)
  BY <1>2 DEF Inv, ManagerSound, Sound
<1>6. ManagerSound(ldk)'
  BY <1>1, <1>4, <1>5 DEF Inv, ManagerSound, Manager
<1>7. TypeOK'
  BY <1>4 DEF Inv, TypeOK, TheirReady, tick, chain
<1>8. Kept'
  BY <1>1, <1>2, <1>4 DEF Inv, TheirReady, Kept, KeptAt, Manager
<1> QED BY <1>4, <1>6, <1>7, <1>8 DEF Inv, TheirReady, tick, NotAhead, ReadyBelow,
     ManagerSound

LEMMA TickInv ==
  ASSUME Inv, Tick
  PROVE  Inv' /\ ldk'.best >= ldk.best
<1>1. /\ bridge.height \in Heights /\ bridge \in Bridges /\ TipStep(bridge.height)
      /\ saved' = saved
  BY DEF Inv, TypeOK, Bridges, Tick
<1>2. /\ coord' \in Coords /\ ldk' \in Manager /\ dirty' \in BOOLEAN
      /\ ManagerSound(ldk)' /\ NotAhead' /\ ldk'.best >= ldk.best
      /\ mon' \in Pairs /\ Kept'
  BY <1>1, TipStepSound
<1>3. ready' \subseteq bridge.pending /\ \A p \in ready' : p[2] <= coord'.tip
  BY DEF Tick
<1>4. bridge' \in Bridges
  BY <1>1 DEF Tick, Bridges
<1>5. TypeOK'
  BY <1>1, <1>2, <1>3, <1>4 DEF Inv, TypeOK, Tick, chain, Bridges, Coords, Pairs
<1>6. ReadyBelow'
  <2> SUFFICES ASSUME NEW p \in ready' PROVE p[2] <= ldk'.best
    BY DEF ReadyBelow
  <2>1. p[2] \in Heights /\ p[2] <= coord'.tip
    BY <1>1, <1>3, FeedAssumption DEF Bridges, Confirmations, Heights
  <2> QED BY <1>2, <2>1 DEF NotAhead, Coords, Manager, Heights
<1>7. ManagerSound(saved)'
  BY DEF Inv, Tick, ManagerSound
<1> QED BY <1>2, <1>5, <1>6, <1>7 DEF Inv

LEMMA DrainInv ==
  ASSUME Inv, Drain
  PROVE  Inv' /\ ldk'.best = ldk.best
<1> PICK p \in ready :
      /\ coord' = [coord EXCEPT !.fund[p[1]] = p[2]]
      /\ FundingConfirmed(p[1], p[2])
      /\ ready' = ready \ {p}
  BY DEF Drain
<1>1. p[1] \in Channels /\ p[2] \in 1..MaxTip /\ p[2] \in Heights /\ p[2] <= ldk.best
  BY FeedAssumption DEF Inv, TypeOK, Confirmations, ReadyBelow, Heights
<1>2. /\ ldk' \in Manager /\ ManagerSound(ldk)' /\ ldk'.best = ldk.best
      /\ mon' \in Pairs /\ dirty' \in BOOLEAN /\ Kept'
  BY <1>1, FundingSound DEF Drain
<1>3. coord' \in Coords /\ coord'.tip = coord.tip /\ coord'.floor = coord.floor
  BY <1>1 DEF Inv, TypeOK, Coords
<1>4. TypeOK'
  BY <1>2, <1>3 DEF Inv, TypeOK, Drain, chain, Coords, Pairs
<1>5. ldk'.best >= ldk.best /\ NotAhead'
  BY <1>2, <1>3 DEF Inv, NotAhead, Manager, Heights
<1> QED BY <1>2, <1>4, <1>5, InvOf DEF Drain

LEMMA DrainSavedInv ==
  ASSUME Inv, DrainSaved
  PROVE  Inv'
<1>1. budget' \in Budgets
  BY SpentType DEF Inv, TypeOK, DrainSaved, Budgets, Budget
<1>2. TypeOK' /\ saved' \in {saved, ldk}
  BY <1>1 DEF Inv, TypeOK, DrainSaved, node, chain, Budgets
<1>3. Kept'
  BY <1>2 DEF Inv, DrainSaved, node, Kept, KeptAt
<1> QED BY <1>2, <1>3 DEF Inv, DrainSaved, node, ManagerSound, NotAhead, ReadyBelow

LEMMA EndTickInv ==
  ASSUME Inv, EndTick
  PROVE  Inv'
<1>1. budget' \in Budgets /\ dirty' \in BOOLEAN
  BY SpentType DEF Inv, TypeOK, EndTick, Budgets, Budget
<1>2. TypeOK' /\ saved' \in {saved, ldk}
  BY <1>1 DEF Inv, TypeOK, EndTick, chain, Budgets
<1>3. Kept'
  BY <1>2 DEF Inv, EndTick, node, Kept, KeptAt
<1> QED BY <1>2, <1>3 DEF Inv, EndTick, node, ManagerSound, NotAhead, ReadyBelow

LEMMA HealAskInv ==
  ASSUME Inv, NEW c \in Channels, HealAsk(c)
  PROVE  Inv'
<1>1. TypeOK'
  BY DEF Inv, TypeOK, HealAsk, node, chain, tick
<1> QED BY <1>1 DEF Inv, HealAsk, tick, node, Kept, ManagerSound, NotAhead, ReadyBelow

LEMMA HealApplyInv ==
  ASSUME Inv, NEW c \in Channels, HealApply(c)
  PROVE  Inv' /\ ldk'.best = ldk.best
<1>1. heal[c] \in 1..MaxTip /\ heal[c] \in Heights /\ heal' \in [Channels -> Heights]
  BY FeedAssumption DEF Inv, TypeOK, HealApply, Heights
<1>2. /\ ldk' \in Manager /\ ManagerSound(ldk)' /\ ldk'.best = ldk.best
      /\ mon' \in Pairs /\ dirty' \in BOOLEAN /\ Kept'
  BY <1>1, HealSound DEF HealApply, node, Inv, TypeOK, ManagerSound, Pairs, Kept
<1>3. coord' \in Coords /\ coord'.tip = coord.tip /\ coord'.floor = coord.floor
  BY <1>1 DEF Inv, TypeOK, HealApply, Coords
<1>4. TypeOK'
  BY <1>1, <1>2, <1>3 DEF Inv, TypeOK, HealApply, chain, tick, Coords, Pairs
<1>5. ldk'.best >= ldk.best /\ NotAhead'
  BY <1>2, <1>3 DEF Inv, NotAhead, Manager, Heights
<1> QED BY <1>2, <1>4, <1>5, InvOf DEF HealApply, tick

LEMMA SpendCheckInv ==
  ASSUME Inv, NEW c \in Channels, SpendCheck(c)
  PROVE  Inv' /\ ldk'.best = ldk.best
<1>1. /\ ldk' \in Manager /\ ManagerSound(ldk)' /\ ldk'.best = ldk.best
      /\ mon' \in Pairs /\ dirty' \in BOOLEAN /\ Kept'
  BY SpendSound DEF SpendCheck, Inv, TypeOK
<1>2. coord' \in Coords /\ coord'.tip = coord.tip /\ coord'.floor = coord.floor
  BY DEF Inv, TypeOK, SpendCheck, Coords
<1>3. TypeOK'
  BY <1>1, <1>2 DEF Inv, TypeOK, SpendCheck, chain, tick, Coords, Pairs
<1>4. ldk'.best >= ldk.best /\ NotAhead'
  BY <1>1, <1>2 DEF Inv, NotAhead, Manager, Heights
<1> QED BY <1>1, <1>3, <1>4, InvOf DEF SpendCheck, tick

LEMMA MonitorEventsInv ==
  ASSUME Inv, MonitorEvents
  PROVE  Inv' /\ ldk'.best = ldk.best
<1> DEFINE f == [c \in Channels |->
                  IF mon.live[c].event /\ ldk.chan[c].st = "open"
                  THEN [ldk.chan[c] EXCEPT !.st = "closed"] ELSE ldk.chan[c]]
           live == [c \in Channels |-> [mon.live[c] EXCEPT !.event = FALSE]]
<1>1. /\ ldk.best \in Heights /\ \A c \in Channels : ldk.chan[c] \in Chan
      /\ \A c \in Channels : mon.live[c] \in Monitor
  BY DEF Inv, TypeOK, Manager, Monitors, Monitor
<1>2. \A c \in Channels : f[c] \in Chan /\ Sound(f[c], ldk.best)
  BY <1>1, CloseSound DEF Inv, ManagerSound
<1>3. \A c \in Channels :
        /\ f[c].st = "open" => ldk.chan[c].st = "open" /\ ~mon.live[c].event
        /\ f[c].st = "none" <=> ldk.chan[c].st = "none"
  BY <1>1, CloseSound DEF Inv, ManagerSound
<1>4. \A c \in Channels : /\ live[c] \in Monitor /\ live[c].seen = mon.live[c].seen
                          /\ live[c].ahead = mon.live[c].ahead
  BY <1>1 DEF Monitor
<1>5. f \in [Channels -> Chan] /\ live \in Monitors
  <2>1. f = [c \in Channels |-> f[c]] /\ live = [c \in Channels |-> live[c]]
    OBVIOUS
  <2> HIDE DEF f, live
  <2> QED BY <1>2, <1>4, <2>1 DEF Monitors, Monitor
<1>6. Leaves(ldk.best, f, live, {}, FALSE) /\ saved' = saved
  BY DEF MonitorEvents
<1> HIDE DEF f, live
<1>7. \A c \in Channels :
        /\ live[c].seen /\ f[c].st = "open" => live[c].event
        /\ f[c].st = "none" => ~live[c].seen
  BY <1>3, <1>4 DEF Inv, Kept, KeptAt
<1>12. \A c \in Channels :
         /\ f[c].st = "open" => ldk.chan[c].st = "open"
         /\ f[c].st = "none" <=> ldk.chan[c].st = "none"
         /\ live[c].ahead = mon.live[c].ahead
         /\ live[c].seen /\ f[c].st = "open" => live[c].event
         /\ f[c].st = "none" => ~live[c].seen
  BY <1>3, <1>4, <1>7
<1>8. /\ ldk' = [best |-> ldk.best, chan |-> f]
      /\ mon' \in Pairs /\ dirty' \in BOOLEAN /\ Kept'
  <2>1. {} \in SUBSET Channels /\ FALSE \in BOOLEAN
    OBVIOUS
  <2> QED BY <1>5, <1>6, <1>12, <2>1, LeavesKept
<1>9. ldk' \in Manager /\ ManagerSound(ldk)' /\ ldk'.best = ldk.best
  BY <1>1, <1>2, <1>5, <1>8 DEF Manager, ManagerSound
<1>10. TypeOK'
  BY <1>8, <1>9 DEF Inv, TypeOK, MonitorEvents, chain, tick, Pairs
<1>11. ldk'.best >= ldk.best /\ NotAhead'
  BY <1>1, <1>9 DEF Inv, MonitorEvents, NotAhead, Heights
<1> QED BY <1>8, <1>9, <1>10, <1>11, InvOf DEF MonitorEvents, tick

(* A manager behind its monitors loses its channels, not its soundness.    *)
LEMMA RestoredSound ==
  ASSUME Inv
  PROVE  /\ Restored \in Manager /\ Restored.best = saved.best /\ ManagerSound(Restored)
         /\ \A c \in Channels :
              /\ Restored.chan[c].st = "open"
                   <=> saved.chan[c].st = "open" /\ ~mon.disk[c].ahead
              /\ Restored.chan[c].st = "none" <=> saved.chan[c].st = "none"
<1> DEFINE f == [c \in Channels |->
                  IF saved.chan[c].st = "open" /\ mon.disk[c].ahead
                  THEN [saved.chan[c] EXCEPT !.st = "closed"] ELSE saved.chan[c]]
<1>1. /\ saved \in Manager /\ saved.best \in Heights
      /\ \A c \in Channels : saved.chan[c] \in Chan
  BY DEF Inv, TypeOK, Manager
<1>2. \A c \in Channels : f[c] \in Chan /\ Sound(f[c], saved.best)
  BY <1>1, CloseSound DEF Inv, ManagerSound
<1>3. \A c \in Channels :
        /\ f[c].st = "open" <=> saved.chan[c].st = "open" /\ ~mon.disk[c].ahead
        /\ f[c].st = "none" <=> saved.chan[c].st = "none"
  BY <1>1, CloseSound DEF Inv, ManagerSound
<1>4. Restored = [saved EXCEPT !.chan = f]
  BY DEF Restored
<1>5. f \in [Channels -> Chan]
  <2>1. f = [c \in Channels |-> f[c]]
    OBVIOUS
  <2> HIDE DEF f
  <2> QED BY <1>2, <2>1
<1> HIDE DEF f
<1>6. Restored \in Manager /\ Restored.best = saved.best /\ Restored.chan = f
  BY <1>1, <1>4, <1>5 DEF Manager
<1> QED BY <1>2, <1>3, <1>6 DEF ManagerSound

LEMMA RestartInv ==
  ASSUME Inv, Restart
  PROVE  Inv'
<1>1. /\ Restored \in Manager /\ ManagerSound(Restored)
      /\ coord' \in Coords /\ coord'.tip = 0 /\ coord'.floor = 0
  BY RestoredSound, HydratedType DEF Restart
<1>2. budget' \in Budgets
  BY SpentType DEF Inv, TypeOK, Restart, Budgets, Budget
<1>3. bridge' \in Bridges /\ heal' \in [Channels -> Heights]
  BY FeedAssumption DEF Restart, FreshBridge, Bridges, Heights
<1>4. mon' \in Pairs /\ mon'.live = mon.disk /\ mon'.disk = mon.disk
  BY DEF Restart, Inv, TypeOK, Pairs
<1>5. TypeOK'
  BY <1>1, <1>2, <1>3, <1>4 DEF Inv, TypeOK, Restart, chain, Coords, Bridges, Budgets, Pairs
<1>6. NotAhead' /\ ReadyBelow'
  BY <1>1, <1>5 DEF Restart, NotAhead, ReadyBelow, TypeOK, Manager, Heights
<1>7. Kept'
  <2> SUFFICES ASSUME NEW c \in Channels
               PROVE  KeptAt(Restored.chan[c], saved.chan[c], mon.disk[c], mon.disk[c])
    BY <1>4 DEF Restart, Kept
  <2>1. KeptAt(ldk.chan[c], saved.chan[c], mon.live[c], mon.disk[c])
    BY DEF Inv, Kept
  <2> QED BY <2>1, RestoredSound DEF KeptAt
<1>8. ManagerSound(ldk)' /\ ManagerSound(saved)'
  BY <1>1 DEF Inv, Restart, ManagerSound
<1> QED BY <1>5, <1>6, <1>7, <1>8 DEF Inv

-----------------------------------------------------------------------------
(* The theorems.                                                           *)

LEMMA InitInv == Init => Inv
<1> SUFFICES ASSUME Init PROVE Inv
  OBVIOUS
<1>1. NoChannel \in Chan /\ OldChannel \in Chan
  BY FeedAssumption DEF NoChannel, OldChannel, Chan, Heights
<1>2. Sound(NoChannel, 1) /\ Sound(OldChannel, 1)
  BY DEF NoChannel, OldChannel, Sound
<1>3. /\ ldk.best = 1 /\ ldk = [best |-> ldk.best, chan |-> ldk.chan] /\ saved = ldk
      /\ ldk.chan = [c \in Channels |-> IF c \in Old THEN OldChannel ELSE NoChannel]
  BY DEF Init
<1>4. ldk \in Manager
  BY <1>1, <1>3, FeedAssumption DEF Manager, Heights
<1>5. ManagerSound(ldk) /\ ManagerSound(saved)
  BY <1>2, <1>3 DEF ManagerSound
<1>6. coord \in Coords /\ coord.tip = 0 /\ coord.floor = 0
  BY <1>4, HydratedType DEF Init
<1>7. bridge \in Bridges /\ heal \in [Channels -> Heights] /\ budget \in Budgets
  BY FeedAssumption DEF Init, FreshBridge, Bridges, Heights, Budgets
<1>8. conf \in [Channels -> Heights] /\ spent \in [Channels -> Heights] /\ tip \in 1..MaxTip
  BY FeedAssumption DEF Init, Heights
<1>11. NewMonitor \in Monitor /\ ~NewMonitor.seen /\ ~NewMonitor.ahead
  BY DEF NewMonitor, Monitor
<1>12. /\ mon \in Pairs
       /\ \A c \in Channels : mon.live[c] = NewMonitor /\ mon.disk[c] = NewMonitor
  <2> HIDE DEF NewMonitor
  <2> QED BY <1>11 DEF Init, Pairs, Monitors, Monitor
<1>13. Kept
  BY <1>3, <1>11, <1>12 DEF Kept, KeptAt
<1>9. TypeOK
  BY <1>3, <1>4, <1>6, <1>7, <1>8, <1>12 DEF Init, TypeOK, Bridges, Coords, Budgets, Pairs
<1>10. NotAhead /\ ReadyBelow
  BY <1>3, <1>6 DEF Init, NotAhead, ReadyBelow
<1> QED BY <1>5, <1>9, <1>10, <1>13 DEF Inv

LEMMA NextInv == Inv /\ [Next]_vars => Inv'
<1> SUFFICES ASSUME Inv, [Next]_vars PROVE Inv'
  OBVIOUS
<1>1. CASE \E funds, closes \in SUBSET Channels : Mine(funds, closes)
  BY <1>1, MineInv
<1>2. CASE \E c \in Channels :
             \/ Move(c) \/ LspSendsConf(c) \/ TheirReady(c) \/ HealAsk(c) \/ HealApply(c)
             \/ SpendCheck(c) \/ \E zeroConf \in BOOLEAN : Open(c, zeroConf)
  BY <1>2, MoveInv, LspSendsConfInv, TheirReadyInv, HealAskInv, HealApplyInv,
     SpendCheckInv, OpenInv
<1>3. CASE \E h \in 1..MaxTip : LspSendsTip(h)
  BY <1>3, LspSendsTipInv
<1>4. CASE Tick \/ Drain \/ DrainSaved \/ EndTick \/ MonitorEvents \/ Restart
  BY <1>4, TickInv, DrainInv, DrainSavedInv, EndTickInv, MonitorEventsInv, RestartInv
<1>5. CASE UNCHANGED vars
  <2>1. TypeOK'
    BY <1>5 DEF Inv, TypeOK, vars, node, chain, tick
  <2> QED BY <1>5, <2>1 DEF Inv, vars, node, chain, tick, ManagerSound, NotAhead,
       ReadyBelow, Kept
<1> QED BY <1>1, <1>2, <1>3, <1>4, <1>5 DEF Next

LEMMA SpecInv == Spec => []Inv
  BY InitInv, NextInv, PTL DEF Spec

(* The lanes, LDK and the disk keep to their types.                        *)
THEOREM FeedTypeCorrect == Spec => []TypeOK
<1>1. Inv => TypeOK
  BY DEF Inv
<1> QED BY <1>1, SpecInv, PTL

(* Whatever the provider replays, delays, reorders or takes back, and      *)
(* however the page closes and its saves fail, LDK is never led to close a *)
(* channel as un-confirmed - unless the heal recorded its funding above    *)
(* LDK's best block.                                                       *)
THEOREM HealthyChannelsStayOpen == Spec => []HealthyNotClosed
<1>1. Inv => HealthyNotClosed
  BY DEF Inv, ManagerSound, Sound, HealthyNotClosed
<1> QED BY <1>1, SpecInv, PTL

(* A spend that a monitor has seen is not lost, however the writes of the  *)
(* monitors and of the manager fall and wherever the page closes between   *)
(* them.                                                                   *)
THEOREM SeenSpendsAreKept == Spec => []SpendIsKept
<1>1. Inv => SpendIsKept
  BY RestoredSound DEF Inv, Kept, KeptAt, SpendIsKept
<1> QED BY <1>1, SpecInv, PTL

(* No step but a restart from the disk takes LDK's best block back.        *)
THEOREM BestBlockRatchets == Spec => BestNeverFalls
<1>1. ASSUME Inv, [Next]_vars PROVE [ldk'.best >= ldk.best \/ ldk' = Restored]_vars
  <2>1. ldk.best \in Heights /\ \A b \in Heights : b >= b
    BY <1>1, FeedAssumption DEF Inv, TypeOK, Manager, Heights
  <2>2. CASE \E c \in Channels : HealApply(c) \/ SpendCheck(c)
    BY <1>1, <2>1, <2>2, HealApplyInv, SpendCheckInv
  <2>3. CASE Tick \/ Drain \/ MonitorEvents
    BY <1>1, <2>1, <2>3, TickInv, DrainInv, MonitorEventsInv
  <2>4. CASE Restart
    BY <2>4 DEF Restart
  <2>5. CASE \E c \in Channels : TheirReady(c) \/ \E z \in BOOLEAN : Open(c, z)
    BY <1>1, <2>1, <2>5 DEF TheirReady, Open, Inv, TypeOK, Manager
  <2>6. CASE UNCHANGED ldk
    BY <2>1, <2>6
  <2>7. CASE UNCHANGED vars
    BY <2>7
  <2> QED BY <1>1, <2>2, <2>3, <2>4, <2>5, <2>6, <2>7 DEF Next, Mine, Move,
       LspSendsConf, HealAsk, LspSendsTip, DrainSaved, EndTick, node
<1>2. Spec => [][Next]_vars
  BY PTL DEF Spec
<1> QED BY <1>1, <1>2, SpecInv, PTL DEF BestNeverFalls
=============================================================================
