------------------------------ MODULE MixPool ------------------------------
(***************************************************************************)
(* One Tatara pool (lij-core/src/tatara): every honest phone runs the      *)
(* state machine of machine.rs inside the driver of phone.rs, the page's   *)
(* step (store::after) saves and wipes its record, and the relay carries   *)
(* the messages.  The other sessions - members that do not follow the      *)
(* protocol, strangers that hold the pool key - post what they like.       *)
(*                                                                         *)
(* The relay.  wire::open checks each event's signature, so posts[q] holds *)
(* only what q posted.  A phone reads one session's posts in the order     *)
(* they were sent, each once until Phone.seen is cleared (ClearSeen);      *)
(* posts of different sessions arrive in any order, late, or never.  A     *)
(* payout comes under a one-time key, so it is a sender of its own:        *)
(* payouts is a set.                                                       *)
(*                                                                         *)
(* A handler of the code takes &mut self and answers actions or an error;  *)
(* here it is an operator from the phone's state s to a result             *)
(* [s, post, pay, err]: the state it leaves, what it posts under the       *)
(* session key, the payout it hands to the forwarder, and whether it       *)
(* returned Err (the state changes made before an error stay made).        *)
(***************************************************************************)
EXTENDS Naturals, Sequences, FiniteSets

CONSTANTS
  Sessions,    \* the session keys that ever post in the pool
  Honest,      \* those that run this code
  N,           \* params.peers: the seats of the pool
  Public,      \* Attempt.public: other joinstr clients sit at the table
  Channel,     \* payout_type = P2wsh: the payout funds a channel
  Clash,       \* a payout script that some registration's change uses
  Kinds,       \* bound: the kinds of messages the others post
  RegKinds,    \* bound: what their registrations are, see Registrations
  Addrs,       \* bound: the scripts their payouts pay besides their own
  Dropped,     \* bound: the kinds they post though the first reader drops it
  MaxPosts,    \* bound: posts of one session that is not honest
  MaxPayouts,  \* bound: payouts it sends under one-time keys
  MaxClears    \* bound: how often a phone forgets the events it has seen

(* A registration as the rules tell it apart: in order; short (it passes   *)
(* the ownership proofs and fails check_input_registrations: too little    *)
(* paid in, a key or change script used twice); its coin fails the coin    *)
(* check; its coin is one this phone refuses.                              *)
Registrations == {"good", "short", "badcoin", "refused"}

MessageKinds == {"junk", "abort", "inputs", "output", "view", "nonces",
                 "psigs", "fsigs"}

ASSUME PoolAssumption ==
  /\ Honest \subseteq Sessions /\ IsFiniteSet(Sessions)
  /\ N \in Nat \ {0}
  /\ Public \in BOOLEAN /\ Channel \in BOOLEAN
  /\ RegKinds \subseteq Registrations
  /\ Clash \notin Sessions
  /\ Kinds \subseteq MessageKinds /\ Dropped \subseteq MessageKinds
  /\ MaxPosts \in Nat /\ MaxPayouts \in Nat /\ MaxClears \in Nat

VARIABLES
  st,       \* st[p]: the phone's state in memory (Attempt and Phone)
  disk,     \* disk[p]: the views whose record is in p's storage (at most one)
  posts,    \* posts[q]: what q posted under its session key
  payouts   \* the payouts posted under one-time keys

vars == <<st, disk, posts, payouts>>

Phases == {"Inputs", "Channel", "Payouts", "View", "Signing", "Funding",
           "FundingSigned", "Stopped"}
Over == {"FundingSigned", "Stopped", "Closed"}

(* HashMap::insert, the map as a function on the keys it holds.            *)
Put(f, x, y) == [z \in DOMAIN f \cup {x} |-> IF z = x THEN y ELSE f[z]]
Empty == [z \in {} |-> z]
Count(f) == Cardinality(DOMAIN f)

Byzantine == Sessions \ Honest

(* view_hash: what a phone's view of the pool is made of - the sessions    *)
(* and coins registered, and the exits, which the payouts determine.  The  *)
(* funding transaction spends the registered coins and nothing else.       *)
View(s) == [regs |-> s.regs, pays |-> s.pays]
Funding(v) == v.regs
NoView == [regs |-> Empty, pays |-> Empty]

(* partial_sign: a partial signature is over the exits of one view under   *)
(* the nonces of all members; it verifies for a phone whose view and       *)
(* nonces are the same ones.                                               *)
PartialSig(s) == [view |-> View(s), nonces |-> s.nonces]
NoSig == [view |-> NoView, nonces |-> Empty]

(* A message: its kind and what it carries.                                *)
M(kind, val) == <<kind, val>>
Kind(msg) == msg[1]
Val(msg)  == msg[2]
Inputs(r)    == M("inputs", r)
Output(i, a) == [image |-> i, addr |-> a]

(* Attempt::new and Phone::start; the registration is posted at once.      *)
(* Phone.seen is how many posts of each session were read (cursor) and     *)
(* which payouts were (heard).                                             *)
Fresh ==
  [phase |-> "Inputs", regs |-> Empty, coinsAsked |-> FALSE, pays |-> Empty,
   views |-> Empty, nonces |-> Empty, psigs |-> Empty, myNonces |-> FALSE,
   recordSaved |-> FALSE, recheckOk |-> FALSE, channelSaved |-> FALSE,
   asked |-> {}, witnesses |-> {}, complete |-> FALSE,
   cursor |-> [q \in Sessions |-> 0], heard |-> {}, clears |-> 0,
   named |-> {}, late |-> FALSE]

Init ==
  /\ st = [p \in Honest |-> Fresh]
  /\ disk = [p \in Honest |-> {}]
  /\ posts = [q \in Sessions |->
                IF q \in Honest THEN <<Inputs("good")>> ELSE <<>>]
  /\ payouts = {}

-----------------------------------------------------------------------------
(* Results of a handler.                                                   *)

Ok(s)         == [s |-> s, post |-> <<>>, pay |-> {}, err |-> FALSE]
Err(s)        == [s |-> s, post |-> <<>>, pay |-> {}, err |-> TRUE]
Posting(s, m) == [s |-> s, post |-> m, pay |-> {}, err |-> FALSE]

(* stop: the nonces are dropped, the members told if this phone is one.    *)
Stop(p, s, named) ==
  Posting([s EXCEPT !.phase = "Stopped", !.myNonces = FALSE,
                    !.named = named],
          IF p \in DOMAIN s.regs THEN <<M("abort", 0)>> ELSE <<>>)

-----------------------------------------------------------------------------
(* The machine's handlers (machine.rs).                                    *)

(* Mutant: the payout goes out, the phase is not entered.                  *)
RegisterPayoutInPlace(p, s) ==
  [s |-> s, post |-> <<>>, pay |-> {Output(p, p)}, err |-> FALSE]

(* register_payout: ring-signed, through the forwarder.                    *)
RegisterPayout(p, s) ==
  [s |-> [s EXCEPT !.phase = "Payouts"], post |-> <<>>, pay |-> {Output(p, p)},
   err |-> FALSE]

(* on_inputs: the registration of a session that is new here; the N-th     *)
(* closes the list, and the coins of the others are to be checked.         *)
OnInputs(p, s, from, reg) ==
  LET s2 == [s EXCEPT !.regs = Put(s.regs, from, reg)]
  IN  IF from \in DOMAIN s.regs
      THEN IF s.regs[from] = reg THEN Ok(s) ELSE Err(s)
      ELSE IF s.phase # "Inputs" \/ Count(s.regs) >= N THEN Ok(s)
      ELSE IF reg = "refused" THEN Stop(p, s, {from})
      ELSE IF Count(s2.regs) < N THEN Ok(s2)
      ELSE IF \E q \in DOMAIN s2.regs : s2.regs[q] = "short" THEN Err(s2)
      ELSE IF p \notin DOMAIN s2.regs THEN Stop(p, s2, {})
      ELSE Ok([s2 EXCEPT !.coinsAsked = TRUE,
                         !.asked = DOMAIN s2.regs \ {p}])

(* try_fund: the funding signature, only when the record is saved, this    *)
(* phone's coins are re-checked and its channel, if any, is saved.         *)
TryFund(s) ==
  IF s.recordSaved /\ s.recheckOk /\ (~Channel \/ s.channelSaved)
  THEN Posting([s EXCEPT !.phase = "FundingSigned"],
               <<M("fsigs", Funding(View(s)))>>)
  ELSE Ok(s)

(* on_coins.  An error of an answer, unlike one of a message, stops the    *)
(* attempt naming nobody (Attempt::on).                                    *)
OnCoins(p, s, bad, unanswered) ==
  IF s.phase = "Funding"
  THEN IF bad \cup unanswered # {} THEN Stop(p, s, {})
       ELSE TryFund([s EXCEPT !.recheckOk = TRUE])
  ELSE IF s.phase # "Inputs" \/ ~s.coinsAsked THEN Ok(s)
  ELSE IF unanswered # {} THEN Stop(p, s, {})
  ELSE IF bad # {} THEN Stop(p, s, bad)
  ELSE IF Channel THEN Ok([s EXCEPT !.phase = "Channel"])
  ELSE RegisterPayout(p, s)

(* build_and_check: the transactions re-derived and compared, no script    *)
(* used twice, this phone's payout paid exactly once; then its view and    *)
(* nonces are posted.                                                      *)
BuildAndCheck(p, s) ==
  IF \/ \E i \in DOMAIN s.pays : s.pays[i] = Clash
     \/ Cardinality({i \in DOMAIN s.pays : s.pays[i] = p}) # 1
  THEN Err(s)
  ELSE Posting([s EXCEPT !.phase = "View", !.myNonces = TRUE],
               <<M("view", View(s)), M("nonces", "n1")>>)

OnOutput(p, s, out) ==
  LET s2 == [s EXCEPT !.pays = Put(s.pays, out.image, out.addr)]
  IN  IF s.phase \notin {"Inputs", "Channel", "Payouts"}
         \/ Count(s.regs) < N THEN Ok(s)
      ELSE IF out.image \notin DOMAIN s.regs THEN Err(s)
      ELSE IF out.image \in DOMAIN s.pays
           THEN IF s.pays[out.image] = out.addr THEN Ok(s)
                ELSE Stop(p, s, {})
      ELSE IF \E i \in DOMAIN s.pays : s.pays[i] = out.addr THEN Err(s)
      ELSE IF Count(s2.pays) < N THEN Ok(s2)
      ELSE IF s.phase # "Payouts" THEN Err(s2)
      ELSE BuildAndCheck(p, s2)

(* Mutants: the nonces are used whenever they are all in, and not taken; a *)
(* view that differs is put down to its sender.                            *)
TrySignEager(p, s) ==
  IF Count(s.nonces) < N THEN Ok(s)
  ELSE Posting([s EXCEPT !.phase = "Signing"], <<M("psigs", PartialSig(s))>>)

TrySignBlaming(p, s) ==
  IF \/ s.phase # "View"
     \/ ~Public /\ Count(s.views) < N
     \/ Count(s.nonces) < N
  THEN Ok(s)
  ELSE IF \E q \in DOMAIN s.views : s.views[q] # View(s)
       THEN Stop(p, s, {q \in DOMAIN s.views : s.views[q] # View(s)})
  ELSE Posting([s EXCEPT !.phase = "Signing", !.myNonces = FALSE],
               <<M("psigs", PartialSig(s))>>)

(* try_sign: with every view (of a LiJ pool) and every nonce in, and all   *)
(* views the same, the nonces are taken and used.                          *)
TrySign(p, s) ==
  IF \/ s.phase # "View"
     \/ ~Public /\ Count(s.views) < N
     \/ Count(s.nonces) < N
  THEN Ok(s)
  ELSE IF \E q \in DOMAIN s.views : s.views[q] # View(s)
       THEN Stop(p, s, {})
  ELSE IF ~s.myNonces THEN Err(s)
  ELSE Posting([s EXCEPT !.phase = "Signing", !.myNonces = FALSE],
               <<M("psigs", PartialSig(s))>>)

(* Mutant: a view is kept whoever sent it.                                 *)
OnAnyView(p, s, from, view) ==
  TrySign(p, [s EXCEPT !.views = Put(s.views, from, view)])

OnView(p, s, from, view) ==
  IF from \notin DOMAIN s.regs THEN Ok(s)
  ELSE IF from \in DOMAIN s.views
       THEN IF s.views[from] = view THEN Ok(s) ELSE Err(s)
  ELSE TrySign(p, [s EXCEPT !.views = Put(s.views, from, view)])

OnNonces(p, s, from, nonces) ==
  IF from \in DOMAIN s.nonces
  THEN IF s.nonces[from] = nonces THEN Ok(s) ELSE Err(s)
  ELSE TrySign(p, [s EXCEPT !.nonces = Put(s.nonces, from, nonces)])

(* Mutant: one signature too few aggregates.                               *)
OnPsigsEarly(p, s, from, sig) ==
  LET s2 == [s EXCEPT !.psigs = Put(s.psigs, from, sig)]
      bad == {q \in DOMAIN s2.psigs : s2.psigs[q] # PartialSig(s)}
  IN  IF s.phase # "Signing" \/ Count(s2.psigs) < N - 1 THEN Ok(s2)
      ELSE IF bad # {} THEN Stop(p, s2, {})
      ELSE Ok([s2 EXCEPT !.phase = "Funding", !.asked = {p}])

(* on_psigs: the last one aggregates.  A signature that does not verify    *)
(* names its signer, in a public pool nobody.  Then the record is to be    *)
(* saved and this phone's own coins are to be checked again.               *)
OnPsigs(p, s, from, sig) ==
  LET s2 == [s EXCEPT !.psigs = Put(s.psigs, from, sig)]
      bad == {q \in DOMAIN s2.psigs : s2.psigs[q] # PartialSig(s)}
  IN  IF from \in DOMAIN s.psigs
      THEN IF s.psigs[from] = sig THEN Ok(s) ELSE Err(s)
      ELSE IF s.phase # "Signing" \/ Count(s2.psigs) < N THEN Ok(s2)
      ELSE IF bad # {}
           THEN Stop(p, s2, IF Public THEN {} ELSE bad)
      ELSE Ok([s2 EXCEPT !.phase = "Funding", !.asked = {p}])

(* on_msg, without its error arm.                                          *)
Handle(p, s, from, m) ==
  IF Kind(m) = "junk" THEN Err(s)
  ELSE IF Kind(m) = "view" THEN OnView(p, s, from, Val(m))
  ELSE IF Kind(m) = "inputs" THEN OnInputs(p, s, from, Val(m))
  ELSE IF Kind(m) = "output" THEN OnOutput(p, s, Val(m))
  ELSE IF from \notin DOMAIN s.regs THEN Ok(s)
  ELSE IF Kind(m) = "nonces" THEN OnNonces(p, s, from, Val(m))
  ELSE IF Kind(m) = "psigs" THEN OnPsigs(p, s, from, Val(m))
  ELSE IF Kind(m) = "abort" /\ from # p THEN Stop(p, s, {})
  ELSE Ok(s)

(* Attempt::on for a message: an error stops the attempt only if a         *)
(* registered session sent it, and names that session; else it is ignored. *)
OnMsg(p, s, from, m) ==
  LET r == Handle(p, s, from, m)
  IN  IF s.phase \in Over THEN Ok(s)
      ELSE IF ~r.err THEN r
      ELSE IF from \in DOMAIN r.s.regs /\ from # p
           THEN Stop(p, r.s, {from})
      ELSE Ok(r.s)

(* stalled: who did not send what the phase waits for.                     *)
Stalled(p, s) ==
  {q \in DOMAIN s.regs \ {p} :
     \/ s.phase = "View" /\ ~Public /\ q \notin DOMAIN s.views
     \/ s.phase = "View" /\ q \notin DOMAIN s.nonces
     \/ s.phase = "Signing" /\ q \notin DOMAIN s.psigs}

-----------------------------------------------------------------------------
(* The driver (phone.rs) and the page's step (store::after).               *)

(* Mutant: witnesses are collected only once this phone has signed.        *)
CollectLate(s, from, m) ==
  IF /\ Kind(m) = "fsigs" /\ s.phase = "FundingSigned"
     /\ from \in DOMAIN s.regs /\ Val(m) = Funding(View(s))
  THEN [s EXCEPT !.witnesses = @ \cup {from}]
  ELSE s

(* collect_witnesses: from the owner of the input only, for the funding    *)
(* this phone built, and only once it has built one.                       *)
Collect(s, from, m) ==
  IF /\ Kind(m) = "fsigs" /\ s.phase \in {"Funding", "FundingSigned"}
     /\ from \in DOMAIN s.regs /\ Val(m) = Funding(View(s))
  THEN [s EXCEPT !.witnesses = @ \cup {from}]
  ELSE s

(* try_complete: signed, and a witness for every input of the funding.     *)
TryComplete(s) ==
  [s EXCEPT !.complete = @ \/ /\ s.phase = "FundingSigned"
                              /\ DOMAIN s.regs \subseteq s.witnesses]

(* How record_save may end: done; failed before the record was written;    *)
(* failed after it (the hold was not).  A failure loses the step's Out, so *)
(* nobody ever asks for the coins again.                                   *)
SaveOutcomes == {"saved", "lost", "torn"}

(* Mutant: the machine is told of the record whether or not it was saved.  *)
AfterAnySave(p, s, r, save) ==
  LET entered == r.s.phase = "Funding" /\ s.phase # "Funding"
  IN  [r |-> IF ~entered THEN r
             ELSE TryFund([r.s EXCEPT !.recordSaved = TRUE]),
       disk |-> IF entered /\ save # "lost" THEN {View(r.s)} ELSE disk[p]]

(* after: a new record is saved at once and the machine told; a stop       *)
(* before the funding signature wipes the record it saved.                 *)
After(p, s, r, save) ==
  LET entered == r.s.phase = "Funding" /\ s.phase # "Funding"
  IN  [r |-> IF ~entered THEN r
             ELSE IF save = "saved"
                  THEN TryFund([r.s EXCEPT !.recordSaved = TRUE])
             ELSE Ok([r.s EXCEPT !.asked = {}]),
       disk |-> IF entered
                THEN IF save = "lost" THEN disk[p] ELSE {View(r.s)}
                ELSE IF r.s.phase = "Stopped" /\ s.phase # "Stopped"
                        /\ r.s.recordSaved
                     THEN {} ELSE disk[p]]

(* Phone::read: the witnesses, the machine, the completion.                *)
Read(p, s, from, m) ==
  LET r == OnMsg(p, Collect(s, from, m), from, m)
  IN  [s |-> TryComplete(r.s), post |-> r.post, pay |-> r.pay, err |-> r.err]

(* The page ends a run that stopped (mix_attempt_end) and a closed page    *)
(* has none: of the phone's memory only the outcome is left (and the count *)
(* of ClearSeen, which the properties ask for).                            *)
Gone(s, phase) == [Fresh EXCEPT !.phase = phase, !.named = s.named,
                                !.late = s.late, !.clears = s.clears]
Kept(s) == IF s.phase = "Stopped" THEN Gone(s, "Stopped") ELSE s

(* One step of phone p that leads to result r, with log and paid on the    *)
(* relay (the quantifiers only name the result and what the page makes of  *)
(* it).                                                                    *)
DoWith(p, r, save, log, paid) ==
  \E res \in {r} : \E a \in {After(p, st[p], res, save)} :
    /\ save = "saved" \/ res.s.phase = "Funding"
    /\ st' = [st EXCEPT ![p] = Kept(a.r.s)]
    /\ disk' = [disk EXCEPT ![p] = a.disk]
    /\ posts' = [log EXCEPT ![p] = @ \o a.r.post]
    /\ payouts' = paid \cup a.r.pay

Do(p, r, save) == DoWith(p, r, save, posts, payouts)

Running(p) == st[p].phase \notin Over
Listening(p) == st[p].phase \notin {"Stopped", "Closed"}

Seen(s, q) == [s EXCEPT !.cursor[q] = @ + 1]

(* Phone::read of the next post of session q.                              *)
ReadPost(p, q, save) ==
  /\ Listening(p)
  /\ st[p].cursor[q] < Len(posts[q])
  /\ Do(p, Read(p, Seen(st[p], q), q, posts[q][st[p].cursor[q] + 1]), save)

(* ... of a payout under a one-time key: an error names nobody.            *)
ReadPayout(p, out) ==
  /\ Running(p) /\ out \notin st[p].heard
  /\ LET r == OnOutput(p, [st[p] EXCEPT !.heard = @ \cup {out}], out)
     IN  Do(p, IF r.err THEN Ok(r.s) ELSE r, "saved")

(* More than 8,192 events: the seen set is cleared, everything may come    *)
(* again.                                                                  *)
ClearSeen(p) ==
  /\ Listening(p) /\ st[p].clears < MaxClears
  /\ st' = [st EXCEPT ![p].clears = @ + 1, ![p].heard = {},
                      ![p].cursor = [q \in Sessions |-> 0]]
  /\ UNCHANGED <<disk, posts, payouts>>

(* A good coin of another member is not proved bad; a bad one may pass (it *)
(* was spent just after); this phone's own coin may have gone meanwhile.   *)
CanFail(p, c) == c = p \/ st[p].regs[c] # "good"

(* coin_result: an answer for a coin that is not asked for is dropped; the *)
(* last one of those asked for brings them all to the machine.             *)
CoinResults(p, bad, unanswered) ==
  LET s == st[p]
  IN  /\ Running(p) /\ s.asked # {}
      /\ bad \cup unanswered \subseteq s.asked /\ bad \cap unanswered = {}
      /\ \A c \in bad : CanFail(p, c)
      /\ Do(p, OnCoins(p, [s EXCEPT !.asked = {}], bad, unanswered), "saved")

(* tick: past the phase's deadline the attempt stops and names whoever     *)
(* kept it waiting.  A deadline starts at the first tick of its phase and  *)
(* may pass before or after anything else happens.                         *)
TimeOut(p) ==
  /\ Running(p)
  /\ Do(p, Stop(p, [st[p] EXCEPT !.late = TRUE], Stalled(p, st[p])), "saved")

(* The page's answers for a channel pool: the channel's script, the        *)
(* provider's signature saved with the channel, or the channel lost.       *)
PayoutGiven(p) ==
  /\ st[p].phase = "Channel"
  /\ Do(p, RegisterPayout(p, st[p]), "saved")

ChannelSaved(p) ==
  /\ Channel /\ st[p].phase \in {"View", "Signing", "Funding"}
  /\ ~st[p].channelSaved
  /\ LET s == [st[p] EXCEPT !.channelSaved = TRUE]
     IN  Do(p, IF s.phase = "Funding" THEN TryFund(s) ELSE Ok(s), "saved")

(* Mutant: a channel lost after the funding signature still stops.         *)
ChannelFailedLate(p) ==
  /\ Channel /\ Listening(p) /\ st[p].phase # "Inputs"
  /\ Do(p, Stop(p, st[p], {}), "saved")

ChannelFailed(p) ==
  /\ Channel /\ Running(p) /\ st[p].phase # "Inputs"
  /\ Do(p, Stop(p, st[p], {}), "saved")

Leave(p) ==
  /\ Running(p)
  /\ Do(p, Stop(p, st[p], {}), "saved")

(* The page is closed: the attempt is gone from memory and is never        *)
(* resumed (records.rs, Duty::Watch); what is on disk stays.               *)
Close(p) ==
  /\ Listening(p)
  /\ st' = [st EXCEPT ![p] = Gone(st[p], "Closed")]
  /\ UNCHANGED <<disk, posts, payouts>>

-----------------------------------------------------------------------------
(* The sessions that do not run this code.  A message nobody has read      *)
(* changes nothing, so each comes into being when a first phone p reads    *)
(* it (p has read all the poster's earlier ones).                          *)

(* The views and signatures they can know: those of the honest phones.     *)
Views == {View(st[p]) : p \in {x \in Honest : st[x].phase \in
            {"View", "Signing", "Funding", "FundingSigned"}}} \cup {NoView}
Sigs == {PartialSig(st[p]) : p \in {x \in Honest : st[x].phase \in
            {"Signing", "Funding", "FundingSigned"}}} \cup {NoSig}

OfKind(kind, vals) == IF kind \in Kinds THEN {M(kind, v) : v \in vals} ELSE {}

(* Their nonces: "n1", and others once these were posted (which ones come  *)
(* first makes no difference).                                             *)
ForgedNonces(b) ==
  {"n1"} \cup IF \E i \in 1..Len(posts[b]) : posts[b][i] = M("nonces", "n1")
             THEN {"n2"} ELSE {}

Forgeries(b) ==
  OfKind("junk", {0}) \cup OfKind("abort", {0})
    \cup OfKind("inputs", RegKinds)
    \cup OfKind("output", {Output(b, addr) : addr \in Addrs \cup {b}})
    \cup OfKind("view", Views)
    \cup OfKind("nonces", ForgedNonces(b))
    \cup OfKind("psigs", Sigs)
    \cup OfKind("fsigs", {Funding(v) : v \in Views})

(* A post under b's session key.  One that tells its first reader nothing  *)
(* new only uses up MaxPosts, unless that reader may take it when it is    *)
(* read again (a message that was dropped because its sender was not yet   *)
(* registered): such posts are made of the kinds in Dropped.               *)
Forge(b, p, m) ==
  /\ Listening(p)
  /\ st[p].cursor[b] = Len(posts[b]) /\ Len(posts[b]) < MaxPosts
  /\ m \in Forgeries(b)
  /\ \E save \in SaveOutcomes :
       DoWith(p, Read(p, Seen(st[p], b), b, m), save,
              [posts EXCEPT ![b] = Append(@, m)], payouts)
  /\ Kind(m) \in Dropped \/ st'[p] # Seen(st[p], b)

(* A payout under a one-time key, ring-signed with b's ring key: b's own   *)
(* address, a member's, or a script that clashes.                          *)
ForgePayout(b, p, addr) ==
  LET out == Output(b, addr)
      r == OnOutput(p, [st[p] EXCEPT !.heard = @ \cup {out}], out)
  IN  /\ Running(p) /\ out \notin payouts /\ ~r.err
      /\ Cardinality({o \in payouts : o.image = b}) < MaxPayouts
      /\ DoWith(p, r, "saved", posts, payouts \cup {out})

-----------------------------------------------------------------------------
PhoneStep(p) ==
  \/ \E q \in Sessions, save \in SaveOutcomes : ReadPost(p, q, save)
  \/ \E out \in payouts : ReadPayout(p, out)
  \/ \E bad, none \in SUBSET st[p].asked : CoinResults(p, bad, none)
  \/ ClearSeen(p)
  \/ TimeOut(p)
  \/ PayoutGiven(p)
  \/ ChannelSaved(p)
  \/ ChannelFailed(p)
  \/ Leave(p)
  \/ Close(p)

OthersStep ==
  \E b \in Byzantine :
    \E p \in Honest :
      \/ \E m \in Forgeries(b) : Forge(b, p, m)
      \/ \E addr \in Addrs \cup {b} : ForgePayout(b, p, addr)

Next == OthersStep \/ \E p \in Honest : PhoneStep(p)

Spec == Init /\ [][Next]_vars

-----------------------------------------------------------------------------
(* What the pool promises.                                                 *)

Sent(q) == {posts[q][i] : i \in 1..Len(posts[q])}
SentOf(q, kind) == {m \in Sent(q) : Kind(m) = kind}

IsMap(f, D, R) == DOMAIN f \subseteq D /\ f \in [DOMAIN f -> R]
Scripts == Sessions \cup {Clash} \cup Addrs
Nonces == {"n1", "n2"}
Outputs == [image : Sessions, addr : Scripts]

IsFunding(f) == IsMap(f, Sessions, Registrations)

IsView(v) ==
  /\ DOMAIN v = {"regs", "pays"}
  /\ IsMap(v.regs, Sessions, Registrations)
  /\ IsMap(v.pays, Sessions, Scripts)

IsSig(g) ==
  /\ DOMAIN g = {"view", "nonces"}
  /\ IsView(g.view) /\ IsMap(g.nonces, Sessions, Nonces)

IsMessage(msg) ==
  /\ msg = M(Kind(msg), Val(msg)) /\ Kind(msg) \in MessageKinds
  /\ Kind(msg) = "inputs" => Val(msg) \in Registrations
  /\ Kind(msg) = "output" => Val(msg) \in Outputs
  /\ Kind(msg) = "view" => IsView(Val(msg))
  /\ Kind(msg) = "nonces" => Val(msg) \in Nonces
  /\ Kind(msg) = "psigs" => IsSig(Val(msg))
  /\ Kind(msg) = "fsigs" => IsFunding(Val(msg))

IsPhone(s) ==
  /\ DOMAIN s = DOMAIN Fresh
  /\ s.phase \in Phases \cup {"Closed"}
  /\ IsMap(s.regs, Sessions, Registrations)
  /\ IsMap(s.pays, DOMAIN s.regs, Scripts)
  /\ DOMAIN s.views \subseteq DOMAIN s.regs
  /\ \A q \in DOMAIN s.views : IsView(s.views[q])
  /\ IsMap(s.nonces, DOMAIN s.regs, Nonces)
  /\ DOMAIN s.psigs \subseteq DOMAIN s.regs
  /\ \A q \in DOMAIN s.psigs : IsSig(s.psigs[q])
  /\ {s.coinsAsked, s.myNonces, s.recordSaved, s.recheckOk, s.channelSaved,
      s.complete, s.late} \subseteq BOOLEAN
  /\ s.asked \subseteq DOMAIN s.regs /\ s.witnesses \subseteq DOMAIN s.regs
  /\ s.named \subseteq Sessions /\ s.heard \subseteq Outputs
  /\ s.cursor \in [Sessions -> Nat] /\ s.clears \in Nat

(* The types; in particular a phone keeps views, nonces, signatures,       *)
(* payouts and witnesses of registered sessions only (on_msg's membership  *)
(* guards), and a disk holds one record at most.                           *)
TypeOK ==
  /\ DOMAIN st = Honest /\ \A p \in Honest : IsPhone(st[p])
  /\ DOMAIN disk = Honest
  /\ \A p \in Honest : \A v \in disk[p] : IsView(v) /\ disk[p] = {v}
  /\ DOMAIN posts = Sessions
  /\ \A q \in Sessions : /\ posts[q] \in Seq(Sent(q))
                         /\ \A msg \in Sent(q) : IsMessage(msg)
  /\ payouts \subseteq Outputs

(* A phone whose funding signature is out holds, on disk and whatever      *)
(* happens to its page, the record of that funding, whose exits pay it and *)
(* are signed by every honest member (v0.10 section 8 rule 3: the record   *)
(* before the signature).                                                  *)
SignedIsCovered ==
  \A p \in Honest : \A m \in SentOf(p, "fsigs") :
    \E v \in disk[p] :
      /\ Funding(v) = Val(m)
      /\ \E i \in DOMAIN v.pays : v.pays[i] = p
      /\ \A q \in Honest \cap DOMAIN v.regs :
           \E g \in SentOf(q, "psigs") : Val(g).view = v

(* Two honest phones of one funding have records of one and the same view: *)
(* no two sets of exits of one pool are both signed.                       *)
OneView ==
  \A p, q \in Honest : \A v \in disk[p], w \in disk[q] :
    q \in DOMAIN v.regs => v = w

(* The secret nonces of an attempt sign at most once, so never two         *)
(* different messages (my_nonces.take, dropped at a stop).                 *)
NonceOnce ==
  \A p \in Honest : \A i, j \in 1..Len(posts[p]) :
    Kind(posts[p][i]) = "psigs" /\ Kind(posts[p][j]) = "psigs" => i = j

(* A phone that told the pool it stopped has signed no funding and never   *)
(* will: "nothing of this phone's moved" (Action::Stopped).                *)
StoppedMovedNothing ==
  \A p \in Honest : SentOf(p, "abort") = {} \/ SentOf(p, "fsigs") = {}

(* Some session posted a registration that fails the check of all of them *)
(* together (check_input_registrations).                                   *)
Shortfall == \E q \in Sessions : M("inputs", "short") \in Sent(q)

(* Some session posted two different nonces, and some phone has forgotten  *)
(* what it had read: of the two, a phone that reads the first one again,   *)
(* now that its sender is registered, takes another than the others did.   *)
Equivocated ==
  /\ \E p \in Honest : st[p].clears > 0
  /\ \E q \in Sessions : \A n \in Nonces : M("nonces", n) \in Sent(q)

(* Rules P7 and S1: a member that follows the protocol is not named by one *)
(* that does, unless the phone waited for it in vain; nobody names itself. *)
(* Two cases are not the phone's to tell apart: the last registrant is     *)
(* named for any short registration (on_inputs), and in a LiJ pool a       *)
(* partial signature over other nonces looks like a bad one (on_psigs).    *)
HonestNotBlamed ==
  \A p \in Honest :
    /\ p \notin st[p].named
    /\ \/ st[p].late \/ Shortfall
       \/ ~Public /\ Equivocated
       \/ st[p].named \cap Honest = {}

(* The N-th payout never arrives at a phone that has not sent its own (the *)
(* error "every payout is in, but ours is not registered yet").            *)
OursIsIn ==
  \A p \in Honest :
    Count(st[p].pays) = N => st[p].phase \notin {"Inputs", "Channel"}

-----------------------------------------------------------------------------
(* The refinement mapping: what a phone signed, what it put in, who quit.  *)
Posted(p, kind) == {i \in 1..Len(posts[p]) : Kind(posts[p][i]) = kind}

Bound == [p \in Honest |-> {Val(posts[p][i]).view : i \in Posted(p, "psigs")}]
Funded == [p \in Honest |-> IF Posted(p, "fsigs") = {} THEN {} ELSE disk[p]]
Quitters == {p \in Honest : Posted(p, "abort") # {}}

Commit == INSTANCE PoolCommit WITH
  bound <- Bound, funded <- Funded, quit <- Quitters

(* The pool implements the commitment of PoolCommit: a coin goes in only   *)
(* when every honest member of its view has signed that view's exits, no   *)
(* member signs the exits of two views, and one that aborted (stop) signs  *)
(* nothing more.                                                           *)
ImplementsCommit == Commit!CSpec
=============================================================================
