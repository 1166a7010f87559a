--------------------------- MODULE MixBlameProofs ---------------------------
(***************************************************************************)
(* Proofs about whom the phones of MixPool name when an attempt stops, and *)
(* about the payouts they wait for: no honest member is named by another   *)
(* unless the reasons HonestNotBlamed lists hold, and every payout is never *)
(* in before this phone's own.                                             *)
(*                                                                         *)
(* The handlers are followed one by one, in a world e: e.said[q] is what   *)
(* session q has posted, e.nonces the pairs <<q, n>> such that a phone may *)
(* hold n as the nonces of q, e.paid the sessions that may have sent a     *)
(* payout.  The world only grows, and what a phone relies on stays true in *)
(* a larger one.                                                           *)
(***************************************************************************)
EXTENDS MixPoolProofs

Early == {"Inputs", "Channel", "Payouts"}
Unpaid == {"Inputs", "Channel"}

(* What HonestNotBlamed excuses: a short registration; in a LiJ pool, two  *)
(* nonces of one session that two phones may hold.                         *)
Excuse(e) ==
  \/ \E q \in Sessions : M("inputs", "short") \in e.said[q]
  \/ ~Public /\ \E t, u \in e.nonces : t[1] = u[1] /\ t # u

(* What an honest session says, w: nothing malformed, good registrations,  *)
(* its nonces, at most one view, and at most one signature: of that view   *)
(* and under nonces of all its members that the others may hold too.       *)
SignsInView(v, w, e) ==
  /\ v = [view |-> v.view, nonces |-> v.nonces]
  /\ M("view", v.view) \in w
  /\ DOMAIN v.nonces = DOMAIN v.view.regs
  /\ \A x \in DOMAIN v.nonces : <<x, v.nonces[x]>> \in e.nonces

Word(w, e) ==
  /\ \A m \in w : /\ Kind(m) \notin {"junk", "output"}
                  /\ Kind(m) = "inputs" => Val(m) = "good"
                  /\ Kind(m) = "nonces" => Val(m) = "n1"
                  /\ Kind(m) = "psigs" => SignsInView(Val(m), w, e)
  /\ \A m, k \in w :
       Kind(m) = Kind(k) /\ Kind(m) \in {"view", "psigs"} => m = k

(* All a phone holds of the others was said by them.                       *)
Heard(s, e) ==
  /\ \A q \in DOMAIN s.regs : M("inputs", s.regs[q]) \in e.said[q]
  /\ \A q \in DOMAIN s.views : M("view", s.views[q]) \in e.said[q]
  /\ \A q \in DOMAIN s.psigs : M("psigs", s.psigs[q]) \in e.said[q]
  /\ \A q \in DOMAIN s.nonces : <<q, s.nonces[q]>> \in e.nonces
  /\ DOMAIN s.pays \subseteq e.paid

(* A phone never meets the errors of its own making: its nonces are there  *)
(* when it is to sign, its own coin is not among those it has checked, and *)
(* it signs the view all have.                                             *)
Poised(p, s) ==
  /\ s.phase = "View" => s.myNonces
  /\ s.phase = "Inputs" => p \notin s.asked
  /\ s.phase = "Signing" /\ ~Public =>
       /\ DOMAIN s.regs \subseteq DOMAIN s.views
       /\ \A q \in DOMAIN s.views : s.views[q] = View(s)

(* What a phone itself has said by then, w.                                *)
Own(s, w) ==
  /\ s.phase \in Early => \A m \in w : Kind(m) # "view"
  /\ s.phase \in Before => \A m \in w : Kind(m) # "psigs"
  /\ s.phase = "View" => M("view", View(s)) \in w
  /\ s.phase = "Signing" =>
       \A m \in w : Kind(m) = "psigs" => Val(m) = PartialSig(s)

(* Whom it has named.                                                      *)
Clean(p, s, e) ==
  /\ p \notin s.named
  /\ s.late \/ s.named \cap Honest = {} \/ Excuse(e)

Good(p, s, w, e) ==
  Heard(s, e) /\ Poised(p, s) /\ Own(s, w) /\ Word(w, e) /\ Clean(p, s, e)

(* The world as far as the handlers rely on it.                            *)
IsWorld(e) ==
  /\ \A q \in Honest : Word(e.said[q], e)
  /\ \A q \in Sessions : \A m \in e.said[q] :
       Kind(m) = "output" => Val(m).image \in e.paid
  /\ \A q, n : <<q, n>> \in e.nonces => M("nonces", n) \in e.said[q]

(* A phone about to run a handler, and what the handler makes of it.       *)
Ready(p, s, e) ==
  DOMAIN s = DOMAIN Fresh /\ Good(p, s, e.said[p], e) /\ IsWorld(e)

Fair(p, s, r, e) ==
  /\ Good(p, r.s, e.said[p] \cup Elems(r.post), e)
  /\ r.s.phase \in Unpaid => s.phase \in Unpaid
  /\ \A out \in r.pay : out.image = p /\ r.s.phase = "Payouts"

(* A message is made of its kind and what it carries.                      *)
LEMMA MsgLemma ==
  \A kind, v : Kind(M(kind, v)) = kind /\ Val(M(kind, v)) = v
  BY DEF M, Kind, Val

(* What a phone says when it stops or signs the funding does not touch     *)
(* what an honest session may say.                                         *)
LEMMA PlainWord ==
  ASSUME NEW w, NEW e, Word(w, e), NEW m,
         Kind(m) \in {"abort", "fsigs"}
  PROVE  Word(w \cup {m}, e)
  BY DEF Word, SignsInView

(* A handler that changes nothing is fair.                                 *)
LEMMA OkFair ==
  ASSUME NEW p \in Honest, NEW s, NEW e, Ready(p, s, e)
  PROVE  Fair(p, s, Ok(s), e) /\ Fair(p, s, Err(s), e)
  BY PostLemma DEF Fair, Ready, Ok, Err

(* stop is fair when whom it names may be named.                           *)
LEMMA StopFair ==
  ASSUME NEW p \in Honest, NEW s, NEW e, Ready(p, s, e), NEW named,
         p \notin named, s.late \/ named \cap Honest = {} \/ Excuse(e)
  PROVE  Fair(p, s, Stop(p, s, named), e)
<1> DEFINE t == [s EXCEPT !.phase = "Stopped", !.myNonces = FALSE,
                          !.named = named]
           r == Stop(p, s, named)
<1>1. /\ r.s = t /\ r.pay = {}
      /\ r.post = <<>> \/ r.post = <<M("abort", 0)>>
  BY DEF Stop, Posting
<1>2. /\ t.phase = "Stopped" /\ t.named = named /\ t.late = s.late
      /\ t.regs = s.regs /\ t.pays = s.pays /\ t.views = s.views
      /\ t.nonces = s.nonces /\ t.psigs = s.psigs
  BY DEF Ready, Fresh
<1> HIDE DEF t, r
<1>3. Heard(t, e)
  BY <1>2 DEF Heard, Ready, Good
<1>4. Poised(p, t) /\ \A w : Own(t, w)
  BY <1>2 DEF Poised, Own, Early, Before
<1>5. Clean(p, t, e)
  BY <1>2 DEF Clean
<1>6. Word(e.said[p] \cup Elems(r.post), e)
  <2>1. Word(e.said[p], e)
    BY DEF Ready, Good
  <2>2. Elems(r.post) = {} \/ Elems(r.post) = {M("abort", 0)}
    BY <1>1, PostLemma
  <2>3. Word(e.said[p] \cup {M("abort", 0)}, e)
    BY <2>1, MsgLemma, PlainWord
  <2>4. Word(e.said[p] \cup {}, e)
    BY <2>1
  <2> QED BY <2>2, <2>3, <2>4
<1>7. Fair(p, s, r, e)
  BY <1>1, <1>2, <1>3, <1>4, <1>5, <1>6 DEF Fair, Good, Unpaid
<1> QED BY <1>7 DEF r

(* The part of a phone's state that Good speaks of; the coins it asked for *)
(* may have been answered.                                                 *)
Same(s, t) ==
  /\ t.phase = s.phase /\ t.regs = s.regs /\ t.pays = s.pays
  /\ t.views = s.views /\ t.nonces = s.nonces /\ t.psigs = s.psigs
  /\ t.myNonces = s.myNonces /\ t.named = s.named /\ t.late = s.late
  /\ t.asked \subseteq s.asked

(* Two states that differ in nothing Good speaks of are good alike.        *)
LEMMA SameLemma ==
  ASSUME NEW p, NEW s, NEW t, Same(s, t), NEW w, NEW e, Good(p, s, w, e)
  PROVE  Good(p, t, w, e)
<1>1. View(t) = View(s) /\ PartialSig(t) = PartialSig(s)
  BY DEF Same, View, PartialSig
<1>2. Heard(t, e) /\ Clean(p, t, e)
  BY DEF Same, Good, Heard, Clean
<1>3. Poised(p, t)
  BY <1>1 DEF Same, Good, Poised
<1>4. Own(t, w)
  BY <1>1 DEF Same, Good, Own
<1> QED BY <1>2, <1>3, <1>4 DEF Good

(* register_payout is fair.                                                *)
LEMMA RegisterPayoutFair ==
  ASSUME NEW p \in Honest, NEW s, NEW e, Ready(p, s, e), s.phase \in Unpaid
  PROVE  Fair(p, s, RegisterPayout(p, s), e)
<1> DEFINE t == [s EXCEPT !.phase = "Payouts"]
           r == RegisterPayout(p, s)
<1>1. r.s = t /\ r.pay = {Output(p, p)} /\ r.post = <<>>
  BY DEF RegisterPayout
<1>2. /\ t.phase = "Payouts" /\ t.named = s.named /\ t.late = s.late
      /\ t.regs = s.regs /\ t.pays = s.pays /\ t.views = s.views
      /\ t.nonces = s.nonces /\ t.psigs = s.psigs
  BY DEF Ready, Fresh
<1>3. Output(p, p).image = p
  BY DEF Output
<1> HIDE DEF t, r
<1>4. Heard(t, e) /\ Clean(p, t, e)
  BY <1>2 DEF Heard, Clean, Ready, Good
<1>5. Poised(p, t)
  BY <1>2 DEF Poised
<1>6. Own(t, e.said[p])
  BY <1>2 DEF Own, Early, Before, Unpaid, Ready, Good
<1>7. Fair(p, s, r, e)
  BY <1>1, <1>2, <1>3, <1>4, <1>5, <1>6, PostLemma
     DEF Fair, Good, Ready, Unpaid
<1> QED BY <1>7 DEF r

(* on_inputs is fair: a registration of an honest session is in order, so  *)
(* the one refused is another's.                                           *)
LEMMA OnInputsFair ==
  ASSUME NEW p \in Honest, NEW s, NEW e, Ready(p, s, e),
         DOMAIN s.regs \subseteq Sessions,
         NEW from \in Sessions, NEW reg, M("inputs", reg) \in e.said[from]
  PROVE  /\ Fair(p, s, OnInputs(p, s, from, reg), e)
         /\ OnInputs(p, s, from, reg).err /\ from \in Honest => Excuse(e)
<1> DEFINE f == Put(s.regs, from, reg)
           s2 == [s EXCEPT !.regs = f]
           u == [s2 EXCEPT !.coinsAsked = TRUE, !.asked = DOMAIN s2.regs \ {p}]
           r == OnInputs(p, s, from, reg)
<1>1. from \in Honest => reg = "good"
  BY MsgLemma DEF Ready, IsWorld, Word
<1>2. /\ DOMAIN f = DOMAIN s.regs \cup {from} /\ f[from] = reg
      /\ \A z \in DOMAIN s.regs : z # from => f[z] = s.regs[z]
  <2>1. DOMAIN f = DOMAIN s.regs \cup {from}
    BY PutLemma
  <2>2. f[from] = reg /\ \A z \in DOMAIN s.regs : z # from => f[z] = s.regs[z]
    BY DEF Put
  <2> QED BY <2>1, <2>2
<1>3. \A q \in DOMAIN f : M("inputs", f[q]) \in e.said[q]
  <2> HIDE DEF f
  <2> QED BY <1>2 DEF Ready, Good, Heard
<1>4. Fair(p, s, Ok(s), e) /\ Fair(p, s, Err(s), e)
  BY OkFair
<1>5. ~Ok(s).err /\ ~Stop(p, s, {from}).err /\ ~Ok(s2).err
      /\ ~Stop(p, s2, {}).err /\ ~Ok(u).err
  BY DEF Ok, Stop, Posting
<1>6. CASE from \in DOMAIN s.regs \/ s.phase # "Inputs" \/ Count(s.regs) >= N
  <2>1. \/ r = Ok(s)
        \/ from \in DOMAIN s.regs /\ s.regs[from] # reg /\ r = Err(s)
    BY <1>6 DEF OnInputs
  <2>2. from \in DOMAIN s.regs /\ from \in Honest => s.regs[from] = "good"
    BY MsgLemma DEF Ready, Good, Heard, IsWorld, Word
  <2> QED BY <1>1, <1>4, <1>5, <2>1, <2>2
<1>7. CASE /\ from \notin DOMAIN s.regs /\ s.phase = "Inputs"
           /\ ~(Count(s.regs) >= N) /\ reg = "refused"
  <2>1. r = Stop(p, s, {from})
    BY <1>7 DEF OnInputs
  <2>2. from \notin Honest
    BY <1>1, <1>7
  <2>3. Fair(p, s, Stop(p, s, {from}), e)
    BY <2>2, StopFair
  <2> QED BY <1>5, <2>1, <2>3
<1>8. CASE /\ from \notin DOMAIN s.regs /\ s.phase = "Inputs"
           /\ ~(Count(s.regs) >= N) /\ reg # "refused"
  <2>1. \/ r \in {Ok(s2), Stop(p, s2, {}), Ok(u)}
        \/ r = Err(s2) /\ \E q \in DOMAIN f : f[q] = "short"
    <3>1. s2.regs = f
      BY DEF Ready, Fresh
    <3> QED BY <1>8, <3>1 DEF OnInputs
  <2> HIDE DEF f
  <2>2. /\ s2.phase = s.phase /\ s2.named = s.named /\ s2.late = s.late
        /\ s2.regs = f /\ s2.pays = s.pays /\ s2.views = s.views
        /\ s2.nonces = s.nonces /\ s2.psigs = s.psigs
        /\ s2.asked = s.asked /\ DOMAIN s2 = DOMAIN Fresh
    BY DEF Ready, Fresh
  <2>3. /\ u.phase = s.phase /\ u.named = s.named /\ u.late = s.late
        /\ u.regs = f /\ u.pays = s.pays /\ u.views = s.views
        /\ u.nonces = s.nonces /\ u.psigs = s.psigs
        /\ p \notin u.asked
    BY DEF Ready, Fresh
  <2> HIDE DEF s2, u
  <2>4. Good(p, s2, e.said[p], e)
    <3>1. Heard(s2, e) /\ Clean(p, s2, e)
      BY <1>3, <2>2 DEF Heard, Clean, Ready, Good
    <3>2. Poised(p, s2) /\ Own(s2, e.said[p])
      BY <1>8, <2>2 DEF Poised, Own, Ready, Good
    <3> QED BY <3>1, <3>2 DEF Good, Ready
  <2>5. Good(p, u, e.said[p], e)
    <3>1. Heard(u, e) /\ Clean(p, u, e)
      BY <1>3, <2>3 DEF Heard, Clean, Ready, Good
    <3>2. Poised(p, u) /\ Own(u, e.said[p])
      BY <1>8, <2>3 DEF Poised, Own, Ready, Good
    <3> QED BY <3>1, <3>2 DEF Good, Ready
  <2>6. Fair(p, s, Ok(s2), e) /\ Fair(p, s, Err(s2), e) /\ Fair(p, s, Ok(u), e)
    BY <2>2, <2>3, <2>4, <2>5, PostLemma DEF Fair, Ok, Err
  <2>7. Fair(p, s, Stop(p, s2, {}), e)
    <3>1. Ready(p, s2, e)
      BY <2>2, <2>4 DEF Ready
    <3>2. Fair(p, s2, Stop(p, s2, {}), e)
      BY <3>1, StopFair
    <3> QED BY <2>2, <3>2 DEF Fair
  <2>8. (\E q \in DOMAIN f : f[q] = "short") => Excuse(e)
    <3>1. DOMAIN f \subseteq Sessions
      BY <1>2
    <3> QED BY <1>3, <3>1 DEF Excuse
  <2> QED BY <1>5, <2>1, <2>6, <2>7, <2>8
<1> QED BY <1>6, <1>7, <1>8

(* try_fund is fair: past the signatures nobody is named.                  *)
LEMMA TryFundFair ==
  ASSUME NEW p \in Honest, NEW s, NEW e, Ready(p, s, e), s.phase = "Funding"
  PROVE  Fair(p, s, TryFund(s), e)
<1> DEFINE t == [s EXCEPT !.phase = "FundingSigned"]
           m == M("fsigs", Funding(View(s)))
<1>1. TryFund(s) = Ok(s) \/ TryFund(s) = Posting(t, <<m>>)
  BY DEF TryFund
<1>2. /\ t.phase = "FundingSigned" /\ t.named = s.named /\ t.late = s.late
      /\ t.regs = s.regs /\ t.pays = s.pays /\ t.views = s.views
      /\ t.nonces = s.nonces /\ t.psigs = s.psigs
  BY DEF Ready, Fresh
<1>3. Kind(m) = "fsigs"
  BY MsgLemma
<1> HIDE DEF t, m
<1>4. Heard(t, e) /\ Clean(p, t, e)
  BY <1>2 DEF Heard, Clean, Ready, Good
<1>5. Poised(p, t) /\ \A w : Own(t, w)
  BY <1>2 DEF Poised, Own, Early, Before
<1>6. Word(e.said[p] \cup {m}, e)
  BY <1>3, PlainWord DEF Ready, Good
<1>7. Fair(p, s, Posting(t, <<m>>), e)
  BY <1>2, <1>4, <1>5, <1>6, PostLemma DEF Fair, Good, Posting, Unpaid
<1> QED BY <1>1, <1>7, OkFair

(* on_coins is fair if no coin of an honest member is found bad while the  *)
(* list is checked.                                                        *)
LEMMA OnCoinsFair ==
  ASSUME NEW p \in Honest, NEW s, NEW e, Ready(p, s, e),
         NEW bad, NEW unanswered,
         s.phase = "Inputs" => bad \cap Honest = {}
  PROVE  Fair(p, s, OnCoins(p, s, bad, unanswered), e)
<1>1. Fair(p, s, Ok(s), e) /\ Fair(p, s, Stop(p, s, {}), e)
  BY OkFair, StopFair
<1>2. CASE s.phase = "Funding"
  <2> DEFINE t == [s EXCEPT !.recheckOk = TRUE]
  <2>1. Same(s, t) /\ DOMAIN t = DOMAIN Fresh
    BY DEF Same, Ready, Fresh
  <2>2. OnCoins(p, s, bad, unanswered) \in {Stop(p, s, {}), TryFund(t)}
    BY <1>2 DEF OnCoins
  <2> HIDE DEF t
  <2>3. Ready(p, t, e) /\ t.phase = "Funding"
    BY <1>2, <2>1, SameLemma DEF Ready, Same
  <2>4. Fair(p, s, TryFund(t), e)
    BY <2>1, <2>3, TryFundFair DEF Fair, Same
  <2> QED BY <1>1, <2>2, <2>4
<1>3. CASE s.phase = "Inputs"
  <2> DEFINE t == [s EXCEPT !.phase = "Channel"]
  <2>1. OnCoins(p, s, bad, unanswered) \in
          {Ok(s), Stop(p, s, {}), Stop(p, s, bad), Ok(t), RegisterPayout(p, s)}
    BY <1>3 DEF OnCoins
  <2>2. Fair(p, s, Stop(p, s, bad), e)
    BY <1>3, StopFair
  <2>3. Fair(p, s, RegisterPayout(p, s), e)
    BY <1>3, RegisterPayoutFair DEF Unpaid
  <2>4. /\ t.phase = "Channel" /\ t.named = s.named /\ t.late = s.late
        /\ t.regs = s.regs /\ t.pays = s.pays /\ t.views = s.views
        /\ t.nonces = s.nonces /\ t.psigs = s.psigs
    BY DEF Ready, Fresh
  <2> HIDE DEF t
  <2>5. Heard(t, e) /\ Clean(p, t, e)
    BY <2>4 DEF Heard, Clean, Ready, Good
  <2>6. Poised(p, t) /\ Own(t, e.said[p])
    BY <1>3, <2>4 DEF Poised, Own, Early, Before, Ready, Good
  <2>7. Fair(p, s, Ok(t), e)
    BY <1>3, <2>4, <2>5, <2>6, PostLemma DEF Fair, Good, Ok, Unpaid, Ready
  <2> QED BY <1>1, <2>1, <2>2, <2>3, <2>7
<1>4. CASE s.phase \notin {"Funding", "Inputs"}
  BY <1>1, <1>4 DEF OnCoins
<1> QED BY <1>2, <1>3, <1>4

(* build_and_check is fair: the view is the first this phone posts.        *)
LEMMA BuildFair ==
  ASSUME NEW p \in Honest, NEW s, NEW e, Ready(p, s, e), s.phase = "Payouts"
  PROVE  Fair(p, s, BuildAndCheck(p, s), e)
<1> DEFINE t == [s EXCEPT !.phase = "View", !.myNonces = TRUE]
           m == M("view", View(s))
           n == M("nonces", "n1")
<1>1. BuildAndCheck(p, s) = Err(s) \/ BuildAndCheck(p, s) = Posting(t, <<m, n>>)
  BY DEF BuildAndCheck
<1>2. /\ t.phase = "View" /\ t.named = s.named /\ t.late = s.late
      /\ t.regs = s.regs /\ t.pays = s.pays /\ t.views = s.views
      /\ t.nonces = s.nonces /\ t.psigs = s.psigs /\ t.myNonces = TRUE
  BY DEF Ready, Fresh
<1>3. Kind(m) = "view" /\ Kind(n) = "nonces" /\ Val(n) = "n1"
  BY MsgLemma
<1> HIDE DEF t
<1>4. M("view", View(t)) = m
  BY <1>2 DEF View
<1> HIDE DEF m, n
<1>5. Heard(t, e) /\ Clean(p, t, e) /\ Poised(p, t)
  BY <1>2 DEF Heard, Clean, Poised, Ready, Good
<1>6. \A k \in e.said[p] : Kind(k) # "view" /\ Kind(k) # "psigs"
  BY DEF Ready, Good, Own, Early, Before
<1>7. Own(t, e.said[p] \cup {m, n})
  BY <1>2, <1>3, <1>4, <1>6 DEF Own, Early, Before
<1>8. Word(e.said[p] \cup {m, n}, e)
  <2>1. Word(e.said[p], e)
    BY DEF Ready, Good
  <2> QED BY <1>3, <1>6, <2>1 DEF Word
<1>9. Fair(p, s, Posting(t, <<m, n>>), e)
  BY <1>2, <1>5, <1>7, <1>8, PostLemma DEF Fair, Good, Posting, Unpaid
<1> QED BY <1>1, <1>9, OkFair

(* on_output is fair.                                                      *)
LEMMA OnOutputFair ==
  ASSUME NEW p \in Honest, NEW s, NEW e, Ready(p, s, e),
         NEW out, out.image \in e.paid
  PROVE  Fair(p, s, OnOutput(p, s, out), e)
<1> DEFINE f == Put(s.pays, out.image, out.addr)
           s2 == [s EXCEPT !.pays = f]
<1>1. /\ Fair(p, s, Ok(s), e) /\ Fair(p, s, Err(s), e)
      /\ Fair(p, s, Stop(p, s, {}), e)
  BY OkFair, StopFair
<1>2. DOMAIN f = DOMAIN s.pays \cup {out.image}
  BY DEF Put
<1>3. \/ OnOutput(p, s, out) \in {Ok(s), Err(s), Stop(p, s, {})}
      \/ /\ s.phase \in Early
         /\ \/ OnOutput(p, s, out) \in {Ok(s2), Err(s2)}
            \/ s.phase = "Payouts" /\ OnOutput(p, s, out) = BuildAndCheck(p, s2)
  BY DEF OnOutput, Early
<1> HIDE DEF f
<1>4. /\ s2.phase = s.phase /\ s2.named = s.named /\ s2.late = s.late
      /\ s2.regs = s.regs /\ s2.pays = f /\ s2.views = s.views
      /\ s2.nonces = s.nonces /\ s2.psigs = s.psigs
      /\ s2.asked = s.asked /\ DOMAIN s2 = DOMAIN Fresh
  BY DEF Ready, Fresh
<1> HIDE DEF s2
<1>5. ASSUME s.phase \in Early PROVE Ready(p, s2, e)
  <2>1. Heard(s2, e) /\ Clean(p, s2, e)
    BY <1>2, <1>4 DEF Heard, Clean, Ready, Good
  <2>2. Poised(p, s2) /\ Own(s2, e.said[p])
    BY <1>4, <1>5 DEF Poised, Own, Early, Ready, Good
  <2> QED BY <1>4, <2>1, <2>2 DEF Ready, Good
<1>6. ASSUME s.phase \in Early
      PROVE  Fair(p, s, Ok(s2), e) /\ Fair(p, s, Err(s2), e)
  BY <1>4, <1>5, <1>6, PostLemma DEF Fair, Ready, Ok, Err
<1>7. ASSUME s.phase = "Payouts"
      PROVE  Fair(p, s, BuildAndCheck(p, s2), e)
  <2>1. Fair(p, s2, BuildAndCheck(p, s2), e)
    BY <1>4, <1>5, <1>7, BuildFair DEF Early
  <2> QED BY <1>4, <2>1 DEF Fair
<1> QED BY <1>1, <1>3, <1>6, <1>7

(* try_sign is fair: it posts the one signature, of the view this phone    *)
(* has posted, and names nobody.                                           *)
LEMMA TrySignFair ==
  ASSUME NEW p \in Honest, NEW s, NEW e, Ready(p, s, e),
         PhoneOK(p, TrySign(p, s).s)
  PROVE  Fair(p, s, TrySign(p, s), e) /\ ~TrySign(p, s).err
<1> DEFINE t == [s EXCEPT !.phase = "Signing", !.myNonces = FALSE]
           m == M("psigs", PartialSig(s))
           r == Posting(t, <<m>>)
<1>1. /\ Fair(p, s, Ok(s), e) /\ Fair(p, s, Stop(p, s, {}), e)
      /\ ~Ok(s).err /\ ~Stop(p, s, {}).err /\ ~r.err
  BY OkFair, StopFair DEF Ok, Stop, Posting
<1>2. \/ TrySign(p, s) \in {Ok(s), Stop(p, s, {})}
      \/ /\ s.phase = "View"
         /\ Public \/ ~(Cardinality(DOMAIN s.views) < N)
         /\ \A q \in DOMAIN s.views : s.views[q] = View(s)
         /\ TrySign(p, s) = r
  BY DEF TrySign, Count, Ready, Good, Poised
<1>3. ASSUME s.phase = "View", Public \/ ~(Cardinality(DOMAIN s.views) < N),
             \A q \in DOMAIN s.views : s.views[q] = View(s),
             TrySign(p, s) = r
      PROVE  Fair(p, s, r, e)
  <2>1. /\ t.phase = "Signing" /\ t.named = s.named /\ t.late = s.late
        /\ t.regs = s.regs /\ t.pays = s.pays /\ t.views = s.views
        /\ t.nonces = s.nonces /\ t.psigs = s.psigs
    BY DEF Ready, Fresh
  <2>2. r.s = t /\ r.post = <<m>> /\ r.pay = {}
    BY DEF Posting
  <2>3. Kind(m) = "psigs" /\ Val(m) = PartialSig(s)
    BY MsgLemma
  <2> HIDE DEF t, m
  <2>4. View(t) = View(s) /\ PartialSig(t) = PartialSig(s)
    BY <2>1 DEF View, PartialSig
  <2>5. PhoneOK(p, t)
    BY <1>3, <2>2
  <2> HIDE DEF r
  <2>6. DOMAIN s.nonces = DOMAIN s.regs
    BY <2>1, <2>5 DEF PhoneOK, Sound, IsPhone, IsMap
  <2>7. ~Public => DOMAIN s.regs \subseteq DOMAIN s.views
    BY <1>3, <2>1, <2>5, FullLemma DEF PhoneOK, IsPhone
  <2>8. Heard(t, e) /\ Clean(p, t, e) /\ Poised(p, t)
    BY <1>3, <2>1, <2>4, <2>7 DEF Heard, Clean, Poised, Ready, Good
  <2>9. /\ \A k \in e.said[p] : Kind(k) # "psigs"
        /\ M("view", View(s)) \in e.said[p]
    BY <1>3 DEF Ready, Good, Own, Before
  <2>10. Own(t, e.said[p] \cup {m})
    BY <2>1, <2>3, <2>4, <2>9 DEF Own, Early, Before
  <2>11. SignsInView(PartialSig(s), e.said[p] \cup {m}, e)
    <3>1. /\ PartialSig(s).view = View(s) /\ PartialSig(s).nonces = s.nonces
          /\ View(s).regs = s.regs
          /\ PartialSig(s) = [view |-> View(s), nonces |-> s.nonces]
      BY DEF PartialSig, View
    <3> QED BY <2>6, <2>9, <3>1 DEF SignsInView, Ready, Good, Heard
  <2>12. Word(e.said[p] \cup {m}, e)
    <3>1. Word(e.said[p], e)
      BY DEF Ready, Good
    <3> QED BY <2>3, <2>9, <2>11, <3>1 DEF Word
  <2> QED BY <2>1, <2>2, <2>8, <2>10, <2>12, PostLemma DEF Fair, Good, Unpaid
<1> QED BY <1>1, <1>2, <1>3

(* on_view is fair: an honest session posts one view.                      *)
LEMMA OnViewFair ==
  ASSUME NEW p \in Honest, NEW s, NEW e, Ready(p, s, e), NEW from \in Sessions,
         NEW view, M("view", view) \in e.said[from],
         PhoneOK(p, s), s.phase \notin Over, IsView(view)
  PROVE  /\ Fair(p, s, OnView(p, s, from, view), e)
         /\ OnView(p, s, from, view).err => from \notin Honest
<1> DEFINE f == Put(s.views, from, view)
           t == [s EXCEPT !.views = f]
<1>1. Fair(p, s, Ok(s), e) /\ Fair(p, s, Err(s), e) /\ ~Ok(s).err
  BY OkFair DEF Ok
<1>2. CASE from \notin DOMAIN s.regs \/ from \in DOMAIN s.views
  <2>1. \/ OnView(p, s, from, view) = Ok(s)
        \/ /\ OnView(p, s, from, view) = Err(s)
           /\ from \in DOMAIN s.views /\ s.views[from] # view
    BY <1>2 DEF OnView
  <2>2. from \in Honest /\ from \in DOMAIN s.views => s.views[from] = view
    <3> SUFFICES ASSUME from \in Honest, from \in DOMAIN s.views
                 PROVE  s.views[from] = view
      OBVIOUS
    <3>1. M("view", s.views[from]) \in e.said[from] /\ Word(e.said[from], e)
      BY DEF Ready, Good, Heard, IsWorld
    <3>2. M("view", s.views[from]) = M("view", view)
      BY <3>1, MsgLemma DEF Word
    <3> QED BY <3>2, MsgLemma
  <2> QED BY <1>1, <2>1, <2>2
<1>3. CASE from \in DOMAIN s.regs /\ from \notin DOMAIN s.views
  <2>1. DOMAIN f = DOMAIN s.views \cup {from}
    BY PutLemma
  <2>2. f[from] = view /\ \A q \in DOMAIN s.views : f[q] = s.views[q]
    BY <1>3 DEF Put
  <2>3. OnView(p, s, from, view) = TrySign(p, t)
    BY <1>3 DEF OnView
  <2> HIDE DEF f
  <2>4. /\ t.phase = s.phase /\ t.named = s.named /\ t.late = s.late
        /\ t.regs = s.regs /\ t.pays = s.pays /\ t.views = f
        /\ t.nonces = s.nonces /\ t.psigs = s.psigs /\ t.asked = s.asked
        /\ t.myNonces = s.myNonces /\ DOMAIN t = DOMAIN Fresh
    BY DEF Ready, Fresh
  <2> HIDE DEF t
  <2>5. PhoneOK(p, TrySign(p, t).s)
    BY <2>3, OnViewFine, PoolAssumption DEF Fine, Moves
  <2>6. View(t) = View(s) /\ PartialSig(t) = PartialSig(s)
    BY <2>4 DEF View, PartialSig
  <2>7. Heard(t, e) /\ Clean(p, t, e)
    BY <2>1, <2>2, <2>4 DEF Heard, Clean, Ready, Good
  <2>8. Poised(p, t) /\ Own(t, e.said[p])
    BY <1>3, <2>4, <2>6 DEF Poised, Own, Ready, Good
  <2>9. Ready(p, t, e)
    BY <2>4, <2>7, <2>8 DEF Ready, Good
  <2>10. Fair(p, t, TrySign(p, t), e) /\ ~TrySign(p, t).err
    BY <2>5, <2>9, TrySignFair
  <2> QED BY <2>3, <2>4, <2>10 DEF Fair
<1> QED BY <1>2, <1>3

(* on_nonces is fair: an honest session has one nonce.                     *)
LEMMA OnNoncesFair ==
  ASSUME NEW p \in Honest, NEW s, NEW e, Ready(p, s, e),
         PhoneOK(p, s), s.phase \notin Over,
         NEW from \in DOMAIN s.regs, NEW nonces \in Nonces,
         M("nonces", nonces) \in e.said[from],
         from \notin DOMAIN s.nonces => <<from, nonces>> \in e.nonces
  PROVE  /\ Fair(p, s, OnNonces(p, s, from, nonces), e)
         /\ OnNonces(p, s, from, nonces).err => from \notin Honest
<1> DEFINE f == Put(s.nonces, from, nonces)
           t == [s EXCEPT !.nonces = f]
<1>1. Fair(p, s, Ok(s), e) /\ Fair(p, s, Err(s), e) /\ ~Ok(s).err
  BY OkFair DEF Ok
<1>2. CASE from \in DOMAIN s.nonces
  <2>1. \/ OnNonces(p, s, from, nonces) = Ok(s)
        \/ /\ OnNonces(p, s, from, nonces) = Err(s)
           /\ s.nonces[from] # nonces
    BY <1>2 DEF OnNonces
  <2>2. ASSUME from \in Honest PROVE s.nonces[from] = nonces
    <3>1. M("nonces", s.nonces[from]) \in e.said[from] /\ Word(e.said[from], e)
      BY <1>2, <2>2 DEF Ready, Good, Heard, IsWorld
    <3> QED BY <3>1, MsgLemma DEF Word
  <2> QED BY <1>1, <2>1, <2>2
<1>3. CASE from \notin DOMAIN s.nonces
  <2>1. DOMAIN f = DOMAIN s.nonces \cup {from}
    BY PutLemma
  <2>2. f[from] = nonces /\ \A q \in DOMAIN s.nonces : f[q] = s.nonces[q]
    BY <1>3 DEF Put
  <2>3. OnNonces(p, s, from, nonces) = TrySign(p, t)
    BY <1>3 DEF OnNonces
  <2> HIDE DEF f
  <2>4. /\ t.phase = s.phase /\ t.named = s.named /\ t.late = s.late
        /\ t.regs = s.regs /\ t.pays = s.pays /\ t.views = s.views
        /\ t.nonces = f /\ t.psigs = s.psigs /\ t.asked = s.asked
        /\ t.myNonces = s.myNonces /\ DOMAIN t = DOMAIN Fresh
    BY DEF Ready, Fresh
  <2> HIDE DEF t
  <2>5. PhoneOK(p, TrySign(p, t).s)
    BY <2>3, OnNoncesFine, PoolAssumption DEF Fine, Moves
  <2>6. View(t) = View(s) /\ s.phase # "Signing"
    BY <1>3, <2>4 DEF View, PhoneOK, Sound
  <2>7. Heard(t, e) /\ Clean(p, t, e)
    BY <1>3, <2>1, <2>2, <2>4 DEF Heard, Clean, Ready, Good
  <2>8. Poised(p, t) /\ Own(t, e.said[p])
    BY <2>4, <2>6 DEF Poised, Own, Ready, Good
  <2>9. Ready(p, t, e)
    BY <2>4, <2>7, <2>8 DEF Ready, Good
  <2>10. Fair(p, t, TrySign(p, t), e) /\ ~TrySign(p, t).err
    BY <2>5, <2>9, TrySignFair
  <2> QED BY <2>3, <2>4, <2>10 DEF Fair
<1> QED BY <1>2, <1>3

(* Two phones that signed the same view hold the same nonces, unless one   *)
(* session has two of them.                                                *)
LEMMA NoncesAgree ==
  ASSUME NEW e, ~Excuse(e), ~Public, NEW f, NEW g, DOMAIN f = DOMAIN g,
         f \in [DOMAIN f -> Nonces], g \in [DOMAIN g -> Nonces],
         \A x \in DOMAIN f : <<x, f[x]>> \in e.nonces,
         \A x \in DOMAIN g : <<x, g[x]>> \in e.nonces
  PROVE  f = g
<1>1. ASSUME NEW x \in DOMAIN f PROVE f[x] = g[x]
  <2>1. <<x, f[x]>> \in e.nonces /\ <<x, g[x]>> \in e.nonces
    OBVIOUS
  <2>2. <<x, f[x]>>[1] = x /\ <<x, g[x]>>[1] = x
    OBVIOUS
  <2>3. <<x, f[x]>> = <<x, g[x]>>
    BY <2>1, <2>2 DEF Excuse
  <2> QED BY <2>3
<1> QED BY <1>1

(* P7: when the signatures do not all verify, those of honest members do,  *)
(* this phone's own first of all.                                          *)
LEMMA HonestSign ==
  ASSUME NEW p \in Honest, NEW s, NEW e, Ready(p, s, e), ~Excuse(e), ~Public,
         PhoneOK(p, s), s.phase = "Signing",
         NEW q \in Honest, q \in DOMAIN s.regs,
         NEW sig, IsSig(sig), M("psigs", sig) \in e.said[q]
  PROVE  sig = PartialSig(s)
<1>1. Word(e.said[q], e)
  BY DEF Ready, IsWorld
<1>2. SignsInView(sig, e.said[q], e)
  BY <1>1, MsgLemma DEF Word
<1>3. M("view", View(s)) \in e.said[q]
  BY DEF Ready, Good, Poised, Heard
<1>4. sig.view = View(s)
  <2>1. M("view", sig.view) = M("view", View(s))
    BY <1>1, <1>2, <1>3, MsgLemma DEF Word, SignsInView
  <2> QED BY <2>1, MsgLemma
<1>5. DOMAIN sig.nonces = DOMAIN s.nonces
  <2>1. DOMAIN s.regs = DOMAIN s.nonces
    BY DEF PhoneOK, Sound, IsPhone, IsMap
  <2> QED BY <1>2, <1>4, <2>1 DEF SignsInView, View
<1>6. sig.nonces = s.nonces
  <2>1. /\ sig.nonces \in [DOMAIN sig.nonces -> Nonces]
        /\ s.nonces \in [DOMAIN s.nonces -> Nonces]
    BY DEF PhoneOK, IsPhone, IsSig, IsMap
  <2>2. /\ \A x \in DOMAIN sig.nonces : <<x, sig.nonces[x]>> \in e.nonces
        /\ \A x \in DOMAIN s.nonces : <<x, s.nonces[x]>> \in e.nonces
    BY <1>2 DEF SignsInView, Ready, Good, Heard
  <2> QED BY <1>5, <2>1, <2>2, NoncesAgree
<1>7. sig = [view |-> sig.view, nonces |-> sig.nonces]
  BY <1>2 DEF SignsInView
<1> QED BY <1>4, <1>6, <1>7 DEF PartialSig

(* on_psigs is fair: those it names have signed something else.            *)
LEMMA OnPsigsFair ==
  ASSUME NEW p \in Honest, NEW s, NEW e, Ready(p, s, e),
         PhoneOK(p, s), s.phase \notin Over,
         NEW from \in DOMAIN s.regs, NEW sig, IsSig(sig),
         M("psigs", sig) \in e.said[from]
  PROVE  /\ Fair(p, s, OnPsigs(p, s, from, sig), e)
         /\ OnPsigs(p, s, from, sig).err => from \notin Honest
<1> DEFINE f == Put(s.psigs, from, sig)
           s2 == [s EXCEPT !.psigs = f]
           bad == {q \in DOMAIN s2.psigs : s2.psigs[q] # PartialSig(s)}
           t == [s2 EXCEPT !.phase = "Funding", !.asked = {p}]
           r == OnPsigs(p, s, from, sig)
<1>1. Fair(p, s, Ok(s), e) /\ Fair(p, s, Err(s), e) /\ ~Ok(s).err
  BY OkFair DEF Ok
<1>2. CASE from \in DOMAIN s.psigs
  <2>1. r = Ok(s) \/ (r = Err(s) /\ s.psigs[from] # sig)
    BY <1>2 DEF OnPsigs
  <2>2. ASSUME from \in Honest PROVE s.psigs[from] = sig
    <3>1. M("psigs", s.psigs[from]) \in e.said[from] /\ Word(e.said[from], e)
      BY <1>2, <2>2 DEF Ready, Good, Heard, IsWorld
    <3>2. M("psigs", s.psigs[from]) = M("psigs", sig)
      BY <3>1, MsgLemma DEF Word
    <3> QED BY <3>2, MsgLemma
  <2> QED BY <1>1, <2>1, <2>2
<1>3. CASE from \notin DOMAIN s.psigs
  <2>1. DOMAIN f = DOMAIN s.psigs \cup {from}
    BY PutLemma
  <2>2. f[from] = sig /\ \A q \in DOMAIN s.psigs : f[q] = s.psigs[q]
    BY <1>3 DEF Put
  <2>3. \/ r \in {Ok(s2), Ok(t)}
        \/ r = Stop(p, s2, {})
        \/ ~Public /\ s.phase = "Signing" /\ r = Stop(p, s2, bad)
    BY <1>3, PoolAssumption DEF OnPsigs
  <2>4. ~r.err
    BY <2>3 DEF Ok, Stop, Posting
  <2> HIDE DEF f
  <2>5. /\ s2.phase = s.phase /\ s2.named = s.named /\ s2.late = s.late
        /\ s2.regs = s.regs /\ s2.pays = s.pays /\ s2.views = s.views
        /\ s2.nonces = s.nonces /\ s2.psigs = f /\ s2.asked = s.asked
        /\ s2.myNonces = s.myNonces /\ DOMAIN s2 = DOMAIN Fresh
    BY DEF Ready, Fresh
  <2>6. /\ t.phase = "Funding" /\ t.named = s.named /\ t.late = s.late
        /\ t.regs = s.regs /\ t.pays = s.pays /\ t.views = s.views
        /\ t.nonces = s.nonces /\ t.psigs = f
    BY DEF Ready, Fresh
  <2>7. \A q \in bad : q \in DOMAIN f /\ f[q] # PartialSig(s)
    BY <2>5
  <2> HIDE DEF s2, t, bad, r
  <2>8. \A q \in DOMAIN f : M("psigs", f[q]) \in e.said[q]
    BY <2>1, <2>2 DEF Ready, Good, Heard
  <2>9. View(s2) = View(s) /\ PartialSig(s2) = PartialSig(s)
    BY <2>5 DEF View, PartialSig
  <2>10. Ready(p, s2, e)
    <3>1. Heard(s2, e) /\ Clean(p, s2, e)
      BY <2>5, <2>8 DEF Heard, Clean, Ready, Good
    <3>2. Poised(p, s2) /\ Own(s2, e.said[p])
      BY <2>5, <2>9 DEF Poised, Own, Ready, Good
    <3> QED BY <2>5, <3>1, <3>2 DEF Ready, Good
  <2>11. Fair(p, s, Ok(s2), e) /\ Fair(p, s, Stop(p, s2, {}), e)
    <3>1. Fair(p, s2, Ok(s2), e) /\ Fair(p, s2, Stop(p, s2, {}), e)
      BY <2>10, OkFair, StopFair
    <3> QED BY <2>5, <3>1 DEF Fair
  <2>12. Fair(p, s, Ok(t), e)
    <3>1. Heard(t, e) /\ Clean(p, t, e)
      BY <2>6, <2>8 DEF Heard, Clean, Ready, Good
    <3>2. Poised(p, t) /\ Own(t, e.said[p])
      BY <2>6 DEF Poised, Own, Early, Before
    <3> QED BY <2>6, <3>1, <3>2, PostLemma DEF Fair, Good, Ready, Ok, Unpaid
  <2>13. ASSUME ~Public, s.phase = "Signing"
         PROVE  Fair(p, s, Stop(p, s2, bad), e)
    <3>1. p \notin bad
      <4>1. p \in DOMAIN f => f[p] = PartialSig(s)
        BY <2>8, <2>13, MsgLemma DEF Ready, Good, Own
      <4> QED BY <2>7, <4>1
    <3>2. ASSUME ~Excuse(e) PROVE bad \cap Honest = {}
      <4> SUFFICES ASSUME NEW q \in bad, q \in Honest PROVE FALSE
        OBVIOUS
      <4>1. q \in DOMAIN s.regs /\ IsSig(f[q])
        BY <2>1, <2>2, <2>7 DEF PhoneOK, IsPhone
      <4>2. f[q] = PartialSig(s)
        BY <2>7, <2>8, <2>13, <3>2, <4>1, HonestSign
      <4> QED BY <2>7, <4>2
    <3>3. Fair(p, s2, Stop(p, s2, bad), e)
      BY <2>10, <3>1, <3>2, StopFair
    <3> QED BY <2>5, <3>3 DEF Fair
  <2>14. Fair(p, s, r, e)
    BY <2>3, <2>11, <2>12, <2>13
  <2> QED BY <2>4, <2>14 DEF r
<1> QED BY <1>2, <1>3

(* A message as the handlers may meet it.                                  *)
Told(s, from, m, e) ==
  /\ IsMessage(m) /\ m \in e.said[from]
  /\ Kind(m) = "nonces" /\ from \in DOMAIN s.regs \ DOMAIN s.nonces
       => <<from, Val(m)>> \in e.nonces

(* Every handler is fair, and an error in what an honest session sent is   *)
(* excused.                                                                *)
LEMMA HandleFair ==
  ASSUME NEW p \in Honest, NEW s, NEW e, Ready(p, s, e),
         PhoneOK(p, s), s.phase \notin Over,
         NEW from \in Sessions, NEW m, Told(s, from, m, e)
  PROVE  /\ Fair(p, s, Handle(p, s, from, m), e)
         /\ Handle(p, s, from, m).err /\ from \in Honest => Excuse(e)
<1>1. /\ Fair(p, s, Ok(s), e) /\ Fair(p, s, Err(s), e) /\ ~Ok(s).err
      /\ Fair(p, s, Stop(p, s, {}), e) /\ ~Stop(p, s, {}).err
  BY OkFair, StopFair DEF Ok, Stop, Posting
<1>2. m \in e.said[from] /\ m = M(Kind(m), Val(m)) /\ IsMessage(m)
  BY DEF Told, IsMessage
<1>3. from \in Honest => Kind(m) \notin {"junk", "output"}
  BY <1>2 DEF Ready, IsWorld, Word
<1>4. CASE Kind(m) = "view"
  <2>1. Handle(p, s, from, m) = OnView(p, s, from, Val(m))
    BY <1>4 DEF Handle
  <2>2. IsView(Val(m)) /\ M("view", Val(m)) \in e.said[from]
    BY <1>2, <1>4 DEF IsMessage
  <2> QED BY <2>1, <2>2, OnViewFair
<1>5. CASE Kind(m) = "inputs"
  <2>1. Handle(p, s, from, m) = OnInputs(p, s, from, Val(m))
    BY <1>5 DEF Handle
  <2>2. DOMAIN s.regs \subseteq Sessions /\ M("inputs", Val(m)) \in e.said[from]
    BY <1>2, <1>5 DEF PhoneOK, IsPhone, IsMap
  <2> QED BY <2>1, <2>2, OnInputsFair
<1>6. CASE Kind(m) = "output"
  <2>1. Handle(p, s, from, m) = OnOutput(p, s, Val(m))
    BY <1>6 DEF Handle
  <2>2. Val(m).image \in e.paid
    BY <1>2, <1>6 DEF Ready, IsWorld
  <2> QED BY <1>3, <1>6, <2>1, <2>2, OnOutputFair
<1>7. CASE Kind(m) = "nonces" /\ from \in DOMAIN s.regs
  <2>1. Handle(p, s, from, m) = OnNonces(p, s, from, Val(m))
    BY <1>7 DEF Handle
  <2>2. Val(m) \in Nonces /\ M("nonces", Val(m)) \in e.said[from]
    BY <1>2, <1>7 DEF IsMessage
  <2>3. from \notin DOMAIN s.nonces => <<from, Val(m)>> \in e.nonces
    BY <1>7 DEF Told
  <2> QED BY <1>7, <2>1, <2>2, <2>3, OnNoncesFair
<1>8. CASE Kind(m) = "psigs" /\ from \in DOMAIN s.regs
  <2>1. Handle(p, s, from, m) = OnPsigs(p, s, from, Val(m))
    BY <1>8 DEF Handle
  <2>2. IsSig(Val(m)) /\ M("psigs", Val(m)) \in e.said[from]
    BY <1>2, <1>8 DEF IsMessage
  <2> QED BY <1>8, <2>1, <2>2, OnPsigsFair
<1>9. CASE Kind(m) = "junk"
  BY <1>1, <1>3, <1>9 DEF Handle
<1>10. CASE /\ Kind(m) \notin {"view", "inputs", "output", "junk"}
            /\ Kind(m) \notin {"nonces", "psigs"} \/ from \notin DOMAIN s.regs
  BY <1>1, <1>10 DEF Handle
<1> QED BY <1>4, <1>5, <1>6, <1>7, <1>8, <1>9, <1>10

(* A handler that fails has posted nothing.                                *)
LEMMA ErrPostsNothing ==
  ASSUME NEW p, NEW s, NEW from, NEW m, Handle(p, s, from, m).err
  PROVE  Handle(p, s, from, m).post = <<>>
<1>1. \A x : ~Ok(x).err /\ Err(x).post = <<>>
  BY DEF Ok, Err
<1>2. \A x, y : ~Posting(x, y).err
  BY DEF Posting
<1>3. \A x, y : ~Stop(p, x, y).err
  BY DEF Stop, Posting
<1>4. \A x : TrySign(p, x).err => TrySign(p, x).post = <<>>
  BY <1>1, <1>2, <1>3 DEF TrySign
<1>5. \A x : BuildAndCheck(p, x).err => BuildAndCheck(p, x).post = <<>>
  BY <1>1, <1>2 DEF BuildAndCheck
<1>6. \A v : OnView(p, s, from, v).err => OnView(p, s, from, v).post = <<>>
  BY <1>1, <1>4 DEF OnView
<1>7. \A v : OnNonces(p, s, from, v).err => OnNonces(p, s, from, v).post = <<>>
  BY <1>1, <1>4 DEF OnNonces
<1>8. \A v : OnPsigs(p, s, from, v).err => OnPsigs(p, s, from, v).post = <<>>
  BY <1>1, <1>3 DEF OnPsigs
<1>9. \A v : OnInputs(p, s, from, v).err => OnInputs(p, s, from, v).post = <<>>
  BY <1>1, <1>3 DEF OnInputs
<1>10. \A v : OnOutput(p, s, v).err => OnOutput(p, s, v).post = <<>>
  BY <1>1, <1>3, <1>5 DEF OnOutput
<1> QED BY <1>1, <1>3, <1>6, <1>7, <1>8, <1>9, <1>10 DEF Handle

(* Attempt::on is fair: it names the sender of what failed.                *)
LEMMA OnMsgFair ==
  ASSUME NEW p \in Honest, NEW s, NEW e, Ready(p, s, e), PhoneOK(p, s),
         NEW from \in Sessions, NEW m, Told(s, from, m, e)
  PROVE  Fair(p, s, OnMsg(p, s, from, m), e)
<1> DEFINE r == Handle(p, s, from, m)
<1>1. CASE s.phase \in Over
  BY <1>1, OkFair DEF OnMsg
<1>2. CASE s.phase \notin Over
  <2>1. Fair(p, s, r, e) /\ (r.err /\ from \in Honest => Excuse(e))
    BY <1>2, HandleFair
  <2>2. r.err => r.post = <<>>
    BY ErrPostsNothing
  <2>3. Fine(p, s, r, {<<from, Val(m)>>})
    BY <1>2, HandleFine, PoolAssumption DEF Told
  <2>4. \/ OnMsg(p, s, from, m) = r
        \/ r.err /\ from # p /\ OnMsg(p, s, from, m) = Stop(p, r.s, {from})
        \/ r.err /\ OnMsg(p, s, from, m) = Ok(r.s)
    BY <1>2 DEF OnMsg
  <2> HIDE DEF r
  <2>5. ASSUME r.err PROVE Ready(p, r.s, e) /\ r.s.phase = s.phase
    <3>1. e.said[p] \cup Elems(r.post) = e.said[p]
      BY <2>2, <2>5, PostLemma
    <3>2. DOMAIN r.s = DOMAIN Fresh /\ r.s.phase = s.phase
      BY <2>3, <2>5 DEF Fine, Moves, PhoneOK, IsPhone
    <3> QED BY <2>1, <3>1, <3>2 DEF Fair, Ready
  <2>6. ASSUME r.err, from # p PROVE Fair(p, s, Stop(p, r.s, {from}), e)
    <3>1. Fair(p, r.s, Stop(p, r.s, {from}), e)
      BY <2>1, <2>5, <2>6, StopFair
    <3> QED BY <2>5, <2>6, <3>1 DEF Fair
  <2>7. ASSUME r.err PROVE Fair(p, s, Ok(r.s), e)
    <3>1. Fair(p, r.s, Ok(r.s), e)
      BY <2>5, <2>7, OkFair
    <3> QED BY <2>5, <2>7, <3>1 DEF Fair
  <2> QED BY <2>1, <2>4, <2>6, <2>7
<1> QED BY <1>1, <1>2

(* So is the driver's reading of a message.                                *)
LEMMA ReadFair ==
  ASSUME NEW p \in Honest, NEW s, NEW e, Ready(p, s, e), PhoneOK(p, s),
         NEW from \in Sessions, NEW m, Told(s, from, m, e)
  PROVE  Fair(p, s, Read(p, s, from, m), e)
<1> DEFINE c == Collect(s, from, m)
           r == OnMsg(p, c, from, m)
           t == TryComplete(r.s)
<1>1. IsPhone(c)
  BY DEF Collect, PhoneOK, IsPhone, Fresh
<1>2. Alike(s, c) /\ Same(s, c)
  BY DEF Collect, Alike, Same, PhoneOK, IsPhone, Fresh
<1>3. /\ Read(p, s, from, m).s = t /\ Read(p, s, from, m).post = r.post
      /\ Read(p, s, from, m).pay = r.pay
  BY DEF Read
<1> HIDE DEF c
<1>4. PhoneOK(p, c) /\ Ready(p, c, e) /\ Told(c, from, m, e)
  BY <1>1, <1>2, AlikeLemma, SameLemma
     DEF PhoneOK, Ready, IsPhone, Told, Same
<1>5. Fair(p, s, r, e)
  BY <1>2, <1>4, OnMsgFair DEF Fair, Same
<1>6. PhoneOK(p, r.s)
  <2>1. Fine(p, c, r, {<<from, Val(m)>>})
    BY <1>4, OnMsgFine, PoolAssumption DEF Told
  <2> QED BY <2>1 DEF Fine, Moves
<1> HIDE DEF r
<1>7. Same(r.s, t)
  BY <1>6 DEF TryComplete, Same, PhoneOK, IsPhone, Fresh
<1> HIDE DEF t
<1>8. Good(p, t, e.said[p] \cup Elems(r.post), e)
  BY <1>5, <1>7, SameLemma DEF Fair
<1>9. t.phase = r.s.phase
  BY <1>7 DEF Same
<1> QED BY <1>3, <1>5, <1>8, <1>9 DEF Fair

(* What store::after makes of a fair handler's result is fair too.         *)
LEMMA AfterFair ==
  ASSUME NEW p \in Honest, NEW s, NEW e, Ready(p, s, e), NEW r,
         Fair(p, s, r, e), PhoneOK(p, r.s), NEW save
  PROVE  Fair(p, s, After(p, s, r, save).r, e)
<1> DEFINE a == After(p, s, r, save)
           u == [r.s EXCEPT !.recordSaved = TRUE]
           v == [r.s EXCEPT !.asked = {}]
<1>1. \/ a.r = r
      \/ r.s.phase = "Funding" /\ a.r = TryFund(u)
      \/ r.s.phase = "Funding" /\ a.r = Ok(v)
  BY DEF After
<1>2. Same(r.s, u) /\ DOMAIN u = DOMAIN Fresh
  BY DEF Same, PhoneOK, IsPhone, Fresh
<1>3. Same(r.s, v) /\ DOMAIN v = DOMAIN Fresh
  BY DEF Same, PhoneOK, IsPhone, Fresh
<1> HIDE DEF a, u, v
<1>4. ASSUME r.s.phase = "Funding", NEW x, Same(r.s, x), DOMAIN x = DOMAIN Fresh
      PROVE  Ready(p, x, e)
  <2>1. Good(p, x, e.said[p] \cup Elems(r.post), e) /\ x.phase = "Funding"
    BY <1>4, SameLemma DEF Fair, Same
  <2>2. Own(x, e.said[p])
    BY <2>1 DEF Own, Early, Before
  <2> QED BY <1>4, <2>1, <2>2 DEF Ready, Good
<1>5. ASSUME r.s.phase = "Funding"
      PROVE  Fair(p, s, TryFund(u), e) /\ Fair(p, s, Ok(v), e)
  <2>1. Ready(p, u, e) /\ Ready(p, v, e) /\ u.phase = "Funding"
        /\ v.phase = "Funding"
    BY <1>2, <1>3, <1>4, <1>5 DEF Same
  <2>2. Fair(p, u, TryFund(u), e) /\ Fair(p, v, Ok(v), e)
    BY <2>1, TryFundFair, OkFair
  <2> QED BY <2>1, <2>2 DEF Fair, Unpaid
<1>6. Fair(p, s, a.r, e)
  BY <1>1, <1>5
<1> QED BY <1>6 DEF a

-----------------------------------------------------------------------------
(* What a phone takes in of the registrations and nonces it reads.         *)

Keeps(s, t) ==
  /\ t.regs = s.regs /\ t.nonces = s.nonces
  /\ t.cursor = s.cursor /\ t.clears = s.clears
  /\ t.phase = "Inputs" => s.phase = "Inputs"

(* A registration is taken only while the list is open, and then always    *)
(* unless the attempt stops; nonces of a member are always taken.          *)
Intake(s, t, from, m) ==
  /\ t.cursor = s.cursor /\ t.clears = s.clears
  /\ t.phase = "Inputs" => s.phase = "Inputs"
  /\ DOMAIN s.regs \subseteq DOMAIN t.regs
  /\ DOMAIN t.regs \subseteq DOMAIN s.regs \cup {from}
  /\ from \in DOMAIN t.regs \ DOMAIN s.regs =>
       Kind(m) = "inputs" /\ s.phase = "Inputs" /\ Count(s.regs) < N
  /\ DOMAIN s.nonces \subseteq DOMAIN t.nonces
  /\ Kind(m) = "nonces" /\ from \in DOMAIN s.regs => from \in DOMAIN t.nonces
  /\ Kind(m) = "inputs" /\ t.phase = "Inputs" /\ Count(t.regs) < N =>
       from \in DOMAIN t.regs

(* With the list complete, this phone is on it.                            *)
Seated(p, s) ==
  s.phase = "Inputs" /\ ~(Count(s.regs) < N) => p \in DOMAIN s.regs

(* stop, the results that change nothing, and try_sign take nothing in.    *)
LEMMA StopKeeps ==
  ASSUME NEW p, NEW s, DOMAIN s = DOMAIN Fresh
  PROVE  /\ \A named : Keeps(s, Stop(p, s, named).s)
         /\ \A named : Stop(p, s, named).s.phase = "Stopped"
         /\ Keeps(s, Ok(s).s) /\ Keeps(s, Err(s).s)
         /\ Keeps(s, TrySign(p, s).s) /\ Keeps(s, BuildAndCheck(p, s).s)
<1>1. ASSUME NEW named
      PROVE  /\ Keeps(s, Stop(p, s, named).s)
             /\ Stop(p, s, named).s.phase = "Stopped"
  <2>1. Stop(p, s, named).s = [s EXCEPT !.phase = "Stopped",
                                 !.myNonces = FALSE, !.named = named]
    BY DEF Stop, Posting
  <2> QED BY <2>1 DEF Keeps, Fresh
<1>2. Keeps(s, Ok(s).s) /\ Keeps(s, Err(s).s)
  BY DEF Ok, Err, Keeps
<1>3. Keeps(s, TrySign(p, s).s)
  <2> DEFINE t == [s EXCEPT !.phase = "Signing", !.myNonces = FALSE]
             m == M("psigs", PartialSig(s))
  <2>1. TrySign(p, s) \in {Ok(s), Err(s), Stop(p, s, {}), Posting(t, <<m>>)}
    BY DEF TrySign
  <2>2. Keeps(s, Posting(t, <<m>>).s)
    BY DEF Posting, Keeps, Fresh
  <2> QED BY <1>1, <1>2, <2>1, <2>2
<1>4. Keeps(s, BuildAndCheck(p, s).s)
  <2> DEFINE t == [s EXCEPT !.phase = "View", !.myNonces = TRUE]
             m == <<M("view", View(s)), M("nonces", "n1")>>
  <2>1. BuildAndCheck(p, s) \in {Err(s), Posting(t, m)}
    BY DEF BuildAndCheck
  <2>2. Keeps(s, Posting(t, m).s)
    BY DEF Posting, Keeps, Fresh
  <2> QED BY <1>2, <2>1, <2>2
<1> QED BY <1>1, <1>2, <1>3, <1>4

(* on_output, on_view and on_psigs take no registration and no nonces in.  *)
LEMMA OthersKeep ==
  ASSUME NEW p, NEW s, DOMAIN s = DOMAIN Fresh, NEW from, NEW v
  PROVE  /\ Keeps(s, OnOutput(p, s, v).s)
         /\ Keeps(s, OnView(p, s, from, v).s)
         /\ Keeps(s, OnPsigs(p, s, from, v).s)
<1>1. /\ \A named : Keeps(s, Stop(p, s, named).s)
      /\ Keeps(s, Ok(s).s) /\ Keeps(s, Err(s).s)
  BY StopKeeps
<1>2. Keeps(s, OnOutput(p, s, v).s)
  <2> DEFINE f == Put(s.pays, v.image, v.addr)
             s2 == [s EXCEPT !.pays = f]
  <2>1. OnOutput(p, s, v) \in {Ok(s), Err(s), Stop(p, s, {}), Ok(s2), Err(s2),
                               BuildAndCheck(p, s2)}
    BY DEF OnOutput
  <2> HIDE DEF f
  <2>2. Keeps(s, s2) /\ DOMAIN s2 = DOMAIN Fresh
    BY DEF Keeps, Fresh
  <2> HIDE DEF s2
  <2>3. Keeps(s, Ok(s2).s) /\ Keeps(s, Err(s2).s)
    BY <2>2 DEF Ok, Err
  <2>4. Keeps(s, BuildAndCheck(p, s2).s)
    BY <2>2, StopKeeps DEF Keeps
  <2> QED BY <1>1, <2>1, <2>3, <2>4
<1>3. Keeps(s, OnView(p, s, from, v).s)
  <2> DEFINE f == Put(s.views, from, v)
             s2 == [s EXCEPT !.views = f]
  <2>1. OnView(p, s, from, v) \in {Ok(s), Err(s), TrySign(p, s2)}
    BY DEF OnView
  <2> HIDE DEF f
  <2>2. Keeps(s, s2) /\ DOMAIN s2 = DOMAIN Fresh
    BY DEF Keeps, Fresh
  <2> HIDE DEF s2
  <2>3. Keeps(s, TrySign(p, s2).s)
    BY <2>2, StopKeeps DEF Keeps
  <2> QED BY <1>1, <2>1, <2>3
<1>4. Keeps(s, OnPsigs(p, s, from, v).s)
  <2> DEFINE f == Put(s.psigs, from, v)
             s2 == [s EXCEPT !.psigs = f]
             t == [s2 EXCEPT !.phase = "Funding", !.asked = {p}]
  <2>1. \/ OnPsigs(p, s, from, v) \in {Ok(s), Err(s), Ok(s2), Ok(t)}
        \/ \E named : OnPsigs(p, s, from, v) = Stop(p, s2, named)
    BY DEF OnPsigs
  <2> HIDE DEF f
  <2>2. Keeps(s, s2) /\ DOMAIN s2 = DOMAIN Fresh
    BY DEF Keeps, Fresh
  <2>3. Keeps(s, t)
    BY DEF Keeps, Fresh
  <2> HIDE DEF s2, t
  <2>4. Keeps(s, Ok(s2).s) /\ Keeps(s, Ok(t).s)
    BY <2>2, <2>3 DEF Ok
  <2>5. \A named : Keeps(s, Stop(p, s2, named).s)
    <3>1. \A named : Keeps(s2, Stop(p, s2, named).s)
      BY <2>2, StopKeeps
    <3> QED BY <2>2, <3>1 DEF Keeps
  <2> QED BY <1>1, <2>1, <2>4, <2>5
<1> QED BY <1>2, <1>3, <1>4

(* What takes in nothing is an intake of anything else.                    *)
LEMMA KeepsIntake ==
  ASSUME NEW s, NEW t, Keeps(s, t), NEW from, NEW m, NEW p,
         Kind(m) = "nonces" /\ from \in DOMAIN s.regs
           => from \in DOMAIN s.nonces,
         Kind(m) = "inputs" /\ t.phase = "Inputs" /\ Count(s.regs) < N
           => from \in DOMAIN s.regs
  PROVE  Intake(s, t, from, m) /\ (Seated(p, s) => Seated(p, t))
  BY DEF Keeps, Intake, Seated

(* on_inputs takes a registration in while the list is open.               *)
LEMMA OnInputsIntake ==
  ASSUME NEW p, NEW s, PhoneOK(p, s), NEW from, NEW m,
         Kind(m) = "inputs", NEW reg, NEW r, r = OnInputs(p, s, from, reg)
  PROVE  /\ Intake(s, r.s, from, m)
         /\ Seated(p, s) =>
              Seated(p, r.s) \/ (r.err /\ from \in DOMAIN r.s.regs /\ from # p)
<1> DEFINE f == Put(s.regs, from, reg)
           s2 == [s EXCEPT !.regs = f]
           u == [s2 EXCEPT !.coinsAsked = TRUE, !.asked = DOMAIN s2.regs \ {p}]
<1>1. DOMAIN f = DOMAIN s.regs \cup {from}
  BY PutLemma
<1>2. /\ DOMAIN s = DOMAIN Fresh /\ DOMAIN s.regs \subseteq Sessions
      /\ Count(s.regs) \in Nat /\ N \in Nat
  <2>1. IsFiniteSet(DOMAIN s.regs)
    BY FS_Subset, PoolAssumption DEF PhoneOK, IsPhone, IsMap
  <2> QED BY <2>1, FS_CardinalityType, PoolAssumption
          DEF PhoneOK, IsPhone, IsMap, Count
<1>3. CASE from \in DOMAIN s.regs \/ s.phase # "Inputs" \/ Count(s.regs) >= N
  <2>1. r = Ok(s) \/ r = Err(s)
    BY <1>3 DEF OnInputs
  <2>2. Keeps(s, r.s)
    BY <1>2, <2>1, StopKeeps
  <2> QED BY <1>2, <1>3, <2>2, KeepsIntake DEF Keeps
<1>4. CASE /\ from \notin DOMAIN s.regs /\ s.phase = "Inputs"
           /\ ~(Count(s.regs) >= N) /\ reg = "refused"
  <2>1. r = Stop(p, s, {from})
    BY <1>4 DEF OnInputs
  <2>2. Keeps(s, r.s) /\ r.s.phase # "Inputs"
    BY <1>2, <2>1, StopKeeps
  <2> QED BY <1>4, <2>2, KeepsIntake
<1>5. CASE /\ from \notin DOMAIN s.regs /\ s.phase = "Inputs"
           /\ ~(Count(s.regs) >= N) /\ reg # "refused"
  <2>1. s2.regs = f /\ u.regs = f
    BY <1>2 DEF Fresh
  <2>2. \/ r = Ok(s2) /\ Count(f) < N
        \/ r = Err(s2)
        \/ r = Stop(p, s2, {})
        \/ r = Ok(u) /\ p \in DOMAIN f
    BY <1>5, <2>1 DEF OnInputs
  <2> HIDE DEF f
  <2>3. /\ s2.phase = s.phase /\ s2.nonces = s.nonces
        /\ s2.cursor = s.cursor /\ s2.clears = s.clears
        /\ DOMAIN s2 = DOMAIN Fresh
    BY <1>2 DEF Fresh
  <2>4. /\ u.phase = s.phase /\ u.nonces = s.nonces
        /\ u.cursor = s.cursor /\ u.clears = s.clears
    BY <1>2 DEF Fresh
  <2> HIDE DEF s2, u
  <2>5. /\ r.s.regs = f /\ r.s.nonces = s.nonces
        /\ r.s.cursor = s.cursor /\ r.s.clears = s.clears
    <3>1. /\ Stop(p, s2, {}).s.regs = f /\ Stop(p, s2, {}).s.nonces = s.nonces
          /\ Stop(p, s2, {}).s.cursor = s.cursor
          /\ Stop(p, s2, {}).s.clears = s.clears
      <4>1. Keeps(s2, Stop(p, s2, {}).s)
        BY <2>3, StopKeeps
      <4> QED BY <2>1, <2>3, <4>1 DEF Keeps
    <3> QED BY <2>1, <2>2, <2>3, <2>4, <3>1 DEF Ok, Err
  <2>6. Intake(s, r.s, from, m)
    BY <1>1, <1>2, <1>5, <2>5 DEF Intake
  <2>7. Seated(p, r.s) \/ (r.err /\ from \in DOMAIN r.s.regs /\ from # p)
    <3>1. CASE r = Ok(s2) /\ Count(f) < N
      BY <2>5, <3>1 DEF Seated
    <3>2. CASE r = Err(s2)
      BY <1>1, <2>5, <3>2 DEF Seated, Err
    <3>3. CASE r = Stop(p, s2, {})
      <4>1. r.s.phase = "Stopped"
        BY <2>3, <3>3, StopKeeps
      <4> QED BY <4>1 DEF Seated
    <3>4. CASE r = Ok(u) /\ p \in DOMAIN f
      BY <2>5, <3>4 DEF Seated
    <3> QED BY <2>2, <3>1, <3>2, <3>3, <3>4
  <2> QED BY <2>6, <2>7
<1> QED BY <1>3, <1>4, <1>5

(* on_nonces takes the nonces of a member in.                              *)
LEMMA OnNoncesIntake ==
  ASSUME NEW p, NEW s, DOMAIN s = DOMAIN Fresh, NEW from, NEW m,
         Kind(m) = "nonces", NEW n, NEW r, r = OnNonces(p, s, from, n)
  PROVE  Intake(s, r.s, from, m) /\ (Seated(p, s) => Seated(p, r.s))
<1> DEFINE f == Put(s.nonces, from, n)
           t == [s EXCEPT !.nonces = f]
<1>1. CASE from \in DOMAIN s.nonces
  <2>1. r = Ok(s) \/ r = Err(s)
    BY <1>1 DEF OnNonces
  <2>2. Keeps(s, r.s)
    BY <2>1, StopKeeps
  <2> QED BY <1>1, <2>2, KeepsIntake
<1>2. CASE from \notin DOMAIN s.nonces
  <2>1. r = TrySign(p, t)
    BY <1>2 DEF OnNonces
  <2>2. DOMAIN f = DOMAIN s.nonces \cup {from}
    BY PutLemma
  <2> HIDE DEF f
  <2>3. /\ t.phase = s.phase /\ t.regs = s.regs /\ t.nonces = f
        /\ t.cursor = s.cursor /\ t.clears = s.clears
        /\ DOMAIN t = DOMAIN Fresh
    BY DEF Fresh
  <2> HIDE DEF t
  <2>4. Keeps(t, r.s)
    BY <2>1, <2>3, StopKeeps
  <2> QED BY <2>2, <2>3, <2>4 DEF Keeps, Intake, Seated
<1> QED BY <1>1, <1>2

(* Whatever the kind of a message, its handler takes it in.                *)
LEMMA HandleIntake ==
  ASSUME NEW p, NEW s, PhoneOK(p, s), NEW from, NEW m, NEW r,
         r = Handle(p, s, from, m)
  PROVE  /\ Intake(s, r.s, from, m)
         /\ Seated(p, s) =>
              Seated(p, r.s) \/ (r.err /\ from \in DOMAIN r.s.regs /\ from # p)
<1>1. DOMAIN s = DOMAIN Fresh
  BY DEF PhoneOK, IsPhone
<1>2. CASE Kind(m) = "inputs"
  BY <1>2, OnInputsIntake DEF Handle
<1>3. CASE Kind(m) = "nonces" /\ from \in DOMAIN s.regs
  <2>1. r = OnNonces(p, s, from, Val(m))
    BY <1>3 DEF Handle
  <2> QED BY <1>1, <1>3, <2>1, OnNoncesIntake
<1>4. CASE Kind(m) # "inputs" /\ ~(Kind(m) = "nonces" /\ from \in DOMAIN s.regs)
  <2>1. r \in {Ok(s), Err(s), Stop(p, s, {}), OnView(p, s, from, Val(m)),
               OnOutput(p, s, Val(m)), OnPsigs(p, s, from, Val(m))}
    BY <1>4 DEF Handle
  <2>2. Keeps(s, r.s)
    BY <1>1, <2>1, StopKeeps, OthersKeep
  <2> QED BY <1>4, <2>2, KeepsIntake
<1> QED BY <1>2, <1>3, <1>4

(* So does the driver, whatever becomes of the attempt.                    *)
LEMMA ReadIntake ==
  ASSUME NEW p \in Sessions, NEW s, PhoneOK(p, s),
         s.phase \notin {"Stopped", "Closed"},
         NEW from \in Sessions, NEW m, IsMessage(m), NEW r,
         r = Read(p, s, from, m)
  PROVE  Intake(s, r.s, from, m) /\ (Seated(p, s) => Seated(p, r.s))
<1> DEFINE c == Collect(s, from, m)
           h == Handle(p, c, from, m)
           o == OnMsg(p, c, from, m)
<1>1. IsPhone(c) /\ Alike(s, c) /\ Keeps(s, c)
  BY DEF Collect, Alike, Keeps, PhoneOK, IsPhone, Fresh
<1>2. r.s = TryComplete(o.s)
  BY DEF Read
<1> HIDE DEF c
<1>3. PhoneOK(p, c)
  BY <1>1, AlikeLemma DEF PhoneOK
<1>4. Intake(c, o.s, from, m) /\ (Seated(p, c) => Seated(p, o.s))
  <2>1. CASE c.phase \in Over
    <3>1. o = Ok(c)
      BY <2>1 DEF OnMsg
    <3>2. Keeps(c, o.s)
      BY <3>1 DEF Ok, Keeps
    <3>3. c.phase = "FundingSigned"
      BY <1>1, <2>1 DEF Over, Alike
    <3>4. o.s.phase # "Inputs" /\ DOMAIN c.regs \subseteq DOMAIN c.nonces
      BY <1>3, <3>1, <3>3 DEF Ok, PhoneOK, Sound, Aggregated
    <3> QED BY <3>2, <3>4, KeepsIntake
  <2>2. CASE c.phase \notin Over
    <3>1. /\ Intake(c, h.s, from, m)
          /\ Seated(p, c) =>
               \/ Seated(p, h.s)
               \/ h.err /\ from \in DOMAIN h.s.regs /\ from # p
      BY <1>3, HandleIntake
    <3>2. \/ ~h.err /\ o = h
          \/ h.err /\ o = Stop(p, h.s, {from})
          \/ h.err /\ ~(from \in DOMAIN h.s.regs /\ from # p) /\ o = Ok(h.s)
      BY <2>2 DEF OnMsg
    <3>3. DOMAIN h.s = DOMAIN Fresh
      <4>1. Fine(p, c, h, {<<from, Val(m)>>})
        BY <1>3, <2>2, HandleFine
      <4> QED BY <4>1 DEF Fine, Moves, PhoneOK, IsPhone
    <3> HIDE DEF h
    <3>4. CASE o = Stop(p, h.s, {from})
      <4>1. Keeps(h.s, o.s) /\ o.s.phase = "Stopped"
        BY <3>3, <3>4, StopKeeps
      <4> QED BY <3>1, <4>1 DEF Keeps, Intake, Seated
    <3>5. CASE o.s = h.s /\ ~(h.err /\ from \in DOMAIN h.s.regs /\ from # p)
      BY <3>1, <3>5
    <3> QED BY <3>2, <3>4, <3>5 DEF Ok
  <2> QED BY <2>1, <2>2
<1>5. Keeps(o.s, r.s)
  <2>1. Fine(p, c, o, {<<from, Val(m)>>})
    BY <1>3, OnMsgFine
  <2>2. IsPhone(o.s)
    BY <2>1 DEF Fine, Moves, PhoneOK
  <2> HIDE DEF o
  <2> QED BY <1>2, <2>2 DEF TryComplete, Keeps, IsPhone, Fresh
<1> HIDE DEF o
<1>6. r.s.phase = o.s.phase
  <2>1. Fine(p, c, OnMsg(p, c, from, m), {<<from, Val(m)>>})
    BY <1>3, OnMsgFine
  <2>2. IsPhone(o.s)
    BY <2>1 DEF Fine, Moves, PhoneOK, o
  <2> QED BY <1>2, <2>2 DEF TryComplete, IsPhone, Fresh
<1>7. c.phase = s.phase
  BY <1>1 DEF Alike
<1> QED BY <1>1, <1>4, <1>5, <1>6, <1>7 DEF Keeps, Intake, Seated

-----------------------------------------------------------------------------
(* The world of a state of the pool.                                       *)

(* The nonces of a session that a phone may hold: as long as no phone has  *)
(* forgotten what it had read, only the first ones posted after a          *)
(* registration (whatever came before it is dropped, whatever comes later  *)
(* finds nonces there); else any that were posted.                         *)
FirstNonces(sq, i) ==
  /\ i \in 1..Len(sq) /\ Kind(sq[i]) = "nonces"
  /\ \E j \in 1..Len(sq) : j < i /\ Kind(sq[j]) = "inputs"
  /\ \A k \in 1..Len(sq) : k < i /\ Kind(sq[k]) = "nonces" =>
       \A j \in 1..Len(sq) : j < k => Kind(sq[j]) # "inputs"

Takes(sq, n, cleared) ==
  IF cleared THEN M("nonces", n) \in Elems(sq)
  ELSE \E i \in 1..Len(sq) : FirstNonces(sq, i) /\ n = Val(sq[i])

World(log, cleared, past) ==
  [said   |-> [q \in Sessions |-> Elems(log[q])],
   nonces |-> {t \in Sessions \X Nonces : Takes(log[t[1]], t[2], cleared)},
   paid   |-> past]

Cleared == \E p \in Honest : st[p].clears > 0
Past == {q \in Sessions : q \in Honest => st[q].phase \notin Unpaid}

(* What a phone that has forgotten nothing has read, and what it made of   *)
(* it: no registration of another before the one it holds, no nonces       *)
(* after it that it does not hold.                                         *)
ReadSo(s, sq, q) ==
  /\ s.cursor[q] <= Len(sq)
  /\ q \in DOMAIN s.regs =>
       \E i \in 1..Len(sq) : i <= s.cursor[q] /\ Kind(sq[i]) = "inputs"
  /\ s.phase = "Inputs" /\ Count(s.regs) < N /\ q \notin DOMAIN s.regs =>
       \A i \in 1..Len(sq) : i <= s.cursor[q] => Kind(sq[i]) # "inputs"
  /\ q \in DOMAIN s.regs \ DOMAIN s.nonces =>
       \A i, j \in 1..Len(sq) :
         i < j /\ j <= s.cursor[q] /\ Kind(sq[i]) = "inputs"
           => Kind(sq[j]) # "nonces"

History(s, log) ==
  s.clears = 0 => \A q \in Sessions : ReadSo(s, log[q], q)

PaidFor(log, paid) ==
  /\ \A out \in paid : out.image \in Past
  /\ \A q \in Byzantine : \A m \in Elems(log[q]) :
       Kind(m) = "output" => Val(m).image = q

BlameInv ==
  /\ \A p \in Honest :
       /\ Good(p, st[p], Elems(posts[p]), World(posts, Cleared, Past))
       /\ History(st[p], posts) /\ Seated(p, st[p])
  /\ PaidFor(posts, payouts)

(* A log that grew.                                                        *)
Extends(sq, sq2) ==
  Len(sq) <= Len(sq2) /\ \A i \in 1..Len(sq) : sq2[i] = sq[i]

Grows(e, e2) ==
  /\ \A q \in Sessions : e.said[q] \subseteq e2.said[q]
  /\ e.nonces \subseteq e2.nonces /\ e.paid \subseteq e2.paid

(* What the parts of a world are.                                          *)
LEMMA WorldParts ==
  ASSUME NEW log, NEW cleared, NEW past
  PROVE  /\ \A q \in Sessions :
              World(log, cleared, past).said[q] = Elems(log[q])
         /\ World(log, cleared, past).paid = past
         /\ \A q, n : <<q, n>> \in World(log, cleared, past).nonces <=>
              q \in Sessions /\ n \in Nonces /\ Takes(log[q], n, cleared)
         /\ \A t \in World(log, cleared, past).nonces :
              t = <<t[1], t[2]>> /\ t[1] \in Sessions /\ t[2] \in Nonces
<1> DEFINE e == World(log, cleared, past)
           P(t) == Takes(log[t[1]], t[2], cleared)
<1>1. /\ e.said = [q \in Sessions |-> Elems(log[q])] /\ e.paid = past
      /\ e.nonces = {t \in Sessions \X Nonces : P(t)}
  BY DEF World
<1>2. \A q, n : P(<<q, n>>) <=> Takes(log[q], n, cleared)
  OBVIOUS
<1> HIDE DEF P, e
<1>3. \A q, n : <<q, n>> \in e.nonces <=> q \in Sessions /\ n \in Nonces
                                        /\ Takes(log[q], n, cleared)
  BY <1>1, <1>2
<1>4. \A t \in e.nonces :
        t = <<t[1], t[2]>> /\ t[1] \in Sessions /\ t[2] \in Nonces
  BY <1>1
<1>5. \A q \in Sessions : e.said[q] = Elems(log[q])
  BY <1>1
<1> QED BY <1>1, <1>3, <1>4, <1>5 DEF e

(* The first nonces stay the first as a log grows, and are the only ones.  *)
LEMMA FirstLemma ==
  ASSUME NEW S, NEW sq \in Seq(S), NEW i, FirstNonces(sq, i)
  PROVE  /\ \A j : FirstNonces(sq, j) => i = j
         /\ \A T : \A sq2 \in Seq(T) : Extends(sq, sq2) => FirstNonces(sq2, i)
<1>0. Len(sq) \in Nat /\ i \in 1..Len(sq)
  BY DEF FirstNonces
<1>1. ASSUME NEW j, FirstNonces(sq, j) PROVE i = j
  <2>1. i \in Nat /\ j \in Nat /\ i \in 1..Len(sq) /\ j \in 1..Len(sq)
    BY <1>1 DEF FirstNonces
  <2>2. ~(i < j) /\ ~(j < i)
    BY <1>1, <2>1 DEF FirstNonces
  <2> QED BY <2>1, <2>2
<1>2. ASSUME NEW T, NEW sq2 \in Seq(T), Extends(sq, sq2)
      PROVE  FirstNonces(sq2, i)
  <2>1. /\ Len(sq2) \in Nat /\ Len(sq) <= Len(sq2)
        /\ \A k \in 1..Len(sq) : sq2[k] = sq[k] /\ k \in 1..Len(sq2)
    BY <1>0, <1>2 DEF Extends
  <2>2. \A k \in 1..Len(sq2) : k < i => k \in 1..Len(sq)
    BY <1>0, <2>1
  <2>3. i \in 1..Len(sq2) /\ Kind(sq2[i]) = "nonces"
    BY <1>0, <2>1 DEF FirstNonces
  <2>4. \E j \in 1..Len(sq2) : j < i /\ Kind(sq2[j]) = "inputs"
    BY <2>1 DEF FirstNonces
  <2>5. ASSUME NEW k \in 1..Len(sq2), k < i, Kind(sq2[k]) = "nonces",
               NEW j \in 1..Len(sq2), j < k
        PROVE  Kind(sq2[j]) # "inputs"
    <3>1. j < i
      BY <1>0, <2>5
    <3>2. k \in 1..Len(sq) /\ j \in 1..Len(sq) /\ sq2[k] = sq[k] /\ sq2[j] = sq[j]
      BY <2>1, <2>2, <2>5, <3>1
    <3> QED BY <2>5, <3>2 DEF FirstNonces
  <2> QED BY <2>3, <2>4, <2>5 DEF FirstNonces
<1> QED BY <1>1, <1>2

(* What a log holds, a longer one holds.                                   *)
LEMMA ElemsGrow ==
  ASSUME NEW S, NEW sq \in Seq(S), NEW T, NEW sq2 \in Seq(T), Extends(sq, sq2)
  PROVE  Elems(sq) \subseteq Elems(sq2)
<1>1. Len(sq) \in Nat /\ Len(sq2) \in Nat
  OBVIOUS
<1> QED BY <1>1 DEF Elems, Extends

(* Nonces that a phone may hold were posted.                               *)
LEMMA TakesSaid ==
  ASSUME NEW sq, \A m \in Elems(sq) : IsMessage(m), NEW n, NEW cleared,
         Takes(sq, n, cleared)
  PROVE  M("nonces", n) \in Elems(sq)
<1>1. CASE cleared
  BY <1>1 DEF Takes
<1>2. CASE ~cleared
  <2>1. PICK i \in 1..Len(sq) : FirstNonces(sq, i) /\ n = Val(sq[i])
    BY <1>2 DEF Takes
  <2>2. sq[i] \in Elems(sq) /\ Kind(sq[i]) = "nonces"
    BY <2>1 DEF Elems, FirstNonces
  <2>3. sq[i] = M("nonces", n)
    BY <2>1, <2>2 DEF IsMessage
  <2> QED BY <2>2, <2>3
<1> QED BY <1>1, <1>2

(* A log of well-formed messages for every session.                        *)
IsLog(log) ==
  \A q \in Sessions : /\ log[q] \in Seq(Elems(log[q]))
                      /\ \A m \in Elems(log[q]) : IsMessage(m)

(* The world grows with the logs, and when a phone forgets what it read.   *)
LEMMA WorldGrows ==
  ASSUME NEW log, IsLog(log), NEW log2, IsLog(log2),
         \A q \in Sessions : Extends(log[q], log2[q]),
         NEW cleared \in BOOLEAN, NEW cleared2 \in BOOLEAN, cleared => cleared2,
         NEW past, NEW past2, past \subseteq past2
  PROVE  Grows(World(log, cleared, past), World(log2, cleared2, past2))
<1> DEFINE e == World(log, cleared, past)
           e2 == World(log2, cleared2, past2)
<1>1. ASSUME NEW q \in Sessions
      PROVE  Elems(log[q]) \subseteq Elems(log2[q])
  BY ElemsGrow DEF IsLog
<1>2. ASSUME NEW q \in Sessions, NEW n, Takes(log[q], n, cleared)
      PROVE  Takes(log2[q], n, cleared2)
  <2>1. CASE cleared2
    <3>1. M("nonces", n) \in Elems(log[q])
      BY <1>2, TakesSaid DEF IsLog
    <3> QED BY <1>1, <2>1, <3>1 DEF Takes
  <2>2. CASE ~cleared2
    <3>1. PICK i \in 1..Len(log[q]) : FirstNonces(log[q], i) /\ n = Val(log[q][i])
      BY <1>2, <2>2 DEF Takes
    <3>2. FirstNonces(log2[q], i)
      BY <3>1, FirstLemma DEF IsLog
    <3>3. log2[q][i] = log[q][i] /\ i \in 1..Len(log2[q])
      BY <3>2 DEF Extends, FirstNonces
    <3> QED BY <2>2, <3>1, <3>2, <3>3 DEF Takes
  <2> QED BY <2>1, <2>2
<1>3. \A q \in Sessions : e.said[q] \subseteq e2.said[q]
  BY <1>1, WorldParts
<1>4. e.paid \subseteq e2.paid
  BY WorldParts
<1>5. ASSUME NEW t \in e.nonces PROVE t \in e2.nonces
  <2>1. t = <<t[1], t[2]>> /\ t[1] \in Sessions /\ t[2] \in Nonces
    BY WorldParts
  <2>2. Takes(log[t[1]], t[2], cleared)
    BY <2>1, WorldParts
  <2>3. Takes(log2[t[1]], t[2], cleared2)
    BY <1>2, <2>1, <2>2
  <2>4. <<t[1], t[2]>> \in e2.nonces
    BY <2>1, <2>3, WorldParts
  <2> QED BY <2>1, <2>4
<1> HIDE DEF e, e2
<1>6. Grows(e, e2)
  BY <1>3, <1>4, <1>5 DEF Grows
<1> QED BY <1>6 DEF e, e2

(* What a phone relies on stays true in a larger world.                    *)
LEMMA GoodGrows ==
  ASSUME NEW p, NEW s, NEW w, NEW e, NEW e2, Grows(e, e2), Good(p, s, w, e),
         PhoneOK(p, s)
  PROVE  Good(p, s, w, e2)
<1>1. /\ DOMAIN s.regs \subseteq Sessions /\ DOMAIN s.views \subseteq Sessions
      /\ DOMAIN s.psigs \subseteq Sessions
  BY DEF PhoneOK, IsPhone, IsMap
<1>2. Heard(s, e2)
  BY <1>1 DEF Good, Heard, Grows
<1>3. Excuse(e) => Excuse(e2)
  BY DEF Excuse, Grows
<1>4. Clean(p, s, e2)
  BY <1>3 DEF Good, Clean
<1>5. Word(w, e2)
  BY DEF Good, Word, SignsInView, Grows
<1> QED BY <1>2, <1>4, <1>5 DEF Good

(* What a phone has read does not change as the logs grow.                 *)
LEMMA HistoryGrows ==
  ASSUME NEW s, IsPhone(s), NEW log, IsLog(log), NEW log2, IsLog(log2),
         \A q \in Sessions : Extends(log[q], log2[q]), History(s, log)
  PROVE  History(s, log2)
<1> SUFFICES ASSUME s.clears = 0, NEW q \in Sessions
             PROVE  ReadSo(s, log2[q], q)
  BY DEF History
<1> DEFINE sq == log[q]
           sq2 == log2[q]
           c == s.cursor[q]
<1>1. ReadSo(s, sq, q)
  BY DEF History
<1>2. /\ Len(sq) \in Nat /\ Len(sq2) \in Nat /\ Len(sq) <= Len(sq2)
      /\ \A i \in 1..Len(sq) : sq2[i] = sq[i]
  BY DEF IsLog, Extends
<1>3. c \in Nat
  BY DEF IsPhone
<1>4. c <= Len(sq)
  BY <1>1 DEF ReadSo
<1> HIDE DEF sq, sq2, c
<1>5. \A i \in 1..Len(sq2) : i <= c => i \in 1..Len(sq) /\ sq2[i] = sq[i]
  BY <1>2, <1>3, <1>4
<1>6. \A i \in 1..Len(sq) : i \in 1..Len(sq2)
  BY <1>2
<1>7. ReadSo(s, sq2, q)
  <2>1. c <= Len(sq2)
    BY <1>2, <1>3, <1>4
  <2>2. q \in DOMAIN s.regs =>
          \E i \in 1..Len(sq2) : i <= c /\ Kind(sq2[i]) = "inputs"
    BY <1>1, <1>2, <1>6 DEF ReadSo, c
  <2>3. s.phase = "Inputs" /\ Count(s.regs) < N /\ q \notin DOMAIN s.regs =>
          \A i \in 1..Len(sq2) : i <= c => Kind(sq2[i]) # "inputs"
    BY <1>1, <1>5 DEF ReadSo, c
  <2>4. ASSUME q \in DOMAIN s.regs \ DOMAIN s.nonces,
               NEW i \in 1..Len(sq2), NEW j \in 1..Len(sq2),
               i < j, j <= c, Kind(sq2[i]) = "inputs"
        PROVE  Kind(sq2[j]) # "nonces"
    <3>1. i <= c
      BY <1>2, <1>3, <2>4
    <3>2. /\ i \in 1..Len(sq) /\ sq2[i] = sq[i]
          /\ j \in 1..Len(sq) /\ sq2[j] = sq[j]
      BY <1>5, <2>4, <3>1
    <3> QED BY <1>1, <2>4, <3>2 DEF ReadSo, c
  <2> QED BY <2>1, <2>2, <2>3, <2>4 DEF ReadSo, c
<1> QED BY <1>7 DEF sq2

(* What is left of an attempt that is over relies on nothing.              *)
LEMMA GoneGood ==
  ASSUME NEW p, NEW s, NEW w, NEW e, Heard(s, e), Word(w, e), Clean(p, s, e),
         NEW phase \in {"Stopped", "Closed"}, NEW log, IsLog(log)
  PROVE  /\ Good(p, Gone(s, phase), w, e)
         /\ History(Gone(s, phase), log) /\ Seated(p, Gone(s, phase))
         /\ Gone(s, phase).clears = s.clears
<1> DEFINE g == Gone(s, phase)
<1>1. /\ g.phase = phase /\ g.named = s.named /\ g.late = s.late
      /\ g.clears = s.clears /\ g.cursor = [q \in Sessions |-> 0]
      /\ g.regs = Empty /\ g.pays = Empty /\ g.views = Empty
      /\ g.nonces = Empty /\ g.psigs = Empty
  BY DEF Gone, Fresh
<1>2. DOMAIN Empty = {}
  BY DEF Empty
<1> HIDE DEF g
<1>3. Heard(g, e) /\ Clean(p, g, e)
  BY <1>1, <1>2 DEF Heard, Clean
<1>4. Poised(p, g) /\ Own(g, w) /\ Seated(p, g)
  BY <1>1 DEF Poised, Own, Early, Before, Seated
<1>5. ASSUME NEW q \in Sessions PROVE ReadSo(g, log[q], q)
  <2>1. Len(log[q]) \in Nat /\ g.cursor[q] = 0
    BY <1>1 DEF IsLog
  <2>2. \A i \in 1..Len(log[q]) : ~(i <= 0)
    BY <2>1
  <2> QED BY <1>1, <1>2, <2>1, <2>2 DEF ReadSo
<1>6. History(g, log)
  BY <1>5 DEF History
<1> QED BY <1>1, <1>3, <1>4, <1>6 DEF Good, g

(* So it is with what the page keeps after a step.                         *)
LEMMA KeptGood ==
  ASSUME NEW p, NEW t, NEW w, NEW e, Good(p, t, w, e), NEW log, IsLog(log),
         History(t, log), Seated(p, t)
  PROVE  /\ Good(p, Kept(t), w, e)
         /\ History(Kept(t), log) /\ Seated(p, Kept(t))
         /\ Kept(t).clears = t.clears
<1>1. CASE t.phase # "Stopped"
  BY <1>1 DEF Kept
<1>2. CASE t.phase = "Stopped"
  <2>1. Kept(t) = Gone(t, "Stopped")
    BY <1>2 DEF Kept
  <2> QED BY <2>1, GoneGood DEF Good
<1> QED BY <1>1, <1>2

(* The logs a step starts from: those of the state, and what another       *)
(* session posts in the same step.                                         *)
StartsFrom(log) ==
  /\ IsLog(log) /\ DOMAIN log = Sessions
  /\ \A q \in Sessions : Extends(posts[q], log[q])
  /\ \A q \in Honest : log[q] = posts[q]
  /\ PaidFor(log, payouts)

(* The state's own logs are such.                                          *)
LEMMA PostsStart ==
  ASSUME Inv, BlameInv
  PROVE  StartsFrom(posts)
<1>1. \A q \in Sessions : Sent(q) = Elems(posts[q])
  BY DEF Sent, Elems
<1>2. IsLog(posts) /\ DOMAIN posts = Sessions
  BY <1>1 DEF IsLog, Inv, TypeOK
<1>3. \A q \in Sessions : Len(posts[q]) \in Nat
  BY <1>2 DEF IsLog
<1>4. \A q \in Sessions : Extends(posts[q], posts[q])
  BY <1>3 DEF Extends
<1> QED BY <1>2, <1>4 DEF StartsFrom, BlameInv

(* Every phone is ready in the world a step starts from.                   *)
LEMMA AllReady ==
  ASSUME Inv, BlameInv, NEW log, StartsFrom(log), NEW e,
         e = World(log, Cleared, Past)
  PROVE  /\ \A p \in Honest : /\ Ready(p, st[p], e) /\ PhoneOK(p, st[p])
                              /\ History(st[p], log) /\ Seated(p, st[p])
         /\ IsWorld(e) /\ \A q \in Sessions : e.said[q] = Elems(log[q])
<1> DEFINE e1 == World(posts, Cleared, Past)
<1>1. StartsFrom(posts) /\ Cleared \in BOOLEAN
  BY PostsStart DEF Cleared
<1>2. Grows(e1, e)
  BY <1>1, WorldGrows DEF StartsFrom
<1> HIDE DEF e1
<1>3. \A q \in Sessions : e.said[q] = Elems(log[q])
  BY WorldParts
<1>4. ASSUME NEW p \in Honest
      PROVE  /\ PhoneOK(p, st[p]) /\ DOMAIN st[p] = DOMAIN Fresh
             /\ Good(p, st[p], e.said[p], e)
             /\ History(st[p], log) /\ Seated(p, st[p])
  <2>1. PhoneOK(p, st[p]) /\ p \in Sessions
    BY PoolAssumption DEF Inv, TypeOK, PhoneOK
  <2>2. Good(p, st[p], Elems(log[p]), e1) /\ Seated(p, st[p])
    BY DEF BlameInv, StartsFrom, e1
  <2>3. Good(p, st[p], Elems(log[p]), e)
    BY <1>2, <2>1, <2>2, GoodGrows
  <2>4. History(st[p], log)
    <3>1. History(st[p], posts) /\ IsPhone(st[p])
      BY <2>1 DEF BlameInv, PhoneOK
    <3> QED BY <1>1, <3>1, HistoryGrows DEF StartsFrom
  <2> QED BY <1>3, <2>1, <2>2, <2>3, <2>4 DEF PhoneOK, IsPhone
<1>5. IsWorld(e)
  <2>1. \A q \in Honest : Word(e.said[q], e)
    BY <1>4 DEF Good
  <2>2. ASSUME NEW q \in Sessions, NEW m \in e.said[q], Kind(m) = "output"
        PROVE  Val(m).image \in e.paid
    <3>1. q \notin Honest
      BY <2>1, <2>2 DEF Word
    <3>2. Val(m).image = q /\ q \in Past
      BY <1>3, <2>2, <3>1 DEF StartsFrom, PaidFor, Byzantine, Past
    <3> QED BY <3>2, WorldParts
  <2>3. ASSUME NEW q, NEW n, <<q, n>> \in e.nonces
        PROVE  M("nonces", n) \in e.said[q]
    <3>1. q \in Sessions /\ Takes(log[q], n, Cleared)
      BY <2>3, WorldParts
    <3>2. M("nonces", n) \in Elems(log[q])
      BY <3>1, TakesSaid DEF StartsFrom, IsLog
    <3> QED BY <1>3, <3>1, <3>2
  <2> QED BY <2>1, <2>2, <2>3 DEF IsWorld
<1> QED BY <1>3, <1>4, <1>5 DEF Ready

(* store::after takes nothing in.                                          *)
LEMMA AfterKeeps ==
  ASSUME NEW p, NEW s, NEW r, DOMAIN r.s = DOMAIN Fresh, NEW save
  PROVE  /\ Keeps(r.s, After(p, s, r, save).r.s)
         /\ After(p, s, r, save).r.s.phase = "Inputs" <=> r.s.phase = "Inputs"
<1> DEFINE a == After(p, s, r, save)
           x == r.s
           u == [x EXCEPT !.recordSaved = TRUE]
           u2 == [u EXCEPT !.phase = "FundingSigned"]
           v == [x EXCEPT !.asked = {}]
<1>1. \/ a.r.s = x
      \/ x.phase = "Funding" /\ a.r.s \in {u, u2, v}
  BY DEF After, TryFund, Ok, Posting
<1> HIDE DEF a
<1>2. DOMAIN x = DOMAIN Fresh
  OBVIOUS
<1> HIDE DEF x
<1>3. Keeps(x, u) /\ Keeps(x, v) /\ u.phase = x.phase /\ v.phase = x.phase
  BY <1>2 DEF Keeps, Fresh
<1>4. Keeps(x, u2) /\ u2.phase = "FundingSigned"
  BY <1>2 DEF Keeps, Fresh
<1> HIDE DEF u, u2, v
<1>5. Keeps(x, a.r.s) /\ (a.r.s.phase = "Inputs" <=> x.phase = "Inputs")
  BY <1>1, <1>3, <1>4 DEF Keeps
<1> QED BY <1>5 DEF a, x

(* What a phone has read and whether it is on its list depend on little.   *)
LEMMA KeepsHistory ==
  ASSUME NEW p, NEW s, NEW t, Keeps(s, t), NEW log,
         History(s, log), Seated(p, s)
  PROVE  History(t, log) /\ Seated(p, t)
<1>1. ASSUME NEW q, NEW sq, ReadSo(s, sq, q) PROVE ReadSo(t, sq, q)
  BY <1>1 DEF Keeps, ReadSo
<1> QED BY <1>1 DEF Keeps, History, Seated

(* What is said after a log extends it.                                    *)
LEMMA ConcatExtends ==
  ASSUME NEW S, NEW sq \in Seq(S), NEW T, NEW po \in Seq(T), NEW sq2,
         sq2 = sq \o po
  PROVE  Elems(sq2) = Elems(sq) \cup Elems(po) /\ Extends(sq, sq2)
<1>1. /\ Len(sq2) = Len(sq) + Len(po)
      /\ \A i \in 1..Len(sq) : sq2[i] = sq[i]
      /\ \A i \in 1..Len(po) : sq2[Len(sq) + i] = po[i]
  OBVIOUS
<1>2. Len(sq) \in Nat /\ Len(po) \in Nat
  OBVIOUS
<1>3. Extends(sq, sq2)
  BY <1>1, <1>2 DEF Extends
<1>4. ASSUME NEW i \in 1..Len(sq2) PROVE sq2[i] \in Elems(sq) \cup Elems(po)
  <2>1. CASE i \in 1..Len(sq)
    BY <1>1, <2>1 DEF Elems
  <2>2. CASE i \notin 1..Len(sq)
    <3>1. i - Len(sq) \in 1..Len(po) /\ Len(sq) + (i - Len(sq)) = i
      BY <1>1, <1>2, <2>2
    <3>2. sq2[i] = po[i - Len(sq)]
      BY <1>1, <3>1
    <3> QED BY <3>1, <3>2 DEF Elems
  <2> QED BY <2>1, <2>2
<1>5. ASSUME NEW i \in 1..Len(sq) PROVE sq[i] \in Elems(sq2)
  BY <1>1, <1>2 DEF Elems
<1>6. ASSUME NEW i \in 1..Len(po) PROVE po[i] \in Elems(sq2)
  <2>1. Len(sq) + i \in 1..Len(sq2)
    BY <1>1, <1>2
  <2> QED BY <1>1, <2>1 DEF Elems
<1>7. /\ Elems(sq2) \subseteq Elems(sq) \cup Elems(po)
      /\ Elems(sq) \subseteq Elems(sq2) /\ Elems(po) \subseteq Elems(sq2)
  BY <1>4, <1>5, <1>6 DEF Elems
<1> QED BY <1>3, <1>7

(* A log extends itself.                                                   *)
LEMMA ExtendsSelf ==
  ASSUME NEW S, NEW sq \in Seq(S)
  PROVE  Extends(sq, sq)
<1>1. Len(sq) \in Nat
  OBVIOUS
<1> QED BY <1>1 DEF Extends

(* A whole step of a phone, the page included, keeps the invariant.        *)
LEMMA DoFair ==
  ASSUME Inv, BlameInv, Inv', NEW p \in Honest, NEW r, NEW save, NEW log,
         NEW paid, NEW sigs, StartsFrom(log), PaidFor(log, paid),
         DoWith(p, r, save, log, paid),
         Fair(p, st[p], r, World(log, Cleared, Past)),
         Fine(p, st[p], r, sigs),
         History(r.s, log), Seated(p, r.s), r.s.clears = st[p].clears
  PROVE  BlameInv'
<1> DEFINE a == After(p, st[p], r, save)
           t == a.r.s
           k == Kept(t)
           e == World(log, Cleared, Past)
           e2 == World(posts', Cleared', Past')
<1>1. /\ st' = [st EXCEPT ![p] = k]
      /\ posts' = [log EXCEPT ![p] = @ \o a.r.post]
      /\ payouts' = paid \cup a.r.pay
  BY DEF DoWith
<1>2. /\ Ready(p, st[p], e) /\ p \in Sessions /\ IsWorld(e)
      /\ \A q \in Sessions : e.said[q] = Elems(log[q])
      /\ \A q \in Honest : /\ Ready(q, st[q], e) /\ PhoneOK(q, st[q])
                           /\ History(st[q], log) /\ Seated(q, st[q])
  BY AllReady, PoolAssumption
<1>3. PhoneOK(p, r.s) /\ DOMAIN r.s = DOMAIN Fresh
  BY DEF Fine, Moves, PhoneOK, IsPhone
<1>4. Fair(p, st[p], a.r, e)
  BY <1>2, <1>3, AfterFair
<1>5. PhoneOK(p, t) /\ a.r.post \in Seq(Elems(a.r.post))
  <2>1. Turn(p, st[p], disk[p], a.r.s, a.r.post, a.disk, sigs)
    BY <1>2, AfterTurn DEF Inv, Recorded
  <2> QED BY <2>1 DEF Turn
<1>6. Keeps(r.s, t)
  BY <1>3, AfterKeeps
<1>7. History(t, log) /\ Seated(p, t) /\ t.clears = st[p].clears
  BY <1>6, KeepsHistory DEF Keeps
<1> HIDE DEF a
<1>8. /\ Good(p, t, e.said[p] \cup Elems(a.r.post), e)
      /\ t.phase \in Unpaid => st[p].phase \in Unpaid
      /\ \A out \in a.r.pay : out.image = p /\ t.phase = "Payouts"
  BY <1>4 DEF Fair
<1> HIDE DEF t, e
<1>9. IsLog(log) /\ IsLog(posts') /\ DOMAIN posts' = Sessions
  <2>1. \A q \in Sessions : Sent(q)' = Elems(posts'[q])
    BY DEF Sent, Elems
  <2> QED BY <2>1 DEF StartsFrom, IsLog, Inv, TypeOK
<1>10. /\ PhoneOK(p, k) /\ k.phase = t.phase
       /\ Good(p, k, e.said[p] \cup Elems(a.r.post), e)
       /\ History(k, log) /\ Seated(p, k) /\ k.clears = st[p].clears
  BY <1>5, <1>7, <1>8, <1>9, KeptLemma, KeptGood
<1> HIDE DEF k
<1>11. /\ posts'[p] = log[p] \o a.r.post
       /\ \A q \in Sessions : q # p => posts'[q] = log[q]
       /\ st'[p] = k /\ \A q \in Honest : q # p => st'[q] = st[q]
  BY <1>1, <1>2 DEF StartsFrom, Inv, TypeOK
<1>12. /\ Elems(posts'[p]) = e.said[p] \cup Elems(a.r.post)
       /\ Extends(log[p], posts'[p])
  <2>1. log[p] \in Seq(Elems(log[p]))
    BY <1>2, <1>9 DEF IsLog
  <2> DEFINE l1 == log[p]
             l2 == posts'[p]
             po == a.r.post
             T == Elems(po)
             S == Elems(l1)
  <2>2. l1 \in Seq(S) /\ po \in Seq(T) /\ l2 = l1 \o po
    BY <1>5, <1>11, <2>1
  <2>3. S = e.said[p]
    BY <1>2
  <2>4. Elems(l2) = Elems(l1) \cup Elems(po) /\ Extends(l1, l2)
    <3> HIDE DEF l1, po, l2, S, T
    <3> QED BY <2>2, ConcatExtends
  <2> QED BY <2>2, <2>3, <2>4
<1>13. ASSUME NEW q \in Sessions PROVE Extends(log[q], posts'[q])
  <2>1. CASE q = p
    BY <1>12, <2>1
  <2>2. CASE q # p
    <3>1. log[q] \in Seq(Elems(log[q])) /\ posts'[q] = log[q]
      BY <1>9, <1>11, <2>2 DEF IsLog
    <3>2. Extends(log[q], log[q])
      BY <3>1, ExtendsSelf
    <3> QED BY <3>1, <3>2
  <2> QED BY <2>1, <2>2
<1>14. Past \subseteq Past'
  BY <1>8, <1>10, <1>11 DEF Past
<1>15. Cleared' = Cleared /\ Cleared \in BOOLEAN
  BY <1>10, <1>11 DEF Cleared
<1>16. Grows(e, e2)
  BY <1>9, <1>13, <1>14, <1>15, WorldGrows DEF e
<1> HIDE DEF e2
<1>17. ASSUME NEW q \in Honest
       PROVE  /\ Good(q, st'[q], Elems(posts'[q]), e2)
              /\ History(st'[q], posts') /\ Seated(q, st'[q])
  <2>1. CASE q = p
    <3>1. Good(p, k, Elems(posts'[p]), e2)
      BY <1>10, <1>12, <1>16, GoodGrows
    <3>2. History(k, posts')
      BY <1>9, <1>10, <1>13, HistoryGrows DEF PhoneOK
    <3> QED BY <1>10, <1>11, <2>1, <3>1, <3>2
  <2>2. CASE q # p
    <3>1. /\ PhoneOK(q, st[q]) /\ Good(q, st[q], Elems(log[q]), e)
          /\ History(st[q], log) /\ Seated(q, st[q]) /\ q \in Sessions
      BY <1>2, PoolAssumption DEF Ready
    <3>2. Good(q, st[q], Elems(log[q]), e2)
      BY <1>16, <3>1, GoodGrows
    <3>3. History(st[q], posts')
      BY <1>9, <1>13, <3>1, HistoryGrows DEF PhoneOK
    <3> QED BY <1>11, <2>2, <3>1, <3>2, <3>3
  <2> QED BY <2>1, <2>2
<1>18. PaidFor(posts, payouts)'
  <2>1. ASSUME NEW out \in payouts' PROVE out.image \in Past'
    <3>1. CASE out \in paid
      BY <1>14, <3>1 DEF PaidFor
    <3>2. CASE out \in a.r.pay
      <4>1. out.image = p /\ t.phase \notin Unpaid
        BY <1>8, <3>2 DEF Unpaid
      <4> QED BY <1>2, <1>10, <1>11, <4>1 DEF Past
    <3> QED BY <1>1, <3>1, <3>2
  <2>2. ASSUME NEW q \in Byzantine
        PROVE  posts'[q] = log[q]
    BY <1>11 DEF Byzantine
  <2>3. \A q \in Byzantine : \A m \in Elems(posts'[q]) :
          Kind(m) = "output" => Val(m).image = q
    BY <2>2 DEF PaidFor
  <2> QED BY <2>1, <2>3 DEF PaidFor, Elems
<1> QED BY <1>17, <1>18 DEF BlameInv, e2

(* A phone of the pool as its next step finds it.                          *)
LEMMA PhoneReady ==
  ASSUME Inv, BlameInv, NEW p \in Honest
  PROVE  /\ Ready(p, st[p], World(posts, Cleared, Past))
         /\ PhoneOK(p, st[p]) /\ p \in Sessions
         /\ DOMAIN st[p] = DOMAIN Fresh
  BY AllReady, PostsStart, PoolAssumption DEF Ready

(* A step that takes in no registration and no nonces keeps the invariant. *)
LEMMA KeepsStep ==
  ASSUME Inv, BlameInv, Inv', NEW p \in Honest, NEW r, NEW save, NEW sigs,
         Do(p, r, save), Fair(p, st[p], r, World(posts, Cleared, Past)),
         Fine(p, st[p], r, sigs), Keeps(st[p], r.s)
  PROVE  BlameInv'
<1>1. StartsFrom(posts) /\ PaidFor(posts, payouts)
  BY PostsStart DEF StartsFrom
<1>2. History(st[p], posts) /\ Seated(p, st[p])
  BY DEF BlameInv
<1>3. History(r.s, posts) /\ Seated(p, r.s) /\ r.s.clears = st[p].clears
  BY <1>2, KeepsHistory DEF Keeps
<1>4. DoWith(p, r, save, posts, payouts)
  BY DEF Do
<1> QED BY <1>1, <1>3, <1>4, DoFair

(* Leaving, and a channel that fails, name nobody.                         *)
LEMMA LeaveBlame ==
  ASSUME Inv, BlameInv, Inv', NEW p \in Honest, Leave(p) \/ ChannelFailed(p)
  PROVE  BlameInv'
<1> DEFINE r == Stop(p, st[p], {})
           e == World(posts, Cleared, Past)
<1>1. Ready(p, st[p], e) /\ PhoneOK(p, st[p]) /\ p \in Sessions
      /\ DOMAIN st[p] = DOMAIN Fresh
  BY PhoneReady
<1>2. st[p].phase \notin Over /\ Do(p, r, "saved")
  BY DEF Leave, ChannelFailed, Running
<1>3. Fine(p, st[p], r, {})
  BY <1>1, <1>2, StopFine
<1>4. Keeps(st[p], r.s)
  BY <1>1, StopKeeps
<1> HIDE DEF e
<1>5. Fair(p, st[p], r, e)
  BY <1>1, StopFair
<1> HIDE DEF r
<1> QED BY <1>2, <1>3, <1>4, <1>5, KeepsStep DEF e

(* A stage that runs out of time is late, so whoever it names is excused;  *)
(* the phone itself is not among them.                                     *)
LEMMA TimeOutBlame ==
  ASSUME Inv, BlameInv, Inv', NEW p \in Honest, TimeOut(p)
  PROVE  BlameInv'
<1> DEFINE s == st[p]
           t == [s EXCEPT !.late = TRUE]
           who == Stalled(p, s)
           r == Stop(p, t, who)
           e == World(posts, Cleared, Past)
<1>1. Ready(p, s, e) /\ PhoneOK(p, s) /\ p \in Sessions
      /\ DOMAIN s = DOMAIN Fresh
  BY PhoneReady
<1>2. s.phase \notin Over /\ Do(p, r, "saved")
  BY DEF TimeOut, Running
<1>3. who \in SUBSET Sessions /\ p \notin who
  BY <1>1 DEF Stalled, PhoneOK, IsPhone, IsMap
<1> HIDE DEF s
<1>4. IsPhone(t) /\ Alike(s, t) /\ DOMAIN t = DOMAIN Fresh
  BY <1>1 DEF PhoneOK, IsPhone, Fresh, Alike
<1>5. /\ t.late = TRUE /\ t.named = s.named /\ t.views = s.views
      /\ t.myNonces = s.myNonces /\ t.asked = s.asked
      /\ t.cursor = s.cursor /\ t.clears = s.clears
  BY <1>1 DEF Fresh
<1> HIDE DEF t, who, e
<1>6. PhoneOK(p, t) /\ t.phase \notin Over
  BY <1>1, <1>2, <1>4, AlikeLemma DEF PhoneOK, Alike
<1>7. Ready(p, t, e)
  <2>1. View(t) = View(s) /\ PartialSig(t) = PartialSig(s)
    BY <1>4 DEF Alike, View, PartialSig
  <2>2. Heard(t, e) /\ Clean(p, t, e)
    BY <1>1, <1>4, <1>5 DEF Alike, Ready, Good, Heard, Clean
  <2>3. Poised(p, t)
    BY <1>1, <1>4, <1>5, <2>1 DEF Alike, Ready, Good, Poised
  <2>4. Own(t, e.said[p])
    BY <1>1, <1>4, <1>5, <2>1 DEF Alike, Ready, Good, Own
  <2> QED BY <1>1, <1>4, <2>2, <2>3, <2>4 DEF Ready, Good
<1>8. Fair(p, s, r, e)
  <2>1. Fair(p, t, r, e)
    BY <1>3, <1>5, <1>7, StopFair
  <2> HIDE DEF r
  <2> QED BY <1>4, <2>1 DEF Fair, Alike
<1>9. Fine(p, s, r, {})
  <2>1. Fine(p, t, r, {})
    BY <1>1, <1>3, <1>6, StopFine
  <2> HIDE DEF r
  <2> QED BY <1>1, <1>4, <2>1, AlikeLemma DEF PhoneOK
<1>10. Keeps(s, r.s)
  <2>1. Keeps(t, r.s)
    BY <1>4, StopKeeps
  <2> HIDE DEF r
  <2> QED BY <1>4, <1>5, <2>1 DEF Keeps, Alike
<1> HIDE DEF r
<1> QED BY <1>2, <1>8, <1>9, <1>10, KeepsStep DEF e, s

(* register_payout and try_fund take nothing in.                           *)
LEMMA PayKeeps ==
  ASSUME NEW p, NEW s, DOMAIN s = DOMAIN Fresh
  PROVE  Keeps(s, RegisterPayout(p, s).s) /\ Keeps(s, TryFund(s).s)
<1> DEFINE t == [s EXCEPT !.phase = "Payouts"]
           u == [s EXCEPT !.phase = "FundingSigned"]
<1>1. RegisterPayout(p, s).s = t /\ TryFund(s).s \in {s, u}
  BY DEF RegisterPayout, TryFund, Posting, Ok
<1>2. Keeps(s, t)
  BY DEF Keeps, Fresh
<1>3. Keeps(s, u)
  BY DEF Keeps, Fresh
<1>4. Keeps(s, s)
  BY DEF Keeps
<1> HIDE DEF t, u
<1> QED BY <1>1, <1>2, <1>3, <1>4

(* The channel's script lets the phone send its payout.                    *)
LEMMA PayoutGivenBlame ==
  ASSUME Inv, BlameInv, Inv', NEW p \in Honest, PayoutGiven(p)
  PROVE  BlameInv'
<1> DEFINE r == RegisterPayout(p, st[p])
           e == World(posts, Cleared, Past)
<1>1. Ready(p, st[p], e) /\ PhoneOK(p, st[p]) /\ p \in Sessions
      /\ DOMAIN st[p] = DOMAIN Fresh
  BY PhoneReady
<1>2. st[p].phase = "Channel" /\ Do(p, r, "saved")
  BY DEF PayoutGiven
<1>3. p \in DOMAIN st[p].regs
  BY <1>1, <1>2 DEF PhoneOK, Sound
<1>4. Fine(p, st[p], r, {})
  BY <1>1, <1>2, <1>3, RegisterPayoutFine
<1>5. Keeps(st[p], r.s)
  BY <1>1, PayKeeps
<1> HIDE DEF e
<1>6. Fair(p, st[p], r, e)
  BY <1>1, <1>2, RegisterPayoutFair DEF Unpaid
<1> HIDE DEF r
<1> QED BY <1>2, <1>4, <1>5, <1>6, KeepsStep DEF e

(* The saved channel may bring the funding signature.                      *)
LEMMA ChannelSavedBlame ==
  ASSUME Inv, BlameInv, Inv', NEW p \in Honest, ChannelSaved(p)
  PROVE  BlameInv'
<1> DEFINE s == st[p]
           t == [s EXCEPT !.channelSaved = TRUE]
           e == World(posts, Cleared, Past)
<1>1. Ready(p, s, e) /\ PhoneOK(p, s) /\ p \in Sessions
      /\ DOMAIN s = DOMAIN Fresh
  BY PhoneReady
<1>2. \/ t.phase = "Funding" /\ Do(p, TryFund(t), "saved")
      \/ Do(p, Ok(t), "saved")
  BY DEF ChannelSaved
<1> HIDE DEF s
<1>3. IsPhone(t) /\ Alike(s, t) /\ DOMAIN t = DOMAIN Fresh
  BY <1>1 DEF PhoneOK, IsPhone, Fresh, Alike
<1>4. Same(s, t) /\ Keeps(s, t)
  BY <1>1 DEF Fresh, Same, Keeps
<1> HIDE DEF t, e
<1>5. PhoneOK(p, t) /\ Ready(p, t, e)
  BY <1>1, <1>3, <1>4, AlikeLemma, SameLemma DEF PhoneOK, Ready
<1>6. ASSUME NEW r, r = Ok(t) \/ (t.phase = "Funding" /\ r = TryFund(t))
      PROVE  Fair(p, s, r, e) /\ Fine(p, s, r, {}) /\ Keeps(s, r.s)
  <2>1. Fair(p, t, r, e)
    BY <1>5, <1>6, OkFair, TryFundFair
  <2>2. Fine(p, t, r, {})
    BY <1>1, <1>5, <1>6, OkFine, TryFundFine
  <2>3. Keeps(t, r.s)
    BY <1>3, <1>6, StopKeeps, PayKeeps
  <2>4. Fair(p, s, r, e)
    BY <1>4, <2>1 DEF Fair, Same
  <2>5. Fine(p, s, r, {})
    BY <1>1, <1>3, <2>2, AlikeLemma DEF PhoneOK
  <2> QED BY <1>4, <2>3, <2>4, <2>5 DEF Keeps
<1> DEFINE r1 == TryFund(t)
           r2 == Ok(t)
<1>7. \/ t.phase = "Funding" /\ Do(p, r1, "saved")
      \/ Do(p, r2, "saved")
  BY <1>2
<1>8. r1 = TryFund(t) /\ r2 = Ok(t)
  OBVIOUS
<1> HIDE DEF r1, r2
<1>9. t.phase = "Funding" =>
        Fair(p, s, r1, e) /\ Fine(p, s, r1, {}) /\ Keeps(s, r1.s)
  BY <1>6, <1>8
<1>10. Fair(p, s, r2, e) /\ Fine(p, s, r2, {}) /\ Keeps(s, r2.s)
  BY <1>6, <1>8
<1> QED BY <1>7, <1>9, <1>10, KeepsStep DEF e, s

(* The coins of the others were asked for once the list was complete, and  *)
(* a good coin does not fail: whoever is named is not honest.              *)
LEMMA CoinResultsBlame ==
  ASSUME Inv, BlameInv, Inv', NEW p \in Honest, NEW bad, NEW none,
         CoinResults(p, bad, none)
  PROVE  BlameInv'
<1> DEFINE s == st[p]
           t == [s EXCEPT !.asked = {}]
           r == OnCoins(p, t, bad, none)
           e == World(posts, Cleared, Past)
<1>1. Ready(p, s, e) /\ PhoneOK(p, s) /\ p \in Sessions
      /\ DOMAIN s = DOMAIN Fresh
  BY PhoneReady
<1>2. /\ s.phase \notin Over /\ Do(p, r, "saved")
      /\ bad \subseteq s.asked /\ none \subseteq s.asked
      /\ \A c \in bad : c = p \/ s.regs[c] # "good"
  BY DEF CoinResults, Running, CanFail
<1> HIDE DEF s
<1>3. bad \in SUBSET Sessions /\ none \in SUBSET Sessions
      /\ bad \subseteq DOMAIN s.regs
  BY <1>1, <1>2 DEF PhoneOK, IsPhone, IsMap
<1>4. IsPhone(t) /\ Alike(s, t) /\ DOMAIN t = DOMAIN Fresh
  BY <1>1 DEF PhoneOK, IsPhone, Fresh, Alike
<1>5. Same(s, t) /\ Keeps(s, t)
  BY <1>1 DEF Fresh, Same, Keeps
<1> HIDE DEF t, e
<1>6. PhoneOK(p, t) /\ Ready(p, t, e) /\ t.phase \notin Over
  BY <1>1, <1>2, <1>4, <1>5, AlikeLemma, SameLemma DEF PhoneOK, Ready, Same
<1>7. ASSUME t.phase = "Inputs", NEW c \in bad, c \in Honest PROVE FALSE
  <2>1. p \notin s.asked
    BY <1>1, <1>5, <1>7 DEF Ready, Good, Poised, Same
  <2>2. s.regs[c] # "good" /\ c \in DOMAIN s.regs
    BY <1>2, <1>3, <1>7, <2>1
  <2>3. M("inputs", s.regs[c]) \in e.said[c] /\ Word(e.said[c], e)
    BY <1>1, <1>7, <2>2 DEF Ready, Good, Heard, IsWorld
  <2>4. Kind(M("inputs", s.regs[c])) = "inputs"
        /\ Val(M("inputs", s.regs[c])) = s.regs[c]
    BY MsgLemma
  <2> QED BY <2>2, <2>3, <2>4 DEF Word
<1>8. Fair(p, s, r, e)
  <2>1. t.phase = "Inputs" => bad \cap Honest = {}
    BY <1>7
  <2>2. Fair(p, t, r, e)
    BY <1>6, <2>1, OnCoinsFair
  <2> HIDE DEF r
  <2> QED BY <1>5, <2>2 DEF Fair, Same
<1>9. Fine(p, s, r, {})
  <2>1. Fine(p, t, r, {})
    BY <1>1, <1>3, <1>6, OnCoinsFine
  <2> HIDE DEF r
  <2> QED BY <1>1, <1>4, <2>1, AlikeLemma DEF PhoneOK
<1>10. Keeps(s, r.s)
  <2> DEFINE u == [t EXCEPT !.recheckOk = TRUE]
             v == [t EXCEPT !.phase = "Channel"]
  <2>1. \/ r \in {Ok(t), Stop(p, t, {}), Stop(p, t, bad), TryFund(u), Ok(v)}
        \/ r = RegisterPayout(p, t)
    BY DEF OnCoins
  <2>2. Keeps(t, u) /\ DOMAIN u = DOMAIN Fresh
    BY <1>4 DEF Keeps, Fresh
  <2>3. Keeps(t, v) /\ DOMAIN v = DOMAIN Fresh
    BY <1>4 DEF Keeps, Fresh
  <2> HIDE DEF r, u, v
  <2>4. Keeps(t, Ok(t).s) /\ Keeps(t, Stop(p, t, {}).s)
        /\ Keeps(t, Stop(p, t, bad).s) /\ Keeps(t, RegisterPayout(p, t).s)
    BY <1>4, StopKeeps, PayKeeps
  <2>5. Keeps(u, TryFund(u).s) /\ Keeps(v, Ok(v).s)
    BY <2>2, <2>3, StopKeeps, PayKeeps
  <2>6. Keeps(t, TryFund(u).s) /\ Keeps(t, Ok(v).s)
    BY <2>2, <2>3, <2>5 DEF Keeps
  <2>7. Keeps(t, r.s)
    BY <2>1, <2>4, <2>6
  <2> QED BY <1>5, <2>7 DEF Keeps
<1> HIDE DEF r
<1> QED BY <1>2, <1>8, <1>9, <1>10, KeepsStep DEF e, s

(* A payout read is one that its member sent, so this phone's own is not   *)
(* among those it holds before it has sent it.                             *)
LEMMA HearFair ==
  ASSUME Inv, BlameInv, NEW p \in Honest, NEW out \in Outputs,
         out.image \in Past, st[p].phase \notin Over, NEW r,
         r = OnOutput(p, [st[p] EXCEPT !.heard = @ \cup {out}], out)
  PROVE  /\ Fair(p, st[p], r, World(posts, Cleared, Past))
         /\ Fine(p, st[p], r, {}) /\ Keeps(st[p], r.s)
         /\ r.err => /\ Fair(p, st[p], Ok(r.s), World(posts, Cleared, Past))
                     /\ Fine(p, st[p], Ok(r.s), {}) /\ Keeps(st[p], Ok(r.s).s)
<1> DEFINE s == st[p]
           t == [s EXCEPT !.heard = @ \cup {out}]
           e == World(posts, Cleared, Past)
<1>1. Ready(p, s, e) /\ PhoneOK(p, s) /\ p \in Sessions
      /\ DOMAIN s = DOMAIN Fresh
  BY PhoneReady
<1>2. r = OnOutput(p, t, out) /\ s.phase \notin Over
  OBVIOUS
<1>3. Fine(p, s, r, {}) /\ Fine(p, s, Ok(r.s), {})
  BY <1>1, <1>2, PayoutFine
<1> HIDE DEF s
<1>4. DOMAIN t = DOMAIN Fresh /\ Same(s, t) /\ Keeps(s, t)
  BY <1>1 DEF Fresh, Same, Keeps
<1>5. out.image \in e.paid
  BY WorldParts
<1> HIDE DEF t, e
<1>6. Ready(p, t, e)
  BY <1>1, <1>4, SameLemma DEF Ready
<1>7. Fair(p, t, r, e)
  BY <1>2, <1>5, <1>6, OnOutputFair
<1>8. Fair(p, s, r, e)
  BY <1>4, <1>7 DEF Fair, Same
<1>9. Keeps(s, r.s)
  <2>1. Keeps(t, r.s)
    BY <1>2, <1>4, OthersKeep
  <2> QED BY <1>4, <2>1 DEF Keeps
<1>10. ASSUME r.err PROVE Fair(p, s, Ok(r.s), e) /\ Keeps(s, Ok(r.s).s)
  <2>1. r.post = <<>>
    <3>1. Handle(p, t, p, M("output", out)) = OnOutput(p, t, out)
      BY MsgLemma DEF Handle
    <3> QED BY <1>2, <1>10, <3>1, ErrPostsNothing
  <2>2. Ok(r.s).s = r.s /\ Ok(r.s).post = <<>> /\ Ok(r.s).pay = {}
    BY DEF Ok
  <2> QED BY <1>8, <1>9, <2>1, <2>2 DEF Fair
<1> QED BY <1>3, <1>8, <1>9, <1>10 DEF s, e

(* Reading a payout keeps the invariant.                                   *)
LEMMA ReadPayoutBlame ==
  ASSUME Inv, BlameInv, Inv', NEW p \in Honest, NEW out \in payouts,
         ReadPayout(p, out)
  PROVE  BlameInv'
<1> DEFINE r == OnOutput(p, [st[p] EXCEPT !.heard = @ \cup {out}], out)
           r2 == Ok(r.s)
           e == World(posts, Cleared, Past)
<1>1. out \in Outputs /\ out.image \in Past
  BY DEF Inv, TypeOK, BlameInv, PaidFor
<1>2. st[p].phase \notin Over
  BY DEF ReadPayout, Running
<1>3. Do(p, r, "saved") \/ (r.err /\ Do(p, r2, "saved"))
  BY DEF ReadPayout
<1>4. /\ Fair(p, st[p], r, e) /\ Fine(p, st[p], r, {}) /\ Keeps(st[p], r.s)
      /\ r.err => /\ Fair(p, st[p], r2, e) /\ Fine(p, st[p], r2, {})
                  /\ Keeps(st[p], r2.s)
  <2> HIDE DEF e
  <2> QED BY <1>1, <1>2, HearFair DEF e
<1> HIDE DEF r, r2
<1> QED BY <1>3, <1>4, KeepsStep

(* So does one that a session not honest sends: it carries its own image.  *)
LEMMA ForgePayoutBlame ==
  ASSUME Inv, BlameInv, Inv', NEW b \in Byzantine, NEW p \in Honest,
         NEW addr \in Addrs \cup {b}, ForgePayout(b, p, addr)
  PROVE  BlameInv'
<1> DEFINE out == Output(b, addr)
           r == OnOutput(p, [st[p] EXCEPT !.heard = @ \cup {out}], out)
           paid == payouts \cup {out}
           e == World(posts, Cleared, Past)
<1>1. b \in Sessions /\ b \notin Honest
  BY DEF Byzantine
<1>2. out \in Outputs /\ out.image = b /\ b \in Past
  BY <1>1 DEF Output, Outputs, Scripts, Past
<1>3. st[p].phase \notin Over /\ DoWith(p, r, "saved", posts, paid)
  BY DEF ForgePayout, Running
<1> HIDE DEF out
<1>4. Fair(p, st[p], r, e) /\ Fine(p, st[p], r, {}) /\ Keeps(st[p], r.s)
  BY <1>2, <1>3, HearFair
<1>5. StartsFrom(posts) /\ PaidFor(posts, paid)
  BY <1>2, PostsStart DEF StartsFrom, PaidFor
<1> HIDE DEF r, paid
<1>6. History(r.s, posts) /\ Seated(p, r.s) /\ r.s.clears = st[p].clears
  BY <1>4, KeepsHistory DEF BlameInv, Keeps
<1> QED BY <1>3, <1>4, <1>5, <1>6, DoFair

(* What counting a post as read changes, and what it does not.             *)
LEMMA SeenParts ==
  ASSUME NEW s, IsPhone(s), NEW q \in Sessions
  PROVE  /\ Same(s, Seen(s, q)) /\ DOMAIN Seen(s, q) = DOMAIN Fresh
         /\ Seen(s, q).clears = s.clears
         /\ Seen(s, q).cursor[q] = s.cursor[q] + 1
         /\ \A x \in Sessions : x # q => Seen(s, q).cursor[x] = s.cursor[x]
  BY DEF Seen, IsPhone, Fresh, Same

(* A list of registrations that is open was open before it grew.           *)
LEMMA OpenBefore ==
  ASSUME NEW f, NEW g, DOMAIN g \subseteq Sessions,
         DOMAIN f \subseteq DOMAIN g, Count(g) < N
  PROVE  Count(f) < N
<1>1. IsFiniteSet(DOMAIN g)
  BY FS_Subset, PoolAssumption
<1>2. IsFiniteSet(DOMAIN f) /\ Cardinality(DOMAIN f) <= Cardinality(DOMAIN g)
  BY <1>1, FS_Subset
<1>3. /\ Cardinality(DOMAIN f) \in Nat /\ Cardinality(DOMAIN g) \in Nat
      /\ N \in Nat
  BY <1>1, <1>2, FS_CardinalityType, PoolAssumption
<1> QED BY <1>2, <1>3 DEF Count

(* A post read in order leaves the history of what was read in order.      *)
LEMMA ReadHistory ==
  ASSUME NEW s, IsPhone(s), NEW log, IsLog(log), NEW q \in Sessions,
         s.cursor[q] < Len(log[q]), NEW m, m = log[q][s.cursor[q] + 1],
         NEW t, IsPhone(t), Intake(Seen(s, q), t, q, m), History(s, log)
  PROVE  History(t, log)
<1> DEFINE z == Seen(s, q)
<1> SUFFICES ASSUME t.clears = 0, NEW x \in Sessions
             PROVE  ReadSo(t, log[x], x)
  BY DEF History
<1>1. /\ z.regs = s.regs /\ z.nonces = s.nonces /\ z.phase = s.phase
      /\ z.clears = s.clears /\ z.cursor[q] = s.cursor[q] + 1
      /\ \A y \in Sessions : y # q => z.cursor[y] = s.cursor[y]
  BY SeenParts DEF Same
<1>2. Intake(z, t, q, m)
  OBVIOUS
<1> HIDE DEF z
<1>3. ReadSo(s, log[x], x)
  BY <1>1, <1>2 DEF Intake, History
<1>4. Count(t.regs) < N => Count(s.regs) < N
  BY <1>1, <1>2, OpenBefore DEF Intake, IsPhone, IsMap
<1> DEFINE sq == log[x]
           c == s.cursor[x]
<1>5. Len(sq) \in Nat /\ c \in Nat /\ c <= Len(sq)
  BY <1>3 DEF IsLog, IsPhone, ReadSo
<1>6. CASE x # q
  <2>1. t.cursor[x] = c
    BY <1>1, <1>2, <1>6 DEF Intake
  <2>2. x \in DOMAIN t.regs <=> x \in DOMAIN s.regs
    BY <1>1, <1>2, <1>6 DEF Intake
  <2>3. /\ x \notin DOMAIN t.nonces => x \notin DOMAIN s.nonces
        /\ t.phase = "Inputs" => s.phase = "Inputs"
    BY <1>1, <1>2 DEF Intake
  <2> QED BY <1>3, <1>4, <2>1, <2>2, <2>3 DEF ReadSo
<1>7. CASE x = q
  <2>1. t.cursor[x] = c + 1 /\ c < Len(sq) /\ m = sq[c + 1]
    BY <1>1, <1>2, <1>7 DEF Intake
  <2>2. c + 1 \in 1..Len(sq) /\ c + 1 <= Len(sq)
    BY <1>5, <2>1
  <2>3. \A i \in 1..Len(sq) : i <= c + 1 => i <= c \/ i = c + 1
    BY <1>5
  <2>4. \A i \in 1..Len(sq) : i <= c => i <= c + 1
    BY <1>5
  <2>5. \A i, j \in 1..Len(sq) : i < j /\ j <= c + 1 => i <= c
    BY <1>5
  <2>6. /\ q \in DOMAIN s.regs => q \in DOMAIN t.regs
        /\ q \in DOMAIN t.regs \ DOMAIN s.regs =>
             Kind(m) = "inputs" /\ s.phase = "Inputs" /\ Count(s.regs) < N
        /\ q \notin DOMAIN t.nonces => q \notin DOMAIN s.nonces
        /\ t.phase = "Inputs" => s.phase = "Inputs"
        /\ Kind(m) = "nonces" /\ q \in DOMAIN s.regs => q \in DOMAIN t.nonces
        /\ Kind(m) = "inputs" /\ t.phase = "Inputs" /\ Count(t.regs) < N =>
             q \in DOMAIN t.regs
    BY <1>1, <1>2 DEF Intake
  <2> HIDE DEF sq, c
  <2>7. q \in DOMAIN t.regs =>
          \E i \in 1..Len(sq) : i <= c + 1 /\ Kind(sq[i]) = "inputs"
    <3>1. CASE q \in DOMAIN s.regs
      BY <1>3, <1>7, <2>4, <3>1 DEF ReadSo, sq, c
    <3>2. CASE q \in DOMAIN t.regs \ DOMAIN s.regs
      BY <1>5, <2>1, <2>2, <2>6, <3>2
    <3> QED BY <3>1, <3>2
  <2>8. ASSUME t.phase = "Inputs", Count(t.regs) < N, q \notin DOMAIN t.regs,
               NEW i \in 1..Len(sq), i <= c + 1
        PROVE  Kind(sq[i]) # "inputs"
    <3>1. s.phase = "Inputs" /\ Count(s.regs) < N /\ q \notin DOMAIN s.regs
      BY <1>4, <2>6, <2>8
    <3>2. CASE i <= c
      BY <1>3, <1>7, <3>1, <3>2 DEF ReadSo, sq, c
    <3>3. CASE i = c + 1
      BY <2>1, <2>6, <2>8, <3>1, <3>3
    <3> QED BY <2>3, <2>8, <3>2, <3>3
  <2>9. ASSUME q \in DOMAIN t.regs \ DOMAIN t.nonces,
               NEW i \in 1..Len(sq), NEW j \in 1..Len(sq),
               i < j, j <= c + 1, Kind(sq[i]) = "inputs"
        PROVE  Kind(sq[j]) # "nonces"
    <3>1. i <= c
      BY <2>5, <2>9
    <3>2. q \in DOMAIN s.regs \ DOMAIN s.nonces
      <4>1. ASSUME q \notin DOMAIN s.regs PROVE FALSE
        <5>1. s.phase = "Inputs" /\ Count(s.regs) < N
          BY <2>6, <2>9, <4>1
        <5> QED BY <1>3, <1>7, <2>9, <3>1, <4>1, <5>1 DEF ReadSo, sq, c
      <4> QED BY <2>6, <2>9, <4>1
    <3>3. CASE j <= c
      BY <1>3, <1>7, <2>9, <3>2, <3>3 DEF ReadSo, sq, c
    <3>4. CASE j = c + 1
      BY <2>1, <2>6, <2>9, <3>2, <3>4
    <3> QED BY <2>3, <2>9, <3>3, <3>4
  <2>10. ReadSo(t, sq, q)
    BY <1>7, <2>1, <2>2, <2>7, <2>8, <2>9 DEF ReadSo
  <2> QED BY <1>7, <2>10 DEF sq
<1> QED BY <1>6, <1>7

(* The nonces a phone takes are the first after a registration, as long as *)
(* it has forgotten nothing.                                               *)
LEMMA TakenNonces ==
  ASSUME NEW s, IsPhone(s), NEW log, IsLog(log), NEW q \in Sessions,
         s.cursor[q] < Len(log[q]), NEW m, m = log[q][s.cursor[q] + 1],
         History(s, log), NEW cleared \in BOOLEAN, NEW past,
         ~cleared => s.clears = 0,
         Kind(m) = "nonces", q \in DOMAIN s.regs \ DOMAIN s.nonces
  PROVE  <<q, Val(m)>> \in World(log, cleared, past).nonces
<1> DEFINE sq == log[q]
           c == s.cursor[q]
<1>1. Len(sq) \in Nat /\ c \in Nat /\ c < Len(sq) /\ m = sq[c + 1]
  BY DEF IsLog, IsPhone
<1>2. c + 1 \in 1..Len(sq)
  BY <1>1
<1>3. m \in Elems(sq) /\ IsMessage(m)
  BY <1>1, <1>2 DEF Elems, IsLog
<1>4. m = M("nonces", Val(m)) /\ Val(m) \in Nonces
  BY <1>3 DEF IsMessage
<1>5. ASSUME s.clears = 0 PROVE FirstNonces(sq, c + 1)
  <2>1. ReadSo(s, sq, q)
    BY <1>5 DEF History
  <2>2. \A i \in 1..Len(sq) : i <= c => i < c + 1
    BY <1>1
  <2>3. \A i \in 1..Len(sq) : i < c + 1 => i <= c
    BY <1>1
  <2> HIDE DEF sq
  <2>4. \E j \in 1..Len(sq) : j < c + 1 /\ Kind(sq[j]) = "inputs"
    BY <2>1, <2>2 DEF ReadSo
  <2>5. \A k \in 1..Len(sq) : k < c + 1 /\ Kind(sq[k]) = "nonces" =>
          \A j \in 1..Len(sq) : j < k => Kind(sq[j]) # "inputs"
    BY <2>1, <2>3 DEF ReadSo
  <2> QED BY <1>1, <1>2, <2>4, <2>5 DEF FirstNonces
<1>6. Takes(sq, Val(m), cleared)
  BY <1>1, <1>2, <1>3, <1>4, <1>5 DEF Takes
<1> QED BY <1>4, <1>6, WorldParts

(* Reading the next post of a session keeps the invariant.                 *)
LEMMA ReadStep ==
  ASSUME Inv, BlameInv, Inv', NEW p \in Honest, NEW q \in Sessions, NEW save,
         NEW log, StartsFrom(log), st[p].phase \notin {"Stopped", "Closed"},
         st[p].cursor[q] < Len(log[q]),
         NEW m, m = log[q][st[p].cursor[q] + 1],
         DoWith(p, Read(p, Seen(st[p], q), q, m), save, log, payouts)
  PROVE  BlameInv'
<1> DEFINE s == st[p]
           z == Seen(s, q)
           r == Read(p, z, q, m)
           e == World(log, Cleared, Past)
           sigs == {<<q, Val(m)>>}
<1>1. /\ Ready(p, s, e) /\ PhoneOK(p, s) /\ p \in Sessions
      /\ History(s, log) /\ Seated(p, s)
      /\ IsWorld(e) /\ \A x \in Sessions : e.said[x] = Elems(log[x])
  BY AllReady, PoolAssumption
<1>2. PhoneOK(p, z) /\ Alike(s, z) /\ Same(s, z) /\ DOMAIN z = DOMAIN Fresh
      /\ z.clears = s.clears
  BY <1>1, SeenLemma, SeenParts DEF PhoneOK
<1>3. IsLog(log) /\ IsPhone(s) /\ Cleared \in BOOLEAN /\ (~Cleared => s.clears = 0)
  BY <1>1 DEF StartsFrom, PhoneOK, Cleared, IsPhone
<1>4. m \in Elems(log[q]) /\ IsMessage(m)
  <2>1. s.cursor[q] \in Nat /\ Len(log[q]) \in Nat /\ s.cursor[q] < Len(log[q])
    BY <1>3 DEF IsPhone, IsLog
  <2>2. s.cursor[q] + 1 \in 1..Len(log[q])
    BY <2>1
  <2> QED BY <1>3, <2>2 DEF Elems, IsLog
<1>5. /\ s.cursor[q] < Len(log[q]) /\ m = log[q][s.cursor[q] + 1]
      /\ s.phase \notin {"Stopped", "Closed"}
      /\ DoWith(p, r, save, log, payouts)
  OBVIOUS
<1> HIDE DEF s
<1>6. Told(z, q, m, e)
  <2>1. Kind(m) = "nonces" /\ q \in DOMAIN s.regs \ DOMAIN s.nonces =>
          <<q, Val(m)>> \in e.nonces
    BY <1>1, <1>3, <1>5, TakenNonces
  <2> HIDE DEF z, e
  <2> QED BY <1>1, <1>2, <1>4, <2>1 DEF Told, Same
<1>7. Intake(z, r.s, q, m) /\ Seated(p, r.s)
  <2>1. z.phase \notin {"Stopped", "Closed"} /\ Seated(p, z)
    BY <1>1, <1>2, <1>5 DEF Same, Seated
  <2> HIDE DEF z
  <2> QED BY <1>1, <1>2, <1>4, <2>1, ReadIntake
<1>8. Fine(p, s, r, sigs)
  <2> HIDE DEF z
  <2>1. Fine(p, z, r, sigs)
    BY <1>1, <1>2, <1>4, ReadFine
  <2> HIDE DEF r, sigs
  <2> QED BY <1>1, <1>2, <2>1, AlikeLemma DEF PhoneOK
<1>9. Fair(p, s, r, e)
  <2> HIDE DEF z, e
  <2>1. Ready(p, z, e)
    BY <1>1, <1>2, SameLemma DEF Ready
  <2>2. Fair(p, z, r, e)
    BY <1>2, <1>6, <2>1, ReadFair
  <2> HIDE DEF r
  <2> QED BY <1>2, <2>2 DEF Fair, Same
<1>10. History(r.s, log)
  <2>1. IsPhone(r.s)
    BY <1>8 DEF Fine, Moves, PhoneOK
  <2> HIDE DEF r
  <2> QED BY <1>1, <1>3, <1>5, <1>7, <2>1, ReadHistory
<1>11. r.s.clears = s.clears
  BY <1>2, <1>7 DEF Intake
<1>12. PaidFor(log, payouts)
  BY DEF StartsFrom
<1> HIDE DEF r, sigs, z
<1> QED BY <1>5, <1>7, <1>8, <1>9, <1>10, <1>11, <1>12, DoFair DEF s

(* Reading a post of the state's logs keeps the invariant.                 *)
LEMMA ReadPostBlame ==
  ASSUME Inv, BlameInv, Inv', NEW p \in Honest, NEW q \in Sessions, NEW save,
         ReadPost(p, q, save)
  PROVE  BlameInv'
<1> DEFINE m == posts[q][st[p].cursor[q] + 1]
<1>1. /\ st[p].phase \notin {"Stopped", "Closed"}
      /\ st[p].cursor[q] < Len(posts[q])
      /\ DoWith(p, Read(p, Seen(st[p], q), q, m), save, posts, payouts)
  BY DEF ReadPost, Listening, Do
<1>2. m = posts[q][st[p].cursor[q] + 1]
  OBVIOUS
<1> HIDE DEF m
<1> QED BY <1>1, <1>2, PostsStart, ReadStep

(* So does reading what a session not honest posts in the same step: its   *)
(* payouts carry its own image.                                            *)
LEMMA ForgeBlame ==
  ASSUME Inv, BlameInv, Inv', NEW b \in Byzantine, NEW p \in Honest,
         NEW m \in Forgeries(b), Forge(b, p, m)
  PROVE  BlameInv'
<1> DEFINE log == [posts EXCEPT ![b] = Append(@, m)]
<1>0. IsMessage(m)
  BY ForgeryIsMessage
<1>1. b \in Sessions /\ b \notin Honest
  BY DEF Byzantine
<1>2. StartsFrom(posts)
  BY PostsStart
<1>3. /\ DOMAIN log = Sessions /\ log[b] = Append(posts[b], m)
      /\ \A q \in Sessions : q # b => log[q] = posts[q]
  BY <1>1, <1>2 DEF StartsFrom
<1>4. /\ st[p].phase \notin {"Stopped", "Closed"}
      /\ st[p].cursor[b] = Len(posts[b])
  BY DEF Forge, Listening
<1>5. PICK save : DoWith(p, Read(p, Seen(st[p], b), b, m), save, log, payouts)
  BY DEF Forge
<1> HIDE DEF log
<1>6. posts[b] \in Seq(Elems(posts[b]))
  BY <1>1, <1>2 DEF StartsFrom, IsLog
<1>7. /\ log[b] \in Seq(Elems(log[b])) /\ Elems(log[b]) = Elems(posts[b]) \cup {m}
  BY <1>3, <1>6, AppendLemma
<1>8. /\ Len(posts[b]) \in Nat /\ Len(log[b]) = Len(posts[b]) + 1
      /\ log[b][Len(posts[b]) + 1] = m
      /\ \A i \in 1..Len(posts[b]) : log[b][i] = posts[b][i]
  BY <1>3, <1>6
<1>9. Extends(posts[b], log[b])
  BY <1>8 DEF Extends
<1>10. Kind(m) = "output" => Val(m).image = b
  <2>1. ASSUME NEW kind, NEW vals, m \in OfKind(kind, vals)
        PROVE  Kind(m) = kind /\ Val(m) \in vals
    <3>1. PICK v \in vals : m = M(kind, v)
      BY <2>1 DEF OfKind
    <3> QED BY <3>1 DEF M, Kind, Val
  <2>2. ASSUME Kind(m) = "output"
        PROVE  m \in OfKind("output", {Output(b, addr) : addr \in Addrs \cup {b}})
    BY <2>1, <2>2 DEF Forgeries
  <2>3. \A addr : Output(b, addr).image = b
    BY DEF Output
  <2> QED BY <2>1, <2>2, <2>3
<1>11. StartsFrom(log)
  <2>1. IsLog(log)
    <3> SUFFICES ASSUME NEW q \in Sessions
                 PROVE  /\ log[q] \in Seq(Elems(log[q]))
                        /\ \A k \in Elems(log[q]) : IsMessage(k)
      BY DEF IsLog
    <3>1. CASE q = b
      BY <1>0, <1>1, <1>2, <1>7, <3>1 DEF StartsFrom, IsLog
    <3>2. CASE q # b
      BY <1>2, <1>3, <3>2 DEF StartsFrom, IsLog
    <3> QED BY <3>1, <3>2
  <2>2. \A q \in Sessions : Extends(posts[q], log[q])
    BY <1>2, <1>3, <1>9 DEF StartsFrom
  <2>3. \A q \in Honest : log[q] = posts[q]
    BY <1>1, <1>3, PoolAssumption
  <2>4. PaidFor(log, payouts)
    <3>1. PaidFor(posts, payouts)
      BY DEF BlameInv
    <3>2. ASSUME NEW q \in Byzantine, NEW k \in Elems(log[q]),
                 Kind(k) = "output"
          PROVE  Val(k).image = q
      <4>1. q \in Sessions
        BY DEF Byzantine
      <4>2. CASE q # b
        BY <1>3, <3>1, <3>2, <4>1, <4>2 DEF PaidFor
      <4>3. CASE q = b
        BY <1>7, <1>10, <3>1, <3>2, <4>3 DEF PaidFor
      <4> QED BY <4>2, <4>3
    <3> QED BY <3>1, <3>2 DEF PaidFor
  <2> QED BY <1>3, <2>1, <2>2, <2>3, <2>4 DEF StartsFrom
<1>12. st[p].cursor[b] < Len(log[b]) /\ m = log[b][st[p].cursor[b] + 1]
  BY <1>4, <1>8
<1> QED BY <1>1, <1>4, <1>5, <1>11, <1>12, ReadStep

(* Forgetting the events seen: from now on any nonces may be taken.        *)
LEMMA ClearSeenBlame ==
  ASSUME Inv, BlameInv, Inv', NEW p \in Honest, ClearSeen(p)
  PROVE  BlameInv'
<1> DEFINE t == [st[p] EXCEPT !.clears = @ + 1, !.heard = {},
                              !.cursor = [q \in Sessions |-> 0]]
           e == World(posts, Cleared, Past)
           e2 == World(posts, Cleared', Past')
<1>1. PhoneOK(p, st[p]) /\ DOMAIN st[p] = DOMAIN Fresh /\ DOMAIN st = Honest
  BY PhoneReady DEF Inv, TypeOK
<1>2. st' = [st EXCEPT ![p] = t] /\ UNCHANGED <<posts, payouts>>
  BY <1>1 DEF ClearSeen
<1>3. Same(st[p], t) /\ t.clears = st[p].clears + 1 /\ st[p].clears \in Nat
  BY <1>1 DEF Same, Fresh, PhoneOK, IsPhone
<1> HIDE DEF t
<1>4. st'[p] = t /\ \A q \in Honest : q # p => st'[q] = st[q]
  BY <1>1, <1>2
<1>5. t.clears > 0 /\ t.clears # 0
  BY <1>3
<1>6. Cleared' = TRUE /\ Cleared \in BOOLEAN
  BY <1>4, <1>5 DEF Cleared
<1>7. Past' = Past
  BY <1>3, <1>4 DEF Past, Same
<1>8. IsLog(posts) /\ \A q \in Sessions : Extends(posts[q], posts[q])
  BY PostsStart DEF StartsFrom
<1>9. Grows(e, e2)
  BY <1>6, <1>7, <1>8, WorldGrows
<1> HIDE DEF e, e2
<1>10. ASSUME NEW q \in Honest
       PROVE  /\ Good(q, st'[q], Elems(posts[q]), e2)
              /\ History(st'[q], posts) /\ Seated(q, st'[q])
  <2>1. /\ Good(q, st[q], Elems(posts[q]), e) /\ History(st[q], posts)
        /\ Seated(q, st[q]) /\ PhoneOK(q, st[q])
    BY PhoneReady DEF BlameInv, e
  <2>2. Good(q, st[q], Elems(posts[q]), e2)
    BY <1>9, <2>1, GoodGrows
  <2>3. CASE q # p
    BY <1>4, <2>1, <2>2, <2>3
  <2>4. CASE q = p
    <3>1. Good(p, t, Elems(posts[p]), e2)
      BY <1>3, <2>2, <2>4, SameLemma
    <3>2. History(t, posts) /\ Seated(p, t)
      BY <1>3, <1>5, <2>1, <2>4 DEF History, Seated, Same
    <3> QED BY <1>4, <2>4, <3>1, <3>2
  <2> QED BY <2>3, <2>4
<1>11. PaidFor(posts, payouts)'
  BY <1>2, <1>7 DEF BlameInv, PaidFor, Elems
<1>12. ASSUME NEW q \in Honest
       PROVE  /\ Good(q, st'[q], Elems(posts'[q]), World(posts', Cleared', Past'))
              /\ History(st'[q], posts') /\ Seated(q, st'[q])
  BY <1>2, <1>10 DEF e2
<1> QED BY <1>11, <1>12 DEF BlameInv

(* A page closed leaves whom it named and whether it was late.             *)
LEMMA CloseBlame ==
  ASSUME Inv, BlameInv, Inv', NEW p \in Honest, Close(p)
  PROVE  BlameInv'
<1> DEFINE t == Gone(st[p], "Closed")
           e == World(posts, Cleared, Past)
           e2 == World(posts, Cleared', Past')
<1>1. DOMAIN st = Honest
  BY DEF Inv, TypeOK
<1>2. st' = [st EXCEPT ![p] = t] /\ UNCHANGED <<posts, payouts>>
  BY DEF Close
<1>3. IsLog(posts) /\ \A q \in Sessions : Extends(posts[q], posts[q])
  BY PostsStart DEF StartsFrom
<1>4. /\ Good(p, t, Elems(posts[p]), e) /\ History(t, posts) /\ Seated(p, t)
      /\ t.clears = st[p].clears /\ t.phase = "Closed"
  <2>1. Good(p, st[p], Elems(posts[p]), e)
    BY DEF BlameInv
  <2>2. t.phase = "Closed"
    BY DEF Gone, Fresh
  <2> HIDE DEF e
  <2> QED BY <1>3, <2>1, <2>2, GoneGood DEF Good
<1> HIDE DEF t
<1>5. st'[p] = t /\ \A q \in Honest : q # p => st'[q] = st[q]
  BY <1>1, <1>2
<1>6. Cleared' = Cleared /\ Cleared \in BOOLEAN
  BY <1>4, <1>5 DEF Cleared
<1>7. Past \subseteq Past'
  BY <1>4, <1>5 DEF Past, Unpaid
<1>8. Grows(e, e2)
  BY <1>3, <1>6, <1>7, WorldGrows
<1> HIDE DEF e, e2
<1>9. ASSUME NEW q \in Honest
      PROVE  /\ Good(q, st'[q], Elems(posts[q]), e2)
             /\ History(st'[q], posts) /\ Seated(q, st'[q])
  <2>1. PhoneOK(q, st'[q])
    BY DEF Inv, TypeOK, PhoneOK
  <2>2. /\ Good(q, st'[q], Elems(posts[q]), e)
        /\ History(st'[q], posts) /\ Seated(q, st'[q])
    BY <1>4, <1>5 DEF BlameInv, e
  <2> QED BY <1>8, <2>1, <2>2, GoodGrows
<1>10. PaidFor(posts, payouts)'
  BY <1>2, <1>7 DEF BlameInv, PaidFor, Elems
<1>11. ASSUME NEW q \in Honest
       PROVE  /\ Good(q, st'[q], Elems(posts'[q]), World(posts', Cleared', Past'))
              /\ History(st'[q], posts') /\ Seated(q, st'[q])
  BY <1>2, <1>9 DEF e2
<1> QED BY <1>10, <1>11 DEF BlameInv

(* It holds when the pool opens: nothing but good registrations is said,   *)
(* and nothing is read.                                                    *)
LEMMA InitBlame == Init => BlameInv
<1> SUFFICES ASSUME Init PROVE BlameInv
  OBVIOUS
<1> DEFINE reg == Inputs("good")
           e == World(posts, Cleared, Past)
<1>1. /\ \A p \in Honest : st[p] = Fresh /\ posts[p] = <<reg>>
      /\ \A q \in Sessions : q \notin Honest => posts[q] = <<>>
      /\ payouts = {}
  BY PoolAssumption DEF Init
<1>2. Kind(reg) = "inputs" /\ Val(reg) = "good"
  BY DEF Inputs, M, Kind, Val
<1> HIDE DEF reg, e
<1>3. /\ Fresh.phase = "Inputs" /\ Fresh.regs = Empty /\ Fresh.pays = Empty
      /\ Fresh.views = Empty /\ Fresh.nonces = Empty /\ Fresh.psigs = Empty
      /\ Fresh.asked = {} /\ Fresh.named = {} /\ Fresh.clears = 0
      /\ Fresh.cursor = [q \in Sessions |-> 0]
  BY DEF Fresh
<1>4. DOMAIN Empty = {}
  BY DEF Empty
<1>5. ASSUME NEW p \in Honest PROVE Good(p, Fresh, {reg}, e)
  <2>1. Heard(Fresh, e) /\ Clean(p, Fresh, e) /\ Poised(p, Fresh)
    BY <1>3, <1>4 DEF Heard, Clean, Poised
  <2>2. Own(Fresh, {reg})
    BY <1>2, <1>3 DEF Own
  <2>3. Word({reg}, e)
    BY <1>2 DEF Word
  <2> QED BY <2>1, <2>2, <2>3 DEF Good
<1>6. ASSUME NEW q \in Sessions PROVE ReadSo(Fresh, posts[q], q)
  <2>1. posts[q] = <<reg>> \/ posts[q] = <<>>
    BY <1>1
  <2>2. Len(posts[q]) \in Nat
    BY <2>1
  <2>3. \A i \in 1..Len(posts[q]) : ~(i <= 0)
    BY <2>2
  <2> QED BY <1>3, <1>4, <2>2, <2>3 DEF ReadSo
<1>7. History(Fresh, posts)
  BY <1>6 DEF History
<1>8. \A p : Seated(p, Fresh)
  <2>1. Count(Fresh.regs) = 0 /\ N \in Nat \ {0}
    BY <1>3, <1>4, FS_EmptySet, PoolAssumption DEF Count
  <2> QED BY <2>1 DEF Seated
<1>9. \A p \in Honest : Elems(posts[p]) = {reg}
  BY <1>1, PostLemma
<1>10. PaidFor(posts, payouts)
  <2>1. \A q \in Byzantine : Elems(posts[q]) = {}
    BY <1>1, PostLemma DEF Byzantine
  <2> QED BY <1>1, <2>1 DEF PaidFor
<1> QED BY <1>1, <1>5, <1>7, <1>8, <1>9, <1>10 DEF BlameInv, e

(* Every step of the pool keeps it.                                        *)
LEMMA NextBlame ==
  ASSUME Inv, BlameInv, Inv', [Next]_vars
  PROVE  BlameInv'
<1>1. CASE UNCHANGED vars
  <2>1. st' = st /\ posts' = posts /\ payouts' = payouts
    BY <1>1 DEF vars
  <2>2. Cleared' = Cleared /\ Past' = Past
    BY <2>1 DEF Cleared, Past
  <2>3. PaidFor(posts, payouts)'
    BY <2>1, <2>2 DEF BlameInv, PaidFor, Elems
  <2>4. ASSUME NEW q \in Honest
        PROVE  /\ Good(q, st'[q], Elems(posts'[q]),
                       World(posts', Cleared', Past'))
               /\ History(st'[q], posts') /\ Seated(q, st'[q])
    BY <2>1, <2>2 DEF BlameInv
  <2> QED BY <2>3, <2>4 DEF BlameInv
<1>2. ASSUME NEW p \in Honest, PhoneStep(p) PROVE BlameInv'
  <2>1. ASSUME NEW q \in Sessions, NEW save, ReadPost(p, q, save)
        PROVE  BlameInv'
    BY <2>1, ReadPostBlame
  <2>2. ASSUME NEW out \in payouts, ReadPayout(p, out) PROVE BlameInv'
    BY <2>2, ReadPayoutBlame
  <2>3. ASSUME NEW bad, NEW none, CoinResults(p, bad, none) PROVE BlameInv'
    BY <2>3, CoinResultsBlame
  <2>4. CASE TimeOut(p)
    BY <2>4, TimeOutBlame
  <2>5. CASE PayoutGiven(p)
    BY <2>5, PayoutGivenBlame
  <2>6. CASE ChannelSaved(p)
    BY <2>6, ChannelSavedBlame
  <2>7. CASE Leave(p) \/ ChannelFailed(p)
    BY <2>7, LeaveBlame
  <2>8. CASE ClearSeen(p)
    BY <2>8, ClearSeenBlame
  <2>9. CASE Close(p)
    BY <2>9, CloseBlame
  <2> QED BY <1>2, <2>1, <2>2, <2>3, <2>4, <2>5, <2>6, <2>7, <2>8, <2>9
             DEF PhoneStep
<1>3. CASE OthersStep
  <2>1. PICK b \in Byzantine, p \in Honest :
          \/ \E m \in Forgeries(b) : Forge(b, p, m)
          \/ \E addr \in Addrs \cup {b} : ForgePayout(b, p, addr)
    BY <1>3 DEF OthersStep
  <2> QED BY <2>1, ForgeBlame, ForgePayoutBlame
<1> QED BY <1>1, <1>2, <1>3 DEF Next

(* What the phones rely on, in every state of every pool: what each holds  *)
(* of the others they have said, what each has said itself, in which order *)
(* it read it, and whom it has named.  The two theorems below are read off *)
(* it.                                                                     *)
THEOREM BlameInvHolds == Spec => []BlameInv
<1>1. Inv /\ BlameInv /\ Inv' /\ [Next]_vars => BlameInv'
  BY NextBlame
<1> QED BY <1>1, InitBlame, InvHolds, PTL DEF Spec

(* Two nonces of one session that two phones may hold were both posted,    *)
(* and some phone has forgotten what it had read.                          *)
LEMMA TwoNonces ==
  ASSUME Inv, BlameInv, NEW t \in World(posts, Cleared, Past).nonces,
         NEW u \in World(posts, Cleared, Past).nonces, t[1] = u[1], t # u
  PROVE  Equivocated
<1> DEFINE q == t[1]
           n == t[2]
           k == u[2]
<1>1. /\ t = <<q, n>> /\ u = <<q, k>> /\ q \in Sessions
      /\ n \in Nonces /\ k \in Nonces
  BY WorldParts
<1>2. Takes(posts[q], n, Cleared) /\ Takes(posts[q], k, Cleared)
  BY <1>1, WorldParts
<1>3. n # k
  BY <1>1
<1> HIDE DEF q, n, k
<1>4. IsLog(posts)
  BY PostsStart DEF StartsFrom
<1>5. M("nonces", n) \in Elems(posts[q]) /\ M("nonces", k) \in Elems(posts[q])
  BY <1>1, <1>2, <1>4, TakesSaid DEF IsLog
<1>6. Cleared
  <2> SUFFICES ASSUME ~Cleared PROVE FALSE
    OBVIOUS
  <2>1. PICK i \in 1..Len(posts[q]) :
          FirstNonces(posts[q], i) /\ n = Val(posts[q][i])
    BY <1>2 DEF Takes
  <2>2. PICK j \in 1..Len(posts[q]) :
          FirstNonces(posts[q], j) /\ k = Val(posts[q][j])
    BY <1>2 DEF Takes
  <2>3. i = j
    BY <1>1, <1>4, <2>1, <2>2, FirstLemma DEF IsLog
  <2> QED BY <1>3, <2>1, <2>2, <2>3
<1>7. \A x \in Nonces : x = n \/ x = k
  BY <1>1, <1>3 DEF Nonces
<1>8. Sent(q) = Elems(posts[q])
  BY DEF Sent, Elems
<1> QED BY <1>1, <1>5, <1>6, <1>7, <1>8 DEF Equivocated, Cleared

(* No member that follows the protocol is named by one that does, unless   *)
(* the phone waited for it in vain (stalled), a registration was short     *)
(* (on_inputs names the last registrant), or, in a LiJ pool, a session     *)
(* sent two nonces and a phone forgot what it had read (on_psigs); and no  *)
(* phone names itself: for any number of members and strangers and         *)
(* whatever they post (Attempt::on, rules P7 and S1).                      *)
THEOREM NobodyHonestIsBlamed == Spec => []HonestNotBlamed
<1>1. Inv /\ BlameInv => HonestNotBlamed
  <2> SUFFICES ASSUME Inv, BlameInv, NEW p \in Honest
               PROVE  /\ p \notin st[p].named
                      /\ \/ st[p].late \/ Shortfall
                         \/ ~Public /\ Equivocated
                         \/ st[p].named \cap Honest = {}
    BY DEF HonestNotBlamed
  <2> DEFINE e == World(posts, Cleared, Past)
  <2>1. Clean(p, st[p], e)
    BY DEF BlameInv, Good
  <2>2. ASSUME NEW q \in Sessions, M("inputs", "short") \in e.said[q]
        PROVE  Shortfall
    <3>1. M("inputs", "short") \in Sent(q)
      BY <2>2, WorldParts DEF Sent, Elems
    <3> QED BY <3>1 DEF Shortfall
  <2>3. ASSUME NEW t \in e.nonces, NEW u \in e.nonces, t[1] = u[1], t # u
        PROVE  Equivocated
    BY <2>3, TwoNonces
  <2> HIDE DEF e
  <2> QED BY <2>1, <2>2, <2>3 DEF Clean, Excuse
<1> QED BY <1>1, InvHolds, BlameInvHolds, PTL

(* The N-th payout never comes to a phone that has not sent its own, so    *)
(* the error "every payout is in, but ours is not registered yet"          *)
(* (on_output) is never met: a payout needs its member's ring key, and the *)
(* payouts are of registered members, this phone among them.               *)
THEOREM PayoutsWaitForOurs == Spec => []OursIsIn
<1>1. Inv /\ BlameInv => OursIsIn
  <2> SUFFICES ASSUME Inv, BlameInv, NEW p \in Honest, Count(st[p].pays) = N,
                      st[p].phase \in Unpaid
               PROVE  FALSE
    BY DEF OursIsIn, Unpaid
  <2>1. PhoneOK(p, st[p]) /\ p \in Sessions /\ N \in Nat
    BY PhoneReady, PoolAssumption
  <2>2. /\ DOMAIN st[p].pays \subseteq DOMAIN st[p].regs
        /\ DOMAIN st[p].regs \subseteq Sessions
    BY <2>1 DEF PhoneOK, IsPhone, IsMap
  <2>3. ~(N < N)
    BY <2>1
  <2>4. ~(Count(st[p].regs) < N)
    BY <2>2, <2>3, OpenBefore
  <2>5. p \in DOMAIN st[p].regs
    BY <2>1, <2>4 DEF BlameInv, Seated, PhoneOK, Sound, Unpaid
  <2>6. DOMAIN st[p].regs \subseteq DOMAIN st[p].pays
    BY <2>1, <2>2, <2>3, FullLemma DEF Count
  <2>7. DOMAIN st[p].pays \subseteq Past
    BY WorldParts DEF BlameInv, Good, Heard
  <2> QED BY <2>5, <2>6, <2>7 DEF Past
<1> QED BY <1>1, InvHolds, BlameInvHolds, PTL
=============================================================================
