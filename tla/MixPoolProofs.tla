--------------------------- MODULE MixPoolProofs ---------------------------
(***************************************************************************)
(* Proofs about MixPool, for any number of sessions, honest or not, and    *)
(* any bounds on what the others post.                                     *)
(***************************************************************************)
EXTENDS MixPool, TLAPS, FiniteSetTheorems

Before == {"Inputs", "Channel", "Payouts", "View"}
Built == {"View", "Signing", "Funding", "FundingSigned"}
Aggregated == {"Funding", "FundingSigned"}

(* What one phone's memory obeys, whatever the others do.                  *)
Sound(p, s) ==
  /\ Count(s.regs) <= N
  /\ s.coinsAsked \/ s.phase \in {"Channel", "Payouts"} \cup Built
       => p \in DOMAIN s.regs
  /\ s.phase \in Built => \E i \in DOMAIN s.pays : s.pays[i] = p
  /\ s.phase \in {"Signing"} \cup Aggregated
       => DOMAIN s.regs \subseteq DOMAIN s.nonces
  /\ s.phase \in Aggregated =>
       \A q \in DOMAIN s.regs : q \in DOMAIN s.psigs
                                /\ s.psigs[q] = PartialSig(s)
  /\ s.recordSaved => s.phase \in Aggregated \cup {"Stopped"}
  /\ s.phase = "FundingSigned" => s.recordSaved

PhoneOK(p, s) == IsPhone(s) /\ Sound(p, s)

Elems(sq) == {sq[i] : i \in 1..Len(sq)}

(* What a handler may make of a phone in state s: t, posting post; sigs    *)
(* are the partial signatures, with their senders, that it was given.      *)
Moves(p, s, t, post, sigs) ==
  /\ PhoneOK(p, t)
  /\ post \in Seq(Elems(post)) /\ Len(post) <= 2
  /\ \A msg \in Elems(post) : IsMessage(msg)
  /\ t.phase \in Before => s.phase \in Before
  /\ s.phase \in Over => t.phase = s.phase /\ post = <<>>
  /\ t.recordSaved => s.recordSaved /\ View(t) = View(s)
  /\ \A q \in DOMAIN t.psigs :
       \/ q \in DOMAIN s.psigs /\ t.psigs[q] = s.psigs[q]
       \/ <<q, t.psigs[q]>> \in sigs
  /\ \A msg \in Elems(post) :
       /\ Kind(msg) = "abort" => t.phase = "Stopped"
       /\ Kind(msg) = "psigs" => /\ s.phase = "View" /\ t.phase = "Signing"
                                 /\ Len(post) = 1
       /\ Kind(msg) = "fsigs" => /\ t.phase = "FundingSigned"
                                 /\ Val(msg) = Funding(View(t))

Fine(p, s, r, sigs) ==
  /\ Moves(p, s, r.s, r.post, sigs)
  /\ r.pay \subseteq Outputs
  /\ r.err => r.s.phase = s.phase

(* What Elems makes of the short sequences the handlers post.              *)
LEMMA PostLemma ==
  /\ Elems(<<>>) = {}
  /\ \A x : Elems(<<x>>) = {x} /\ <<x>> \in Seq({x}) /\ Len(<<x>>) = 1
  /\ \A x, y : Elems(<<x, y>>) = {x, y} /\ <<x, y>> \in Seq({x, y})
               /\ Len(<<x, y>>) = 2
<1>1. Elems(<<>>) = {}
  BY DEF Elems
<1>2. ASSUME NEW x PROVE Elems(<<x>>) = {x} /\ <<x>> \in Seq({x}) /\ Len(<<x>>) = 1
  BY DEF Elems
<1>3. ASSUME NEW x, NEW y
      PROVE Elems(<<x, y>>) = {x, y} /\ <<x, y>> \in Seq({x, y})
            /\ Len(<<x, y>>) = 2
  BY DEF Elems
<1> QED BY <1>1, <1>2, <1>3

(* stop makes only allowed moves, the abort included.                      *)
LEMMA StopFine ==
  ASSUME NEW p \in Sessions, NEW s, PhoneOK(p, s), s.phase \notin Over,
         NEW named \in SUBSET Sessions, NEW sigs
  PROVE  Fine(p, s, Stop(p, s, named), sigs)
<1> DEFINE t == [s EXCEPT !.phase = "Stopped", !.myNonces = FALSE, !.named = named]
<1>1. IsPhone(t)
  BY DEF PhoneOK, IsPhone, Fresh, Phases
<1>2. Sound(p, t)
  BY DEF PhoneOK, IsPhone, Fresh, Phases, Sound, Aggregated, Built, Count
<1>3. /\ ~t.recordSaved \/ (s.recordSaved /\ View(t) = View(s))
      /\ t.psigs = s.psigs
  BY DEF PhoneOK, IsPhone, Fresh, View
<1>4. t.phase = "Stopped"
  BY DEF PhoneOK, IsPhone, Fresh
<1>5. \A msg \in {M("abort", 0)} : IsMessage(msg) /\ Kind(msg) = "abort"
  BY DEF M, Kind, Val, IsMessage, MessageKinds
<1>6. \/ Stop(p, s, named).post = <<>>
      \/ Stop(p, s, named).post = <<M("abort", 0)>>
  BY DEF Stop, Posting
<1>7. Stop(p, s, named).s = t /\ Stop(p, s, named).pay = {}
      /\ Stop(p, s, named).err = FALSE
  BY DEF Stop, Posting
<1> HIDE DEF t
<1>8. Moves(p, s, t, <<>>, sigs)
  BY <1>1, <1>2, <1>3, <1>4, PostLemma DEF Moves, Before, Over, PhoneOK
<1>9. Moves(p, s, t, <<M("abort", 0)>>, sigs)
  BY <1>1, <1>2, <1>3, <1>4, <1>5, PostLemma DEF Moves, Before, Over, PhoneOK
<1> QED
  BY <1>6, <1>7, <1>8, <1>9 DEF Fine

(* A handler that changes nothing makes only allowed moves.                *)
LEMMA OkFine ==
  ASSUME NEW p \in Sessions, NEW s, PhoneOK(p, s), NEW sigs
  PROVE  Fine(p, s, Ok(s), sigs) /\ Fine(p, s, Err(s), sigs)
<1>1. Moves(p, s, s, <<>>, sigs)
  BY PostLemma DEF Moves
<1> QED
  BY <1>1 DEF Fine, Ok, Err

(* HashMap::insert sets one key and leaves the others.                     *)
LEMMA PutLemma ==
  ASSUME NEW f, NEW x, NEW y
  PROVE  /\ DOMAIN Put(f, x, y) = DOMAIN f \cup {x}
         /\ Put(f, x, y)[x] = y
         /\ \A z \in DOMAIN f : z # x => Put(f, x, y)[z] = f[z]
  BY DEF Put

(* HashMap::insert keeps the kind of keys and values.                      *)
LEMMA PutMap ==
  ASSUME NEW f, NEW x, NEW y, NEW D, NEW R, IsMap(f, D, R), x \in D, y \in R
  PROVE  IsMap(Put(f, x, y), D, R)
  BY DEF Put, IsMap

(* A new key adds one to the size of a map.                                *)
LEMMA CountLemma ==
  ASSUME NEW f, NEW x \in Sessions, NEW y, DOMAIN f \subseteq Sessions
  PROVE  /\ IsFiniteSet(DOMAIN f)
         /\ Count(f) \in Nat
         /\ x \notin DOMAIN f => Count(Put(f, x, y)) = Count(f) + 1
<1>1. IsFiniteSet(DOMAIN f)
  BY FS_Subset, PoolAssumption
<1>2. Cardinality(DOMAIN f) \in Nat
  BY <1>1, FS_CardinalityType
<1>3. x \notin DOMAIN f =>
        Cardinality(DOMAIN f \cup {x}) = Cardinality(DOMAIN f) + 1
  BY <1>1, FS_AddElement
<1>4. DOMAIN Put(f, x, y) = DOMAIN f \cup {x}
  BY PutLemma
<1> QED
  BY <1>1, <1>2, <1>3, <1>4 DEF Count

(* A map on registered sessions with N entries has all of them.            *)
LEMMA FullLemma ==
  ASSUME NEW p, NEW s, PhoneOK(p, s), NEW D, D \subseteq DOMAIN s.regs,
         ~(Cardinality(D) < N)
  PROVE  DOMAIN s.regs \subseteq D
<1>1. IsFiniteSet(DOMAIN s.regs) /\ Cardinality(DOMAIN s.regs) <= N
  BY FS_Subset, PoolAssumption DEF PhoneOK, IsPhone, IsMap, Sound, Count
<1>2. /\ Cardinality(D) <= Cardinality(DOMAIN s.regs)
      /\ Cardinality(DOMAIN s.regs) = Cardinality(D) => DOMAIN s.regs = D
      /\ IsFiniteSet(D)
  BY <1>1, FS_Subset
<1>3. Cardinality(D) \in Nat /\ Cardinality(DOMAIN s.regs) \in Nat /\ N \in Nat
  BY <1>1, <1>2, FS_CardinalityType, PoolAssumption
<1> QED BY <1>1, <1>2, <1>3

(* register_payout makes only allowed moves.                               *)
LEMMA RegisterPayoutFine ==
  ASSUME NEW p \in Sessions, NEW s, PhoneOK(p, s), NEW sigs,
         s.phase \in {"Inputs", "Channel"}, p \in DOMAIN s.regs
  PROVE  Fine(p, s, RegisterPayout(p, s), sigs)
<1> DEFINE t == [s EXCEPT !.phase = "Payouts"]
<1>1. IsPhone(t)
  BY DEF PhoneOK, IsPhone, Fresh, Phases
<1>2. Sound(p, t)
  BY DEF PhoneOK, IsPhone, Fresh, Sound, Aggregated, Built, Count
<1>3. /\ t.recordSaved = s.recordSaved /\ View(t) = View(s)
      /\ t.psigs = s.psigs /\ t.phase = "Payouts"
  BY DEF PhoneOK, IsPhone, Fresh, View
<1>4. Output(p, p) \in Outputs
  BY DEF Output, Outputs, Scripts
<1>5. /\ RegisterPayout(p, s).s = t /\ RegisterPayout(p, s).post = <<>>
      /\ RegisterPayout(p, s).pay = {Output(p, p)}
      /\ RegisterPayout(p, s).err = FALSE
  BY DEF RegisterPayout
<1> HIDE DEF t
<1>6. Moves(p, s, t, <<>>, sigs)
  BY <1>1, <1>2, <1>3, PostLemma DEF Moves, Before, Over, PhoneOK
<1> QED
  BY <1>4, <1>5, <1>6 DEF Fine

(* on_inputs makes only allowed moves, every early return included.        *)
LEMMA OnInputsFine ==
  ASSUME NEW p \in Sessions, NEW s, PhoneOK(p, s), NEW sigs,
         s.phase \notin Over, NEW from \in Sessions, NEW reg \in Registrations
  PROVE  Fine(p, s, OnInputs(p, s, from, reg), sigs)
<1> DEFINE s2 == [s EXCEPT !.regs = Put(s.regs, from, reg)]
           u == [s2 EXCEPT !.coinsAsked = TRUE, !.asked = DOMAIN s2.regs \ {p}]
<1>1. CASE from \in DOMAIN s.regs \/ s.phase # "Inputs" \/ Count(s.regs) >= N
  BY <1>1, OkFine DEF OnInputs
<1>2. CASE reg = "refused" /\ from \notin DOMAIN s.regs /\ s.phase = "Inputs"
           /\ ~(Count(s.regs) >= N)
  BY <1>2, StopFine DEF OnInputs
<1>3. CASE /\ reg # "refused" /\ from \notin DOMAIN s.regs /\ s.phase = "Inputs"
           /\ ~(Count(s.regs) >= N)
  <2>1. DOMAIN s.regs \subseteq Sessions /\ Count(s.regs) \in Nat /\ N \in Nat
    BY CountLemma, PoolAssumption DEF PhoneOK, IsPhone, IsMap
  <2>2. /\ s2.regs = Put(s.regs, from, reg)
        /\ s2.phase = s.phase /\ s2.recordSaved = s.recordSaved
        /\ s2.psigs = s.psigs /\ s2.coinsAsked = s.coinsAsked
    BY DEF PhoneOK, IsPhone, Fresh
  <2>3. Count(s2.regs) <= N
    BY <1>3, <2>1, <2>2, CountLemma
  <2>4. IsPhone(s2)
    <3> DEFINE f == Put(s.regs, from, reg)
    <3>1. IsMap(s.regs, Sessions, Registrations)
      BY DEF PhoneOK, IsPhone
    <3>3. IsMap(f, Sessions, Registrations)
      BY <3>1, PutMap
    <3>4. DOMAIN f = DOMAIN s.regs \cup {from}
      BY PutLemma
    <3>2. s2 = [s EXCEPT !.regs = f]
      OBVIOUS
    <3> HIDE DEF f, s2
    <3> QED BY <3>2, <3>3, <3>4 DEF PhoneOK, IsPhone, Fresh, IsMap
  <2>5. Sound(p, s2)
    <3>2. DOMAIN Put(s.regs, from, reg) = DOMAIN s.regs \cup {from}
      BY PutLemma
    <3> HIDE DEF s2
    <3>1. DOMAIN s.regs \subseteq DOMAIN s2.regs
      BY <2>2, <3>2
    <3> QED BY <1>3, <2>2, <2>3, <3>1 DEF PhoneOK, Sound, Aggregated, Built
  <2>6. ~s.recordSaved
    BY <1>3 DEF PhoneOK, Sound, Aggregated
  <2>7. Moves(p, s, s2, <<>>, sigs)
    BY <1>3, <2>2, <2>4, <2>5, <2>6, PostLemma DEF Moves, Before, Over, PhoneOK
  <2>8. Fine(p, s, Ok(s2), sigs) /\ Fine(p, s, Err(s2), sigs)
    BY <2>2, <2>7 DEF Fine, Ok, Err
  <2>9. Fine(p, s, Stop(p, s2, {}), sigs)
    <3>1. Fine(p, s2, Stop(p, s2, {}), sigs)
      BY <1>3, <2>2, <2>4, <2>5, StopFine DEF PhoneOK, Over
    <3> QED BY <3>1, <2>2, <2>6, <1>3 DEF Fine, Moves, Over
  <2>10. ASSUME p \in DOMAIN s2.regs PROVE Fine(p, s, Ok(u), sigs)
    <3>1. /\ u.regs = s2.regs /\ u.phase = s2.phase /\ u.psigs = s2.psigs
          /\ u.recordSaved = s2.recordSaved /\ u.coinsAsked = TRUE
      BY <2>4 DEF IsPhone, Fresh
    <3>2. IsPhone(u)
      BY <2>4 DEF IsPhone, Fresh
    <3>3. Sound(p, u)
      BY <2>10, <3>1, <2>5, <1>3, <2>2 DEF Sound, Aggregated, Built
    <3>4. Moves(p, s, u, <<>>, sigs)
      BY <3>1, <3>2, <3>3, <1>3, <2>2, <2>6, PostLemma
         DEF Moves, Before, Over, PhoneOK
    <3> QED BY <3>4 DEF Fine, Ok
  <2> QED
    BY <1>3, <2>2, <2>8, <2>9, <2>10 DEF OnInputs
<1> QED
  BY <1>1, <1>2, <1>3

(* The part of a phone's state that Sound and Moves speak of.              *)
Alike(s, t) ==
  /\ t.phase = s.phase /\ t.regs = s.regs /\ t.pays = s.pays
  /\ t.psigs = s.psigs /\ t.nonces = s.nonces
  /\ t.recordSaved = s.recordSaved /\ t.coinsAsked = s.coinsAsked

(* Two states that differ only in the bookkeeping of what was read allow   *)
(* the same moves.                                                         *)
LEMMA AlikeLemma ==
  ASSUME NEW p, NEW s, NEW t, Alike(s, t), Sound(p, s)
  PROVE  /\ Sound(p, t)
         /\ \A r, sigs : Fine(p, t, r, sigs) => Fine(p, s, r, sigs)
<1>1. PartialSig(t) = PartialSig(s) /\ View(t) = View(s)
  BY DEF Alike, PartialSig, View
<1>2. Sound(p, t)
  BY <1>1 DEF Alike, Sound
<1>3. ASSUME NEW r, NEW sigs, Fine(p, t, r, sigs) PROVE Fine(p, s, r, sigs)
  BY <1>1, <1>3 DEF Alike, Fine, Moves
<1> QED BY <1>2, <1>3

(* try_fund makes only allowed moves: it signs only with the record        *)
(* saved.                                                                  *)
LEMMA TryFundFine ==
  ASSUME NEW p \in Sessions, NEW s, PhoneOK(p, s), NEW sigs,
         s.phase = "Funding"
  PROVE  Fine(p, s, TryFund(s), sigs)
<1> DEFINE t == [s EXCEPT !.phase = "FundingSigned"]
           m == M("fsigs", Funding(View(s)))
<1>1. CASE ~s.recordSaved \/ ~s.recheckOk \/ ~(~Channel \/ s.channelSaved)
  BY <1>1, OkFine DEF TryFund
<1>2. CASE s.recordSaved /\ s.recheckOk /\ (~Channel \/ s.channelSaved)
  <2>1. IsPhone(t)
    BY DEF PhoneOK, IsPhone, Fresh, Phases
  <2>2. /\ t.phase = "FundingSigned" /\ t.regs = s.regs /\ t.pays = s.pays
        /\ t.psigs = s.psigs /\ t.nonces = s.nonces
        /\ t.recordSaved = s.recordSaved /\ t.coinsAsked = s.coinsAsked
    BY DEF PhoneOK, IsPhone, Fresh
  <2>3. TryFund(s).s = t /\ TryFund(s).post = <<m>> /\ TryFund(s).pay = {}
        /\ TryFund(s).err = FALSE
    BY <1>2 DEF TryFund, Posting
  <2> HIDE DEF t
  <2>4. View(t) = View(s) /\ PartialSig(t) = PartialSig(s)
    BY <2>2 DEF View, PartialSig
  <2>5. Sound(p, t)
    BY <1>2, <2>2, <2>4 DEF PhoneOK, Sound, Aggregated, Built
  <2>6. IsFunding(Funding(View(s)))
    BY DEF IsFunding, Funding, View, PhoneOK, IsPhone
  <2>7. Kind(m) = "fsigs" /\ Val(m) = Funding(View(t)) /\ IsMessage(m)
    BY <2>4, <2>6 DEF M, Kind, Val, IsMessage, MessageKinds
  <2> HIDE DEF m
  <2>8. Moves(p, s, t, <<m>>, sigs)
    BY <1>2, <2>1, <2>2, <2>4, <2>5, <2>7, PostLemma
       DEF Moves, Before, Over, PhoneOK
  <2> QED BY <2>3, <2>8 DEF Fine
<1> QED BY <1>1, <1>2

(* on_coins makes only allowed moves.                                      *)
LEMMA OnCoinsFine ==
  ASSUME NEW p \in Sessions, NEW s, PhoneOK(p, s), NEW sigs,
         s.phase \notin Over,
         NEW bad \in SUBSET Sessions, NEW unanswered \in SUBSET Sessions
  PROVE  Fine(p, s, OnCoins(p, s, bad, unanswered), sigs)
<1>1. Fine(p, s, Ok(s), sigs) /\ Fine(p, s, Stop(p, s, {}), sigs)
      /\ Fine(p, s, Stop(p, s, bad), sigs)
  BY OkFine, StopFine
<1>2. CASE s.phase = "Funding"
  <2> DEFINE t == [s EXCEPT !.recheckOk = TRUE]
  <2>1. IsPhone(t)
    BY DEF PhoneOK, IsPhone, Fresh
  <2>2. Alike(s, t)
    BY DEF Alike, PhoneOK, IsPhone, Fresh
  <2> HIDE DEF t
  <2>3. PhoneOK(p, t) /\ t.phase = "Funding"
    BY <1>2, <2>1, <2>2, AlikeLemma DEF PhoneOK, Alike
  <2>4. Fine(p, s, TryFund(t), sigs)
    BY <2>2, <2>3, TryFundFine, AlikeLemma DEF PhoneOK
  <2> QED BY <1>1, <1>2, <2>4 DEF OnCoins, t
<1>3. CASE s.phase = "Inputs" /\ s.coinsAsked
  <2>1. p \in DOMAIN s.regs
    BY <1>3 DEF PhoneOK, Sound
  <2>2. Fine(p, s, RegisterPayout(p, s), sigs)
    BY <1>3, <2>1, RegisterPayoutFine
  <2> DEFINE t == [s EXCEPT !.phase = "Channel"]
  <2>3. IsPhone(t)
    BY DEF PhoneOK, IsPhone, Fresh, Phases
  <2>4. /\ t.phase = "Channel" /\ t.regs = s.regs /\ t.pays = s.pays
        /\ t.psigs = s.psigs /\ t.nonces = s.nonces
        /\ t.recordSaved = s.recordSaved /\ t.coinsAsked = s.coinsAsked
    BY DEF PhoneOK, IsPhone, Fresh
  <2> HIDE DEF t
  <2>5. Sound(p, t) /\ View(t) = View(s)
    BY <1>3, <2>1, <2>4 DEF PhoneOK, Sound, Aggregated, Built, View
  <2>6. Moves(p, s, t, <<>>, sigs)
    BY <1>3, <2>3, <2>4, <2>5, PostLemma DEF Moves, Before, Over, PhoneOK
  <2>7. Fine(p, s, Ok(t), sigs)
    BY <2>6 DEF Fine, Ok
  <2> QED BY <1>1, <1>3, <2>2, <2>7 DEF OnCoins, t
<1>4. CASE s.phase # "Funding" /\ ~(s.phase = "Inputs" /\ s.coinsAsked)
  BY <1>1, <1>4 DEF OnCoins
<1> QED BY <1>2, <1>3, <1>4

(* build_and_check, from the payouts to the view, makes only allowed      *)
(* moves.                                                                  *)
LEMMA BuildFine ==
  ASSUME NEW p \in Sessions, NEW s, PhoneOK(p, s), NEW sigs,
         s.phase = "Payouts"
  PROVE  Fine(p, s, BuildAndCheck(p, s), sigs)
<1> DEFINE t == [s EXCEPT !.phase = "View", !.myNonces = TRUE]
           m == M("view", View(s))
           n == M("nonces", "n1")
           paid == {i \in DOMAIN s.pays : s.pays[i] = p}
<1>1. CASE (\E i \in DOMAIN s.pays : s.pays[i] = Clash) \/ Cardinality(paid) # 1
  BY <1>1, OkFine DEF BuildAndCheck
<1>2. CASE ~((\E i \in DOMAIN s.pays : s.pays[i] = Clash) \/ Cardinality(paid) # 1)
  <2>1. \E i \in DOMAIN s.pays : s.pays[i] = p
    <3>1. Cardinality(paid) = 1
      BY <1>2
    <3>2. paid # {}
      BY <3>1, FS_EmptySet
    <3> QED BY <3>2
  <2>2. /\ BuildAndCheck(p, s).s = t /\ BuildAndCheck(p, s).post = <<m, n>>
        /\ BuildAndCheck(p, s).pay = {} /\ BuildAndCheck(p, s).err = FALSE
    BY <1>2 DEF BuildAndCheck, Posting
  <2>3. IsPhone(t)
    BY DEF PhoneOK, IsPhone, Fresh, Phases
  <2>4. /\ t.phase = "View" /\ t.regs = s.regs /\ t.pays = s.pays
        /\ t.psigs = s.psigs /\ t.nonces = s.nonces
        /\ t.recordSaved = s.recordSaved /\ t.coinsAsked = s.coinsAsked
    BY DEF PhoneOK, IsPhone, Fresh
  <2> HIDE DEF t
  <2>5. Sound(p, t) /\ View(t) = View(s)
    BY <2>1, <2>4 DEF PhoneOK, Sound, Aggregated, Built, View
  <2>6. IsView(View(s))
    BY DEF IsView, View, PhoneOK, IsPhone, IsMap
  <2>7. /\ Kind(m) = "view" /\ IsMessage(m)
        /\ Kind(n) = "nonces" /\ IsMessage(n)
    BY <2>6 DEF M, Kind, Val, IsMessage, MessageKinds, Nonces
  <2> HIDE DEF m, n
  <2>8. Moves(p, s, t, <<m, n>>, sigs)
    BY <2>3, <2>4, <2>5, <2>7, PostLemma DEF Moves, Before, Over, PhoneOK
  <2> QED BY <2>2, <2>8 DEF Fine
<1> QED BY <1>1, <1>2

(* A handler called after a change no move is about makes moves of the     *)
(* state before it.                                                        *)
LEMMA Transfer ==
  ASSUME NEW p, NEW s, NEW t, NEW r, NEW sigs, Fine(p, t, r, sigs),
         t.phase = s.phase, t.psigs = s.psigs,
         s.recordSaved = t.recordSaved, ~t.recordSaved \/ View(t) = View(s)
  PROVE  Fine(p, s, r, sigs)
  BY DEF Fine, Moves

(* on_output makes only allowed moves.                                     *)
LEMMA OnOutputFine ==
  ASSUME NEW p \in Sessions, NEW s, PhoneOK(p, s), NEW sigs,
         s.phase \notin Over, NEW out \in Outputs
  PROVE  Fine(p, s, OnOutput(p, s, out), sigs)
<1> DEFINE f == Put(s.pays, out.image, out.addr)
           s2 == [s EXCEPT !.pays = f]
           early == /\ s.phase \in {"Inputs", "Channel", "Payouts"}
                    /\ ~(Count(s.regs) < N) /\ out.image \in DOMAIN s.regs
                    /\ out.image \notin DOMAIN s.pays
<1>1. /\ Fine(p, s, Ok(s), sigs) /\ Fine(p, s, Err(s), sigs)
      /\ Fine(p, s, Stop(p, s, {}), sigs)
  BY OkFine, StopFine
<1>2. CASE ~early
  BY <1>1, <1>2 DEF OnOutput
<1>3. CASE early
  <2>1. out.addr \in Scripts
    BY DEF Outputs
  <2>2. IsMap(f, DOMAIN s.regs, Scripts)
    BY <1>3, <2>1, PutMap DEF PhoneOK, IsPhone
  <2> HIDE DEF f
  <2>3. IsPhone(s2)
    BY <2>2 DEF PhoneOK, IsPhone, Fresh
  <2>4. /\ s2.phase = s.phase /\ s2.regs = s.regs /\ s2.psigs = s.psigs
        /\ s2.recordSaved = s.recordSaved /\ s2.coinsAsked = s.coinsAsked
    BY DEF PhoneOK, IsPhone, Fresh
  <2>5. OnOutput(p, s, out) \in
          {Err(s), Ok(s2), Err(s2)}
        \/ (s.phase = "Payouts" /\ OnOutput(p, s, out) = BuildAndCheck(p, s2))
    BY <1>3 DEF OnOutput, f
  <2> HIDE DEF s2
  <2>6. Sound(p, s2) /\ ~s.recordSaved
    BY <1>3, <2>4 DEF PhoneOK, Sound, Aggregated, Built
  <2>7. Moves(p, s, s2, <<>>, sigs)
    BY <1>3, <2>3, <2>4, <2>6, PostLemma DEF Moves, Before, Over, PhoneOK
  <2>8. Fine(p, s, Ok(s2), sigs) /\ Fine(p, s, Err(s2), sigs)
    BY <2>4, <2>7 DEF Fine, Ok, Err
  <2>9. ASSUME s.phase = "Payouts"
        PROVE  Fine(p, s, BuildAndCheck(p, s2), sigs)
    <3>1. Fine(p, s2, BuildAndCheck(p, s2), sigs)
      BY <2>3, <2>4, <2>6, <2>9, BuildFine DEF PhoneOK
    <3> QED BY <2>4, <2>6, <3>1, Transfer
  <2> QED BY <1>1, <2>5, <2>8, <2>9
<1> QED BY <1>2, <1>3

(* try_sign makes only allowed moves: it takes the nonces it signs with.   *)
LEMMA TrySignFine ==
  ASSUME NEW p \in Sessions, NEW s, PhoneOK(p, s), NEW sigs,
         s.phase \notin Over
  PROVE  Fine(p, s, TrySign(p, s), sigs)
<1> DEFINE t == [s EXCEPT !.phase = "Signing", !.myNonces = FALSE]
           m == M("psigs", PartialSig(s))
<1>1. /\ Fine(p, s, Ok(s), sigs) /\ Fine(p, s, Err(s), sigs)
      /\ Fine(p, s, Stop(p, s, {}), sigs)
  BY OkFine, StopFine
<1>2. \/ TrySign(p, s) \in {Ok(s), Err(s), Stop(p, s, {})}
      \/ /\ s.phase = "View" /\ ~(Cardinality(DOMAIN s.nonces) < N)
         /\ TrySign(p, s) = Posting(t, <<m>>)
  BY DEF TrySign, Count
<1>3. ASSUME s.phase = "View", ~(Cardinality(DOMAIN s.nonces) < N)
      PROVE  Fine(p, s, Posting(t, <<m>>), sigs)
  <2>1. IsPhone(t)
    BY DEF PhoneOK, IsPhone, Fresh, Phases
  <2>2. /\ t.phase = "Signing" /\ t.regs = s.regs /\ t.pays = s.pays
        /\ t.psigs = s.psigs /\ t.nonces = s.nonces
        /\ t.recordSaved = s.recordSaved /\ t.coinsAsked = s.coinsAsked
    BY DEF PhoneOK, IsPhone, Fresh
  <2> HIDE DEF t
  <2>8. DOMAIN s.regs \subseteq DOMAIN s.nonces
    BY <1>3, FullLemma DEF PhoneOK, IsPhone, IsMap
  <2>3. Sound(p, t) /\ View(t) = View(s)
    BY <1>3, <2>2, <2>8 DEF PhoneOK, Sound, Aggregated, Built, View
  <2>4. IsView(View(s)) /\ IsMap(s.nonces, Sessions, Nonces)
    BY DEF IsView, View, PhoneOK, IsPhone, IsMap
  <2>5. IsSig(PartialSig(s))
    BY <2>4 DEF IsSig, PartialSig
  <2>6. Kind(m) = "psigs" /\ IsMessage(m)
    BY <2>5 DEF M, Kind, Val, IsMessage, MessageKinds
  <2> HIDE DEF m
  <2>7. Moves(p, s, t, <<m>>, sigs)
    BY <1>3, <2>1, <2>2, <2>3, <2>6, PostLemma DEF Moves, Before, Over, PhoneOK
  <2> QED BY <2>7 DEF Fine, Posting
<1> QED BY <1>1, <1>2, <1>3

(* on_view makes only allowed moves.                                       *)
LEMMA OnViewFine ==
  ASSUME NEW p \in Sessions, NEW s, PhoneOK(p, s), NEW sigs,
         s.phase \notin Over, NEW from \in Sessions, NEW view, IsView(view)
  PROVE  Fine(p, s, OnView(p, s, from, view), sigs)
<1> DEFINE f == Put(s.views, from, view)
           t == [s EXCEPT !.views = f]
<1>1. Fine(p, s, Ok(s), sigs) /\ Fine(p, s, Err(s), sigs)
  BY OkFine
<1>2. CASE from \notin DOMAIN s.regs \/ from \in DOMAIN s.views
  BY <1>1, <1>2 DEF OnView
<1>3. CASE from \in DOMAIN s.regs /\ from \notin DOMAIN s.views
  <2>1. DOMAIN f = DOMAIN s.views \cup {from}
    BY PutLemma
  <2>6. f[from] = view /\ \A q \in DOMAIN s.views : f[q] = s.views[q]
    BY <1>3 DEF Put
  <2>5. \A q \in DOMAIN f : IsView(f[q])
    <3> HIDE DEF f
    <3> QED BY <2>1, <2>6 DEF PhoneOK, IsPhone
  <2> HIDE DEF f
  <2>2. IsPhone(t)
    BY <1>3, <2>1, <2>5 DEF PhoneOK, IsPhone, Fresh
  <2>3. Alike(s, t)
    BY DEF Alike, PhoneOK, IsPhone, Fresh
  <2> HIDE DEF t
  <2>4. Fine(p, s, TrySign(p, t), sigs)
    BY <2>2, <2>3, TrySignFine, AlikeLemma DEF PhoneOK, Alike
  <2> QED BY <1>3, <2>4 DEF OnView, t, f
<1> QED BY <1>2, <1>3

(* on_nonces makes only allowed moves.                                     *)
LEMMA OnNoncesFine ==
  ASSUME NEW p \in Sessions, NEW s, PhoneOK(p, s), NEW sigs,
         s.phase \notin Over, NEW from \in DOMAIN s.regs,
         NEW nonces \in Nonces
  PROVE  Fine(p, s, OnNonces(p, s, from, nonces), sigs)
<1> DEFINE f == Put(s.nonces, from, nonces)
           t == [s EXCEPT !.nonces = f]
<1>1. Fine(p, s, Ok(s), sigs) /\ Fine(p, s, Err(s), sigs)
  BY OkFine
<1>2. CASE from \in DOMAIN s.nonces
  BY <1>1, <1>2 DEF OnNonces
<1>3. CASE from \notin DOMAIN s.nonces
  <2>1. IsMap(f, DOMAIN s.regs, Nonces)
    BY PutMap DEF PhoneOK, IsPhone
  <2> HIDE DEF f
  <2>2. IsPhone(t)
    BY <2>1 DEF PhoneOK, IsPhone, Fresh
  <2>3. /\ t.phase = s.phase /\ t.regs = s.regs /\ t.pays = s.pays
        /\ t.psigs = s.psigs /\ t.recordSaved = s.recordSaved
        /\ t.coinsAsked = s.coinsAsked
    BY DEF PhoneOK, IsPhone, Fresh
  <2> HIDE DEF t
  <2>4. s.phase \notin {"Signing"} \cup Aggregated
    BY <1>3 DEF PhoneOK, Sound
  <2>5. Sound(p, t) /\ ~t.recordSaved
    BY <2>3, <2>4 DEF PhoneOK, Sound, Built, Over, Aggregated
  <2>6. Fine(p, t, TrySign(p, t), sigs)
    BY <2>2, <2>3, <2>5, TrySignFine DEF PhoneOK
  <2>7. Fine(p, s, TrySign(p, t), sigs)
    BY <2>3, <2>5, <2>6, Transfer
  <2> QED BY <1>3, <2>7 DEF OnNonces, t, f
<1> QED BY <1>2, <1>3

(* on_psigs makes only allowed moves: the exits it aggregates are signed   *)
(* by all.                                                                 *)
LEMMA OnPsigsFine ==
  ASSUME NEW p \in Sessions, NEW s, PhoneOK(p, s),
         s.phase \notin Over, NEW from \in DOMAIN s.regs,
         NEW sig, IsSig(sig), NEW sigs, <<from, sig>> \in sigs
  PROVE  Fine(p, s, OnPsigs(p, s, from, sig), sigs)
<1> DEFINE f == Put(s.psigs, from, sig)
           s2 == [s EXCEPT !.psigs = f]
           bad == {q \in DOMAIN s2.psigs : s2.psigs[q] # PartialSig(s)}
           t == [s2 EXCEPT !.phase = "Funding", !.asked = {p}]
<1>1. Fine(p, s, Ok(s), sigs) /\ Fine(p, s, Err(s), sigs)
  BY OkFine
<1>2. CASE from \in DOMAIN s.psigs
  BY <1>1, <1>2 DEF OnPsigs
<1>3. CASE from \notin DOMAIN s.psigs
  <2>1. DOMAIN f = DOMAIN s.psigs \cup {from}
    BY PutLemma
  <2>2. f[from] = sig /\ \A q \in DOMAIN s.psigs : f[q] = s.psigs[q]
    BY <1>3 DEF Put
  <2> HIDE DEF f
  <2>3. IsPhone(s2)
    BY <2>1, <2>2 DEF PhoneOK, IsPhone, Fresh
  <2>4. /\ s2.phase = s.phase /\ s2.regs = s.regs /\ s2.pays = s.pays
        /\ s2.nonces = s.nonces /\ s2.recordSaved = s.recordSaved
        /\ s2.coinsAsked = s.coinsAsked /\ s2.psigs = f
    BY DEF PhoneOK, IsPhone, Fresh
  <2>5. \/ OnPsigs(p, s, from, sig) \in
             {Ok(s2), Stop(p, s2, {}), Stop(p, s2, bad)}
        \/ /\ s.phase = "Signing" /\ ~(Cardinality(DOMAIN s2.psigs) < N)
           /\ bad = {} /\ OnPsigs(p, s, from, sig) = Ok(t)
    BY <1>3 DEF OnPsigs, f, Count
  <2>6. s.phase \notin Aggregated
    BY <1>3 DEF PhoneOK, Sound
  <2>7. IsPhone(s2) =>
        /\ t.phase = "Funding" /\ t.regs = s2.regs /\ t.pays = s2.pays
        /\ t.nonces = s2.nonces /\ t.recordSaved = s2.recordSaved
        /\ t.coinsAsked = s2.coinsAsked /\ t.psigs = s2.psigs
    BY DEF IsPhone, Fresh
  <2>8. p \in DOMAIN s2.regs => IsPhone(t)
    BY <2>3 DEF IsPhone, Fresh, Phases
  <2>13. bad \in SUBSET Sessions
    BY <2>1, <2>4 DEF PhoneOK, IsPhone, IsMap
  <2>14. bad = {} => \A q \in DOMAIN s2.psigs : s2.psigs[q] = PartialSig(s)
    OBVIOUS
  <2> HIDE DEF s2, t, bad
  <2>9. Sound(p, s2) /\ ~s.recordSaved
    BY <2>4, <2>6 DEF PhoneOK, Sound, Built, Over, Aggregated
  <2>10. Moves(p, s, s2, <<>>, sigs)
    BY <2>1, <2>2, <2>3, <2>4, <2>9, PostLemma DEF Moves, PhoneOK, Over
  <2>11. Fine(p, s, Ok(s2), sigs)
    BY <2>4, <2>10 DEF Fine, Ok
  <2>12. Fine(p, s, Stop(p, s2, {}), sigs) /\ Fine(p, s, Stop(p, s2, bad), sigs)
    <3>1. /\ Fine(p, s2, Stop(p, s2, {}), {})
          /\ Fine(p, s2, Stop(p, s2, bad), {})
      BY <2>3, <2>4, <2>9, <2>13, StopFine DEF PhoneOK
    <3> QED BY <3>1, <2>4, <2>9, <2>10 DEF Fine, Moves
  <2>15. ASSUME s.phase = "Signing", ~(Cardinality(DOMAIN s2.psigs) < N),
                bad = {}
         PROVE  Fine(p, s, Ok(t), sigs)
    <3>1. DOMAIN s2.regs \subseteq DOMAIN s2.psigs
      BY <2>3, <2>9, <2>15, FullLemma DEF PhoneOK, IsPhone
    <3>2. PartialSig(t) = PartialSig(s) /\ View(t) = View(s)
      BY <2>3, <2>4, <2>7 DEF PartialSig, View
    <3>3. p \in DOMAIN s.regs
      BY <2>15 DEF PhoneOK, Sound, Built
    <3>4. Sound(p, t)
      BY <2>3, <2>4, <2>7, <2>9, <2>14, <2>15, <3>1, <3>2, <3>3
         DEF PhoneOK, Sound, Built, Aggregated
    <3>5. Moves(p, s, t, <<>>, sigs)
      BY <2>1, <2>2, <2>3, <2>4, <2>7, <2>8, <2>9, <2>15, <3>3, <3>4, PostLemma
         DEF Moves, Before, Over, PhoneOK
    <3> QED BY <3>5 DEF Fine, Ok
  <2> QED BY <2>5, <2>11, <2>12, <2>15
<1> QED BY <1>2, <1>3

(* Whatever the kind of a message, its handler makes only allowed moves.   *)
LEMMA HandleFine ==
  ASSUME NEW p \in Sessions, NEW s, PhoneOK(p, s), NEW sigs,
         s.phase \notin Over, NEW from \in Sessions, NEW m, IsMessage(m),
         Kind(m) = "psigs" => <<from, Val(m)>> \in sigs
  PROVE  Fine(p, s, Handle(p, s, from, m), sigs)
<1>1. /\ Fine(p, s, Ok(s), sigs) /\ Fine(p, s, Err(s), sigs)
      /\ Fine(p, s, Stop(p, s, {}), sigs)
  BY OkFine, StopFine
<1>2. ASSUME Kind(m) = "view" PROVE Fine(p, s, OnView(p, s, from, Val(m)), sigs)
  BY <1>2, OnViewFine DEF IsMessage
<1>3. ASSUME Kind(m) = "inputs" PROVE Fine(p, s, OnInputs(p, s, from, Val(m)), sigs)
  BY <1>3, OnInputsFine DEF IsMessage
<1>4. ASSUME Kind(m) = "output" PROVE Fine(p, s, OnOutput(p, s, Val(m)), sigs)
  BY <1>4, OnOutputFine DEF IsMessage
<1>5. ASSUME Kind(m) = "nonces", from \in DOMAIN s.regs
      PROVE  Fine(p, s, OnNonces(p, s, from, Val(m)), sigs)
  BY <1>5, OnNoncesFine DEF IsMessage
<1>6. ASSUME Kind(m) = "psigs", from \in DOMAIN s.regs
      PROVE  Fine(p, s, OnPsigs(p, s, from, Val(m)), sigs)
  BY <1>6, OnPsigsFine DEF IsMessage
<1> QED BY <1>1, <1>2, <1>3, <1>4, <1>5, <1>6 DEF Handle

(* Attempt::on, the guard of the phase and the naming included, makes      *)
(* only allowed moves.                                                     *)
LEMMA OnMsgFine ==
  ASSUME NEW p \in Sessions, NEW s, PhoneOK(p, s), NEW sigs,
         NEW from \in Sessions, NEW m, IsMessage(m),
         Kind(m) = "psigs" => <<from, Val(m)>> \in sigs
  PROVE  Fine(p, s, OnMsg(p, s, from, m), sigs)
<1> DEFINE r == Handle(p, s, from, m)
<1>1. CASE s.phase \in Over
  BY <1>1, OkFine DEF OnMsg
<1>2. CASE s.phase \notin Over
  <2>1. Fine(p, s, r, sigs)
    BY <1>2, HandleFine
  <2>2. \/ OnMsg(p, s, from, m) = r
        \/ r.err /\ OnMsg(p, s, from, m) = Stop(p, r.s, {from})
        \/ r.err /\ OnMsg(p, s, from, m) = Ok(r.s)
    <3>1. CASE ~r.err
      BY <1>2, <3>1 DEF OnMsg
    <3>2. CASE r.err /\ (from \in DOMAIN r.s.regs /\ from # p)
      BY <1>2, <3>2 DEF OnMsg
    <3>3. CASE r.err /\ ~(from \in DOMAIN r.s.regs /\ from # p)
      BY <1>2, <3>3 DEF OnMsg
    <3> QED BY <3>1, <3>2, <3>3
  <2> HIDE DEF r
  <2>3. ASSUME r.err PROVE Fine(p, s, Stop(p, r.s, {from}), sigs)
    <3>1. PhoneOK(p, r.s) /\ r.s.phase = s.phase
      BY <2>1, <2>3 DEF Fine, Moves
    <3>2. Fine(p, r.s, Stop(p, r.s, {from}), {})
      BY <1>2, <3>1, StopFine
    <3> QED BY <1>2, <2>1, <3>1, <3>2 DEF Fine, Moves
  <2>4. ASSUME r.err PROVE Fine(p, s, Ok(r.s), sigs)
    <3>1. PhoneOK(p, r.s) /\ r.s.phase = s.phase
      BY <2>1, <2>4 DEF Fine, Moves
    <3>2. Fine(p, r.s, Ok(r.s), {})
      BY <3>1, OkFine
    <3> QED BY <1>2, <2>1, <3>1, <3>2 DEF Fine, Moves
  <2> QED BY <2>1, <2>2, <2>3, <2>4
<1> QED BY <1>1, <1>2

(* A message read by the driver, its repeats included, leads to allowed    *)
(* moves only.                                                             *)
LEMMA ReadFine ==
  ASSUME NEW p \in Sessions, NEW s, PhoneOK(p, s), NEW sigs,
         NEW from \in Sessions, NEW m, IsMessage(m),
         Kind(m) = "psigs" => <<from, Val(m)>> \in sigs
  PROVE  Fine(p, s, Read(p, s, from, m), sigs)
<1> DEFINE c == Collect(s, from, m)
           r == OnMsg(p, c, from, m)
           t == TryComplete(r.s)
<1>1. IsPhone(c)
  BY DEF Collect, PhoneOK, IsPhone, Fresh
<1>2. Alike(s, c)
  BY DEF Collect, Alike, PhoneOK, IsPhone, Fresh
<1>3. Fine(p, s, r, sigs)
  <2> HIDE DEF c
  <2>1. PhoneOK(p, c)
    BY <1>1, <1>2, AlikeLemma DEF PhoneOK
  <2>2. Fine(p, c, r, sigs)
    BY <2>1, OnMsgFine
  <2> QED BY <1>2, <2>2, AlikeLemma DEF PhoneOK
<1>4. /\ Read(p, s, from, m).s = t /\ Read(p, s, from, m).post = r.post
      /\ Read(p, s, from, m).pay = r.pay /\ Read(p, s, from, m).err = r.err
  BY DEF Read
<1> HIDE DEF r
<1>5. PhoneOK(p, r.s)
  BY <1>3 DEF Fine, Moves
<1>6. IsPhone(t)
  BY <1>5 DEF TryComplete, PhoneOK, IsPhone, Fresh
<1>7. Alike(r.s, t)
  BY <1>5 DEF TryComplete, Alike, PhoneOK, IsPhone, Fresh
<1> HIDE DEF t
<1>8. PhoneOK(p, t) /\ View(t) = View(r.s)
  BY <1>5, <1>6, <1>7, AlikeLemma DEF PhoneOK, Alike, View
<1> QED BY <1>3, <1>4, <1>7, <1>8 DEF Fine, Moves, Alike

-----------------------------------------------------------------------------
(* The invariant of the pool.                                              *)

(* A partial signature a phone keeps of an honest member is one it posted. *)
SigsHeard ==
  \A p, q \in Honest : q \in DOMAIN st[p].psigs =>
    M("psigs", st[p].psigs[q]) \in Sent(q)

Unsigned ==
  \A p \in Honest : st[p].phase \in Before => SentOf(p, "psigs") = {}

Covered(p, v) ==
  /\ p \in DOMAIN v.regs
  /\ \E i \in DOMAIN v.pays : v.pays[i] = p
  /\ \A q \in Honest \cap DOMAIN v.regs :
       \E g \in SentOf(q, "psigs") : Val(g).view = v

DiskCovered == \A p \in Honest : \A v \in disk[p] : Covered(p, v)

Recorded ==
  \A p \in Honest : st[p].recordSaved => disk[p] = {View(st[p])}

FundedPhase ==
  \A p \in Honest : \A msg \in SentOf(p, "fsigs") :
    /\ st[p].phase \in {"FundingSigned", "Closed"}
    /\ \E v \in disk[p] : Funding(v) = Val(msg)

AbortPhase ==
  \A p \in Honest : SentOf(p, "abort") # {} => st[p].phase = "Stopped"

Inv ==
  /\ TypeOK
  /\ \A p \in Honest : Sound(p, st[p])
  /\ SigsHeard /\ NonceOnce /\ Unsigned /\ DiskCovered /\ Recorded
  /\ FundedPhase /\ AbortPhase

(* What a whole step of phone p makes of its state s and its disk old.     *)
Turn(p, s, old, t, post, d, sigs) ==
  /\ PhoneOK(p, t)
  /\ post \in Seq(Elems(post)) /\ Len(post) <= 2
  /\ \A msg \in Elems(post) : IsMessage(msg)
  /\ t.phase \in Before => s.phase \in Before
  /\ s.phase \in Over => t.phase = s.phase /\ post = <<>> /\ d = old
  /\ t.recordSaved /\ t.phase # "Stopped" => d = {View(t)}
  /\ \/ d \subseteq old
     \/ d = {View(t)} /\ t.phase \in Aggregated
  /\ \A q \in DOMAIN t.psigs :
       \/ q \in DOMAIN s.psigs /\ t.psigs[q] = s.psigs[q]
       \/ <<q, t.psigs[q]>> \in sigs
  /\ \A msg \in Elems(post) :
       /\ Kind(msg) = "abort" => t.phase = "Stopped"
       /\ Kind(msg) = "psigs" => /\ s.phase = "View" /\ t.phase = "Signing"
                                 /\ Len(post) = 1
       /\ Kind(msg) = "fsigs" => /\ t.phase = "FundingSigned"
                                 /\ Val(msg) = Funding(View(t))

(* A handler followed by store::after, whether or not the save succeeds,   *)
(* is a turn.                                                              *)
LEMMA AfterTurn ==
  ASSUME NEW p \in Sessions, NEW s, Sound(p, s), NEW r, NEW sigs, NEW save,
         Fine(p, s, r, sigs), s.recordSaved => disk[p] = {View(s)}
  PROVE  Turn(p, s, disk[p], After(p, s, r, save).r.s,
              After(p, s, r, save).r.post, After(p, s, r, save).disk, sigs)
<1> DEFINE a == After(p, s, r, save)
<1> SUFFICES Turn(p, s, disk[p], a.r.s, a.r.post, a.disk, sigs)
  OBVIOUS
<1>0. PhoneOK(p, r.s) /\ Moves(p, s, r.s, r.post, sigs)
  BY DEF Fine, Moves
<1>1. CASE ~(r.s.phase = "Funding" /\ s.phase # "Funding")
  <2>1. /\ a.r = r
        /\ a.disk = IF r.s.phase = "Stopped" /\ s.phase # "Stopped"
                       /\ r.s.recordSaved
                    THEN {} ELSE disk[p]
    BY <1>1 DEF After
  <2> HIDE DEF a
  <2>2. r.s.recordSaved /\ r.s.phase # "Stopped" => a.disk = {View(r.s)}
    BY <1>0, <2>1 DEF Moves
  <2>3. s.phase \in Over => a.disk = disk[p]
    BY <1>0, <2>1 DEF Moves
  <2>4. a.disk \subseteq disk[p]
    BY <2>1
  <2>5. Turn(p, s, disk[p], r.s, r.post, a.disk, sigs)
    <3> DEFINE d == a.disk
               t == r.s
               post == r.post
    <3>1. /\ t.recordSaved /\ t.phase # "Stopped" => d = {View(t)}
          /\ s.phase \in Over => d = disk[p]
          /\ d \subseteq disk[p]
      BY <2>2, <2>3, <2>4
    <3>2. Moves(p, s, t, post, sigs)
      BY <1>0
    <3> HIDE DEF d, t, post
    <3>3. Turn(p, s, disk[p], t, post, d, sigs)
      BY <3>1, <3>2 DEF Turn, Moves
    <3> QED BY <3>3 DEF d, t, post
  <2> QED BY <2>1, <2>5
<1>2. CASE r.s.phase = "Funding" /\ s.phase # "Funding"
  <2>1. s.phase \notin Over /\ ~s.recordSaved
    BY <1>0, <1>2 DEF Moves, Sound, Over, Aggregated
  <2>2. ~r.s.recordSaved
    BY <1>0, <2>1 DEF Moves
  <2>3. CASE save = "saved"
    <3> DEFINE u == [r.s EXCEPT !.recordSaved = TRUE]
    <3>1. a.r = TryFund(u) /\ a.disk = {View(r.s)}
      BY <1>2, <2>3 DEF After
    <3>2. IsPhone(u)
      BY <1>0 DEF PhoneOK, IsPhone, Fresh
    <3>3. /\ u.phase = r.s.phase /\ u.regs = r.s.regs /\ u.pays = r.s.pays
          /\ u.psigs = r.s.psigs /\ u.nonces = r.s.nonces
          /\ u.recordSaved = TRUE /\ u.coinsAsked = r.s.coinsAsked
      BY <1>0 DEF PhoneOK, IsPhone, Fresh
    <3> HIDE DEF u, a
    <3>4. View(u) = View(r.s) /\ PartialSig(u) = PartialSig(r.s)
      BY <3>3 DEF View, PartialSig
    <3>5. Sound(p, u)
      BY <1>0, <1>2, <3>3, <3>4 DEF PhoneOK, Sound, Aggregated, Built
    <3>6. Fine(p, u, TryFund(u), {})
      BY <1>2, <3>2, <3>3, <3>5, TryFundFine DEF PhoneOK
    <3>7. TryFund(u).s.recordSaved /\ TryFund(u).s.phase \in Aggregated
      <4>1. TryFund(u).s = u \/ TryFund(u).s = [u EXCEPT !.phase = "FundingSigned"]
        BY DEF TryFund, Ok, Posting
      <4>2. [u EXCEPT !.phase = "FundingSigned"].recordSaved = u.recordSaved
            /\ [u EXCEPT !.phase = "FundingSigned"].phase = "FundingSigned"
        BY <3>2 DEF IsPhone, Fresh
      <4> QED BY <1>2, <3>3, <4>1, <4>2 DEF Aggregated
    <3> DEFINE t == TryFund(u).s
    <3>8. Moves(p, u, t, TryFund(u).post, {})
      BY <3>6 DEF Fine
    <3>9. View(t) = View(r.s)
      BY <3>4, <3>7, <3>8 DEF Moves
    <3>10. /\ PhoneOK(p, t) /\ t.phase \notin Before
           /\ \A q \in DOMAIN t.psigs : q \in DOMAIN r.s.psigs
                                        /\ t.psigs[q] = r.s.psigs[q]
      BY <3>3, <3>7, <3>8 DEF Moves, Aggregated, Before
    <3>11. \A msg \in Elems(TryFund(u).post) :
             /\ IsMessage(msg) /\ Kind(msg) # "psigs"
             /\ Kind(msg) = "abort" => t.phase = "Stopped"
             /\ Kind(msg) = "fsigs" => /\ t.phase = "FundingSigned"
                                       /\ Val(msg) = Funding(View(t))
      BY <1>2, <3>3, <3>8 DEF Moves
    <3>12. /\ TryFund(u).post \in Seq(Elems(TryFund(u).post))
           /\ Len(TryFund(u).post) <= 2
      BY <3>8 DEF Moves
    <3> HIDE DEF t
    <3> QED BY <1>0, <2>1, <3>1, <3>7, <3>9, <3>10, <3>11, <3>12 DEF Turn, Moves, t
  <2>4. CASE save # "saved"
    <3> DEFINE t == [r.s EXCEPT !.asked = {}]
    <3>1. /\ a.r.s = t /\ a.r.post = <<>>
          /\ a.disk = IF save = "lost" THEN disk[p] ELSE {View(r.s)}
      BY <1>2, <2>4 DEF After, Ok
    <3>2. IsPhone(t)
      BY <1>0 DEF PhoneOK, IsPhone, Fresh
    <3>3. Alike(r.s, t)
      BY <1>0 DEF Alike, PhoneOK, IsPhone, Fresh
    <3> HIDE DEF t, a
    <3>4. PhoneOK(p, t) /\ View(t) = View(r.s) /\ ~t.recordSaved
          /\ t.phase = "Funding" /\ t.psigs = r.s.psigs
      BY <1>0, <1>2, <2>2, <3>2, <3>3, AlikeLemma DEF PhoneOK, Alike, View
    <3> QED BY <1>0, <2>1, <3>1, <3>4, PostLemma
            DEF Turn, Moves, Before, Aggregated
  <2> QED BY <2>3, <2>4
<1> QED BY <1>1, <1>2

(* Posts added to a relay sequence: its length, its entries, its           *)
(* elements.                                                               *)
LEMMA ConcatLemma ==
  ASSUME NEW S, NEW T, NEW sq \in Seq(S), NEW po \in Seq(T)
  PROVE  /\ sq \o po \in Seq(S \cup T)
         /\ Len(sq \o po) = Len(sq) + Len(po)
         /\ \A i \in 1..Len(sq) : (sq \o po)[i] = sq[i]
         /\ \A i \in (Len(sq) + 1)..(Len(sq) + Len(po)) :
              (sq \o po)[i] = po[i - Len(sq)]
         /\ Elems(sq \o po) = Elems(sq) \cup Elems(po)
<1>1. /\ sq \o po \in Seq(S \cup T)
      /\ Len(sq \o po) = Len(sq) + Len(po)
      /\ Len(sq) \in Nat /\ Len(po) \in Nat
  OBVIOUS
<1>2. \A i \in 1..Len(sq) : (sq \o po)[i] = sq[i]
  OBVIOUS
<1>3. \A i \in (Len(sq) + 1)..(Len(sq) + Len(po)) :
        (sq \o po)[i] = po[i - Len(sq)]
  OBVIOUS
<1>4. ASSUME NEW e \in Elems(sq \o po) PROVE e \in Elems(sq) \cup Elems(po)
  <2>1. PICK i \in 1..Len(sq \o po) : e = (sq \o po)[i]
    BY DEF Elems
  <2>2. CASE i \in 1..Len(sq)
    BY <1>2, <2>1, <2>2 DEF Elems
  <2>3. CASE i \in (Len(sq) + 1)..(Len(sq) + Len(po))
    <3>1. e = po[i - Len(sq)] /\ i - Len(sq) \in 1..Len(po)
      BY <1>1, <1>3, <2>1, <2>3
    <3> QED BY <3>1 DEF Elems
  <2> QED BY <1>1, <2>1, <2>2, <2>3
<1>5. ASSUME NEW e \in Elems(sq) PROVE e \in Elems(sq \o po)
  <2>1. PICK i \in 1..Len(sq) : e = sq[i]
    BY DEF Elems
  <2>2. i \in 1..Len(sq \o po) /\ e = (sq \o po)[i]
    BY <1>1, <1>2, <2>1
  <2> QED BY <2>2 DEF Elems
<1>6. ASSUME NEW e \in Elems(po) PROVE e \in Elems(sq \o po)
  <2>1. PICK i \in 1..Len(po) : e = po[i]
    BY DEF Elems
  <2>2. i + Len(sq) \in (Len(sq) + 1)..(Len(sq) + Len(po))
        /\ (i + Len(sq)) - Len(sq) = i
    BY <1>1
  <2>3. i + Len(sq) \in 1..Len(sq \o po) /\ e = (sq \o po)[i + Len(sq)]
    BY <1>1, <1>3, <2>1, <2>2
  <2> QED BY <2>3 DEF Elems
<1> QED BY <1>1, <1>2, <1>3, <1>4, <1>5, <1>6

(* One post added to a relay sequence.                                     *)
LEMMA AppendLemma ==
  ASSUME NEW S, NEW sq \in Seq(S), NEW m
  PROVE  /\ Append(sq, m) \in Seq(Elems(Append(sq, m)))
         /\ Elems(Append(sq, m)) = Elems(sq) \cup {m}
<1> DEFINE n == Len(sq)
           ap == Append(sq, m)
<1>1. /\ n \in Nat /\ Len(ap) = n + 1 /\ ap[n + 1] = m
      /\ \A i \in 1..n : ap[i] = sq[i]
      /\ DOMAIN ap = 1..(n + 1)
  OBVIOUS
<1>2. ap \in Seq(S \cup {m})
  OBVIOUS
<1> HIDE DEF ap
<1>3. Elems(ap) = Elems(sq) \cup {m}
  BY <1>1 DEF Elems
<1>4. \A i \in 1..Len(ap) : ap[i] \in Elems(ap)
  BY DEF Elems
<1>5. ap \in Seq(Elems(ap))
  BY <1>1, <1>2, <1>4
<1> QED BY <1>3, <1>5 DEF ap

(* A new attempt is a phone, with nothing registered and nothing signed.   *)
LEMMA FreshLemma ==
  /\ IsPhone(Fresh)
  /\ Count(Fresh.regs) = 0 /\ DOMAIN Fresh.psigs = {}
<1>1. DOMAIN Empty = {}
  BY DEF Empty
<1>2. \A D, R : IsMap(Empty, D, R)
  BY DEF IsMap, Empty
<1>3. IsPhone(Fresh)
  BY <1>1, <1>2 DEF IsPhone, Fresh, Phases
<1> QED BY <1>1, <1>3, FS_EmptySet DEF Fresh, Count

(* An attempt that left the page is a sound phone without record or        *)
(* signatures.                                                             *)
LEMMA GoneLemma ==
  ASSUME NEW p, NEW s, IsPhone(s), NEW phase \in {"Stopped", "Closed"}
  PROVE  /\ PhoneOK(p, Gone(s, phase))
         /\ Gone(s, phase).phase = phase
         /\ Gone(s, phase).recordSaved = FALSE
         /\ DOMAIN Gone(s, phase).psigs = {}
<1> DEFINE g == Gone(s, phase)
<1>1. IsPhone(g)
  BY FreshLemma DEF Gone, IsPhone, Fresh, Phases
<1>2. /\ g.phase = phase /\ g.recordSaved = FALSE /\ g.coinsAsked = FALSE
      /\ g.regs = Fresh.regs /\ g.psigs = Fresh.psigs
  BY DEF Gone, Fresh
<1> HIDE DEF g
<1>3. Sound(p, g)
  BY <1>2, FreshLemma, PoolAssumption DEF Sound, Built, Aggregated
<1>4. PhoneOK(p, g) /\ g.phase = phase /\ g.recordSaved = FALSE
      /\ DOMAIN g.psigs = {}
  BY <1>1, <1>2, <1>3, FreshLemma DEF PhoneOK
<1> QED BY <1>4 DEF g

(* What the page keeps of an attempt that has just stopped.                *)
LEMMA KeptLemma ==
  ASSUME NEW p, NEW t, PhoneOK(p, t)
  PROVE  /\ PhoneOK(p, Kept(t)) /\ Kept(t).phase = t.phase
         /\ t.phase # "Stopped" => Kept(t) = t
         /\ t.phase = "Stopped" => Kept(t).recordSaved = FALSE
                                    /\ DOMAIN Kept(t).psigs = {}
<1>1. CASE t.phase # "Stopped"
  BY <1>1 DEF Kept
<1>2. CASE t.phase = "Stopped"
  <2>1. Kept(t) = Gone(t, "Stopped")
    BY <1>2 DEF Kept
  <2> QED BY <1>2, <2>1, GoneLemma DEF PhoneOK
<1> QED BY <1>1, <1>2

(* A step of phone p on the relay: it appends post to its own log, other   *)
(* honest logs stay, and those of the other sessions hold messages.        *)
Relayed(p, post) ==
  /\ DOMAIN posts' = Sessions
  /\ posts'[p] = posts[p] \o post
  /\ \A q \in Honest : q # p => posts'[q] = posts[q]
  /\ \A q \in Byzantine : /\ posts'[q] \in Seq(Elems(posts'[q]))
                          /\ \A msg \in Elems(posts'[q]) : IsMessage(msg)
  /\ payouts' \subseteq Outputs

(* What a phone posts is on the relay as its own post and nobody else's.   *)
LEMMA RelayedLemma ==
  ASSUME Inv, NEW p \in Honest, NEW post, Relayed(p, post),
         post \in Seq(Elems(post)), \A msg \in Elems(post) : IsMessage(msg)
  PROVE  /\ Sent(p)' = Sent(p) \cup Elems(post)
         /\ \A q \in Honest : q # p => Sent(q)' = Sent(q)
         /\ \A q \in Honest : Sent(q) \subseteq Sent(q)'
         /\ \A q \in Sessions :
              /\ posts'[q] \in Seq(Sent(q)')
              /\ \A msg \in Sent(q)' : IsMessage(msg)
<1>1. /\ p \in Sessions /\ posts[p] \in Seq(Sent(p))
      /\ \A msg \in Sent(p) : IsMessage(msg)
  BY PoolAssumption DEF Inv, TypeOK
<1>2. \A q : Sent(q) = Elems(posts[q]) /\ Sent(q)' = Elems(posts'[q])
  BY DEF Sent, Elems
<1>3. /\ Elems(posts'[p]) = Elems(posts[p]) \cup Elems(post)
      /\ posts'[p] \in Seq(Elems(posts[p]) \cup Elems(post))
  BY <1>1, <1>2, ConcatLemma DEF Relayed
<1>4. \A q \in Honest : q # p => Sent(q)' = Sent(q)
  BY <1>2 DEF Relayed
<1>5. \A q \in Sessions : q \in Honest \/ q \in Byzantine
  BY DEF Byzantine
<1>6. ASSUME NEW q \in Sessions
      PROVE  /\ posts'[q] \in Seq(Sent(q)')
             /\ \A msg \in Sent(q)' : IsMessage(msg)
  <2>1. CASE q = p
    BY <1>1, <1>2, <1>3, <2>1
  <2>2. CASE q \in Honest /\ q # p
    BY <1>4, <2>2 DEF Inv, TypeOK, Relayed
  <2>3. CASE q \in Byzantine
    BY <1>2, <2>3 DEF Relayed
  <2> QED BY <1>5, <2>1, <2>2, <2>3
<1>7. Sent(p)' = Sent(p) \cup Elems(post)
  BY <1>2, <1>3
<1>8. \A q \in Honest : Sent(q) \subseteq Sent(q)'
  BY <1>4, <1>7
<1> QED BY <1>4, <1>6, <1>7, <1>8

(* A whole step of a phone keeps the invariant.                            *)
LEMMA TurnInv ==
  ASSUME Inv, NEW p \in Honest, NEW t, NEW post, NEW d, NEW sigs,
         Turn(p, st[p], disk[p], t, post, d, sigs),
         \A q \in Honest : \A g : <<q, g>> \in sigs => M("psigs", g) \in Sent(q),
         st' = [st EXCEPT ![p] = Kept(t)],
         disk' = [disk EXCEPT ![p] = d],
         Relayed(p, post)
  PROVE  Inv'
<1> DEFINE k == Kept(t)
<1>1. /\ DOMAIN st = Honest /\ DOMAIN disk = Honest
      /\ \A q \in Honest : IsPhone(st[q]) /\ Sound(q, st[q])
      /\ p \in Sessions /\ posts[p] \in Seq(Sent(p))
  BY PoolAssumption DEF Inv, TypeOK
<1>2. /\ DOMAIN st' = Honest /\ DOMAIN disk' = Honest
      /\ st'[p] = k /\ disk'[p] = d
      /\ \A q \in Honest : q # p => st'[q] = st[q] /\ disk'[q] = disk[q]
  BY <1>1
<1>3. /\ PhoneOK(p, t) /\ post \in Seq(Elems(post))
      /\ \A msg \in Elems(post) : IsMessage(msg)
  BY DEF Turn
<1>4. /\ PhoneOK(p, k) /\ k.phase = t.phase
      /\ t.phase # "Stopped" => k = t
      /\ t.phase = "Stopped" => k.recordSaved = FALSE /\ DOMAIN k.psigs = {}
  BY <1>3, KeptLemma
<1>5. /\ Sent(p)' = Sent(p) \cup Elems(post)
      /\ \A q \in Honest : q # p => Sent(q)' = Sent(q)
      /\ \A q \in Honest : Sent(q) \subseteq Sent(q)'
      /\ \A q \in Sessions : /\ posts'[q] \in Seq(Sent(q)')
                             /\ \A msg \in Sent(q)' : IsMessage(msg)
  BY <1>3, RelayedLemma
<1> HIDE DEF k
<1>6. /\ \A q \in Honest : \A kind :
           q # p => SentOf(q, kind)' = SentOf(q, kind)
      /\ \A q \in Honest : \A kind : SentOf(q, kind) \subseteq SentOf(q, kind)'
      /\ \A kind : SentOf(p, kind)' =
           SentOf(p, kind) \cup {msg \in Elems(post) : Kind(msg) = kind}
  BY <1>5 DEF SentOf
<1>7. IsView(View(t))
  BY <1>3 DEF PhoneOK, IsPhone, IsView, View, IsMap
<1>8. TypeOK'
  <2>1. \A q \in Honest : IsPhone(st'[q])
    BY <1>1, <1>2, <1>4 DEF PhoneOK
  <2>2. \A v \in disk[p] : IsView(v) /\ disk[p] = {v}
    BY DEF Inv, TypeOK
  <2>3. \A v \in d : IsView(v) /\ d = {v}
    <3>1. d \subseteq disk[p] \/ d = {View(t)}
      BY DEF Turn
    <3> QED BY <1>7, <2>2, <3>1
  <2>4. \A q \in Honest : \A v \in disk'[q] : IsView(v) /\ disk'[q] = {v}
    BY <1>2, <2>3 DEF Inv, TypeOK
  <2>5. DOMAIN posts' = Sessions /\ payouts' \subseteq Outputs
    BY DEF Relayed
  <2> QED BY <1>2, <1>5, <2>1, <2>4, <2>5 DEF TypeOK
<1>9. \A q \in Honest : Sound(q, st'[q])
  BY <1>1, <1>2, <1>4 DEF PhoneOK
<1>10. SigsHeard'
  <2> SUFFICES ASSUME NEW r \in Honest, NEW q \in Honest,
                      q \in DOMAIN st'[r].psigs
               PROVE  M("psigs", st'[r].psigs[q]) \in Sent(q)'
    BY DEF SigsHeard
  <2>1. CASE r # p
    BY <1>2, <1>5, <2>1 DEF Inv, SigsHeard
  <2>2. CASE r = p
    <3>1. k = t
      BY <1>2, <1>4, <2>2
    <3>2. \/ q \in DOMAIN st[p].psigs /\ t.psigs[q] = st[p].psigs[q]
          \/ <<q, t.psigs[q]>> \in sigs
      BY <1>2, <2>2, <3>1 DEF Turn
    <3>3. M("psigs", t.psigs[q]) \in Sent(q)
      BY <3>2 DEF Inv, SigsHeard
    <3> QED BY <1>2, <1>5, <2>2, <3>1, <3>3
  <2> QED BY <2>1, <2>2
<1>11. NonceOnce'
  <2> SUFFICES ASSUME NEW q \in Honest,
                      NEW i \in 1..Len(posts'[q]), NEW j \in 1..Len(posts'[q]),
                      Kind(posts'[q][i]) = "psigs", Kind(posts'[q][j]) = "psigs"
               PROVE  i = j
    BY DEF NonceOnce
  <2>1. CASE q # p
    BY <2>1 DEF Relayed, Inv, NonceOnce
  <2>2. CASE q = p
    <3> DEFINE n == Len(posts[p])
    <3>1. /\ Len(posts'[p]) = n + Len(post) /\ n \in Nat /\ Len(post) \in Nat
          /\ \A x \in 1..n : posts'[p][x] = posts[p][x]
          /\ \A x \in (n + 1)..(n + Len(post)) : posts'[p][x] = post[x - n]
      BY <1>1, <1>3, ConcatLemma DEF Relayed
    <3>2. \A x \in (n + 1)..(n + Len(post)) : posts'[p][x] \in Elems(post)
      <4> TAKE x \in (n + 1)..(n + Len(post))
      <4>1. x - n \in 1..Len(post)
        BY <3>1
      <4> QED BY <3>1, <4>1 DEF Elems
    <3>3. \A x \in 1..n : posts[p][x] \in Sent(p)
      BY DEF Sent
    <3>4. CASE \E msg \in Elems(post) : Kind(msg) = "psigs"
      <4>1. st[p].phase \in Before /\ Len(post) = 1
        BY <3>4 DEF Turn, Before
      <4>2. \A x \in 1..n : Kind(posts[p][x]) # "psigs"
        BY <3>3, <4>1 DEF Inv, Unsigned, SentOf
      <4> QED BY <2>2, <3>1, <4>1, <4>2
    <3>5. CASE \A msg \in Elems(post) : Kind(msg) # "psigs"
      <4>1. i \in 1..n /\ j \in 1..n
        BY <2>2, <3>1, <3>2, <3>5
      <4> QED BY <2>2, <3>1, <4>1 DEF Inv, NonceOnce
    <3> QED BY <3>4, <3>5
  <2> QED BY <2>1, <2>2
<1>12. Unsigned'
  <2> SUFFICES ASSUME NEW q \in Honest, st'[q].phase \in Before
               PROVE  SentOf(q, "psigs")' = {}
    BY DEF Unsigned
  <2>1. CASE q # p
    BY <1>2, <1>6, <2>1 DEF Inv, Unsigned
  <2>2. CASE q = p
    <3>1. t.phase \in Before
      BY <1>2, <1>4, <2>2
    <3>2. st[p].phase \in Before
      BY <3>1 DEF Turn
    <3>3. \A msg \in Elems(post) : Kind(msg) # "psigs"
      BY <3>1 DEF Turn, Before
    <3> QED BY <1>6, <2>2, <3>2, <3>3 DEF Inv, Unsigned
  <2> QED BY <2>1, <2>2
<1>13. DiskCovered'
  <2> SUFFICES ASSUME NEW r \in Honest, NEW v \in disk'[r]
               PROVE  Covered(r, v)'
    BY DEF DiskCovered
  <2>1. CASE v \in disk[r]
    BY <1>6, <2>1 DEF Inv, DiskCovered, Covered
  <2>2. CASE v \notin disk[r]
    <3>1. r = p /\ v = View(t) /\ t.phase \in Aggregated
      BY <1>2, <2>2 DEF Turn
    <3>2. /\ p \in DOMAIN t.regs
          /\ \E i \in DOMAIN t.pays : t.pays[i] = p
          /\ \A q \in DOMAIN t.regs : q \in DOMAIN t.psigs
                                     /\ t.psigs[q] = PartialSig(t)
      BY <1>3, <3>1 DEF PhoneOK, Sound, Aggregated, Built
    <3>3. k = t
      BY <1>4, <3>1 DEF Aggregated
    <3>4. v.regs = t.regs /\ v.pays = t.pays /\ PartialSig(t).view = v
      BY <3>1 DEF View, PartialSig
    <3>5. ASSUME NEW q \in Honest, q \in DOMAIN t.regs
          PROVE  \E g \in SentOf(q, "psigs")' : Val(g).view = v
      <4> DEFINE g == M("psigs", PartialSig(t))
      <4>1. g \in Sent(q)'
        BY <1>2, <1>10, <3>2, <3>3, <3>5 DEF SigsHeard
      <4>2. Kind(g) = "psigs" /\ Val(g).view = v
        BY <3>4 DEF M, Kind, Val
      <4> QED BY <4>1, <4>2 DEF SentOf
    <3> QED BY <3>1, <3>2, <3>4, <3>5 DEF Covered
  <2> QED BY <2>1, <2>2
<1>14. Recorded'
  <2> SUFFICES ASSUME NEW q \in Honest, st'[q].recordSaved
               PROVE  disk'[q] = {View(st'[q])}
    BY DEF Recorded, View
  <2>1. CASE q # p
    BY <1>2, <2>1 DEF Inv, Recorded
  <2>2. CASE q = p
    BY <1>2, <1>4, <2>2 DEF Turn
  <2> QED BY <2>1, <2>2
<1>15. FundedPhase'
  <2> SUFFICES ASSUME NEW q \in Honest, NEW msg \in SentOf(q, "fsigs")'
               PROVE  /\ st'[q].phase \in {"FundingSigned", "Closed"}
                      /\ \E v \in disk'[q] : Funding(v) = Val(msg)
    BY DEF FundedPhase, Funding, Val
  <2>1. CASE q # p
    BY <1>2, <1>6, <2>1 DEF Inv, FundedPhase
  <2>2. CASE q = p /\ msg \in SentOf(p, "fsigs")
    <3>1. /\ st[p].phase \in {"FundingSigned", "Closed"}
          /\ \E v \in disk[p] : Funding(v) = Val(msg)
      BY <2>2 DEF Inv, FundedPhase
    <3>2. t.phase = st[p].phase /\ d = disk[p]
      BY <3>1 DEF Turn, Over
    <3> QED BY <1>2, <1>4, <2>2, <3>1, <3>2
  <2>3. CASE q = p /\ msg \notin SentOf(p, "fsigs")
    <3>1. msg \in Elems(post) /\ Kind(msg) = "fsigs"
      BY <1>6, <2>3
    <3>2. t.phase = "FundingSigned" /\ Val(msg) = Funding(View(t))
      BY <3>1 DEF Turn
    <3>3. t.recordSaved
      BY <1>3, <3>2 DEF PhoneOK, Sound
    <3>4. d = {View(t)}
      BY <3>2, <3>3 DEF Turn
    <3> QED BY <1>2, <1>4, <2>3, <3>2, <3>4
  <2> QED BY <2>1, <2>2, <2>3
<1>16. AbortPhase'
  <2> SUFFICES ASSUME NEW q \in Honest, SentOf(q, "abort")' # {}
               PROVE  st'[q].phase = "Stopped"
    BY DEF AbortPhase
  <2>1. CASE q # p
    BY <1>2, <1>6, <2>1 DEF Inv, AbortPhase
  <2>2. CASE q = p /\ SentOf(p, "abort") # {}
    <3>1. t.phase = st[p].phase /\ st[p].phase = "Stopped"
      BY <2>2 DEF Inv, AbortPhase, Turn, Over
    <3> QED BY <1>2, <1>4, <2>2, <3>1
  <2>3. CASE q = p /\ SentOf(p, "abort") = {}
    <3>1. \E msg \in Elems(post) : Kind(msg) = "abort"
      BY <1>6, <2>3
    <3> QED BY <1>2, <1>4, <2>3, <3>1 DEF Turn
  <2> QED BY <2>1, <2>2, <2>3
<1> QED
  BY <1>8, <1>9, <1>10, <1>11, <1>12, <1>13, <1>14, <1>15, <1>16 DEF Inv

(* A whole step of phone p on the state of the pool: a turn that takes its *)
(* partial signatures from what their signers posted.                      *)
PhoneTurn(p) ==
  \E t, post, d, sigs :
    /\ Turn(p, st[p], disk[p], t, post, d, sigs)
    /\ \A q \in Honest : \A g : <<q, g>> \in sigs => M("psigs", g) \in Sent(q)
    /\ st' = [st EXCEPT ![p] = Kept(t)]
    /\ disk' = [disk EXCEPT ![p] = d]
    /\ Relayed(p, post)

(* A step of a phone through the page is a turn of it, payouts included.   *)
LEMMA DoTurn ==
  ASSUME Inv, NEW p \in Honest, NEW r, NEW sigs, NEW save, NEW log, NEW paid,
         Fine(p, st[p], r, sigs),
         \A q \in Honest : \A g : <<q, g>> \in sigs => M("psigs", g) \in Sent(q),
         DoWith(p, r, save, log, paid),
         DOMAIN log = Sessions, \A q \in Honest : log[q] = posts[q],
         \A q \in Byzantine : /\ log[q] \in Seq(Elems(log[q]))
                              /\ \A msg \in Elems(log[q]) : IsMessage(msg),
         paid \subseteq Outputs
  PROVE  PhoneTurn(p)
<1> DEFINE a == After(p, st[p], r, save)
<1>1. /\ st' = [st EXCEPT ![p] = Kept(a.r.s)]
      /\ disk' = [disk EXCEPT ![p] = a.disk]
      /\ posts' = [log EXCEPT ![p] = @ \o a.r.post]
      /\ payouts' = paid \cup a.r.pay
  BY DEF DoWith
<1>2. a.r.pay \subseteq Outputs
  <2>1. a.r = r \/ a.r.pay = {}
    BY DEF After, TryFund, Posting, Ok
  <2> HIDE DEF a
  <2> QED BY <2>1 DEF Fine
<1>3. Turn(p, st[p], disk[p], a.r.s, a.r.post, a.disk, sigs)
  BY AfterTurn, PoolAssumption DEF Inv, Recorded
<1> HIDE DEF a
<1>4. p \in Sessions /\ \A q \in Byzantine : q # p /\ q \in Sessions
  BY PoolAssumption DEF Byzantine
<1>5. Relayed(p, a.r.post)
  <2>1. DOMAIN posts' = Sessions
    BY <1>1
  <2>2. posts'[p] = posts[p] \o a.r.post
    BY <1>1, <1>4
  <2>3. \A q \in Honest : q # p => posts'[q] = posts[q]
    BY <1>1, PoolAssumption
  <2>4. \A q \in Byzantine : posts'[q] = log[q]
    BY <1>1, <1>4
  <2> QED BY <1>1, <1>2, <2>1, <2>2, <2>3, <2>4 DEF Relayed
<1> QED BY <1>1, <1>3, <1>5 DEF PhoneTurn

(* ... with nothing new of the others on the relay.                        *)
LEMMA PlainDoTurn ==
  ASSUME Inv, NEW p \in Honest, NEW r, NEW sigs, NEW save,
         Fine(p, st[p], r, sigs),
         \A q \in Honest : \A g : <<q, g>> \in sigs => M("psigs", g) \in Sent(q),
         Do(p, r, save)
  PROVE  PhoneTurn(p)
<1>1. /\ DOMAIN posts = Sessions /\ payouts \subseteq Outputs
      /\ \A q \in Byzantine : /\ posts[q] \in Seq(Elems(posts[q]))
                              /\ \A msg \in Elems(posts[q]) : IsMessage(msg)
  BY DEF Inv, TypeOK, Byzantine, Sent, Elems
<1> QED BY <1>1, DoTurn DEF Do

(* Counting a post as read changes nothing a move is about.                *)
LEMMA SeenLemma ==
  ASSUME NEW p, NEW s, PhoneOK(p, s), NEW q \in Sessions
  PROVE  PhoneOK(p, Seen(s, q)) /\ Alike(s, Seen(s, q))
<1>1. IsPhone(Seen(s, q))
  BY DEF Seen, PhoneOK, IsPhone, Fresh
<1>2. Alike(s, Seen(s, q))
  BY DEF Seen, Alike, PhoneOK, IsPhone, Fresh
<1> QED BY <1>1, <1>2, AlikeLemma DEF PhoneOK

(* Reading a post is a turn of the phone.                                  *)
LEMMA ReadPostTurn ==
  ASSUME Inv, NEW p \in Honest, NEW q \in Sessions, NEW save,
         ReadPost(p, q, save)
  PROVE  PhoneTurn(p)
<1> DEFINE s == Seen(st[p], q)
           m == posts[q][st[p].cursor[q] + 1]
           sigs == IF Kind(m) = "psigs" THEN {<<q, Val(m)>>} ELSE {}
<1>1. PhoneOK(p, st[p]) /\ p \in Sessions
  BY PoolAssumption DEF Inv, TypeOK, PhoneOK
<1>2. PhoneOK(p, s) /\ Alike(st[p], s)
  BY <1>1, SeenLemma
<1>3. m \in Sent(q)
  <2>1. st[p].cursor[q] \in Nat
    BY <1>1 DEF PhoneOK, IsPhone
  <2>2. posts[q] \in Seq(Sent(q)) /\ st[p].cursor[q] < Len(posts[q])
    BY DEF Inv, TypeOK, ReadPost
  <2>3. st[p].cursor[q] + 1 \in 1..Len(posts[q])
    BY <2>1, <2>2
  <2> QED BY <2>3 DEF Sent
<1>4. IsMessage(m)
  BY <1>3 DEF Inv, TypeOK
<1>5. Do(p, Read(p, s, q, m), save)
  BY DEF ReadPost
<1>6. \A g : <<q, g>> \in sigs => M("psigs", g) \in Sent(q)
  <2>1. Kind(m) = "psigs" => m = M("psigs", Val(m))
    BY <1>4 DEF IsMessage
  <2> HIDE DEF m
  <2> QED BY <1>3, <2>1
<1> HIDE DEF m, s
<1>7. Fine(p, s, Read(p, s, q, m), sigs)
  BY <1>1, <1>2, <1>4, ReadFine
<1>8. Fine(p, st[p], Read(p, s, q, m), sigs)
  BY <1>1, <1>2, <1>7, AlikeLemma DEF PhoneOK
<1>9. \A x \in Honest : \A g : <<x, g>> \in sigs => M("psigs", g) \in Sent(x)
  BY <1>6
<1> HIDE DEF sigs
<1> QED BY <1>5, <1>8, <1>9, PlainDoTurn

(* Counting a payout as read changes nothing a move is about.              *)
LEMMA HeardLemma ==
  ASSUME NEW p, NEW s, PhoneOK(p, s), NEW out \in Outputs
  PROVE  /\ PhoneOK(p, [s EXCEPT !.heard = @ \cup {out}])
         /\ Alike(s, [s EXCEPT !.heard = @ \cup {out}])
<1> DEFINE t == [s EXCEPT !.heard = @ \cup {out}]
<1>1. IsPhone(t)
  BY DEF PhoneOK, IsPhone, Fresh
<1>2. Alike(s, t)
  BY DEF Alike, PhoneOK, IsPhone, Fresh
<1> QED BY <1>1, <1>2, AlikeLemma DEF PhoneOK

(* Moves stay allowed when their posts are dropped.                        *)
LEMMA Silent ==
  ASSUME NEW p, NEW s, NEW t, NEW post, NEW sigs, s.phase \notin Over,
         Moves(p, s, t, post, sigs)
  PROVE  Moves(p, s, t, <<>>, sigs)
  BY PostLemma DEF Moves

(* A payout read, with its error dropped.                                  *)
LEMMA PayoutFine ==
  ASSUME NEW p \in Sessions, NEW s, PhoneOK(p, s), s.phase \notin Over,
         NEW out \in Outputs, NEW t, t = [s EXCEPT !.heard = @ \cup {out}],
         NEW r, r = OnOutput(p, t, out)
  PROVE  Fine(p, s, r, {}) /\ Fine(p, s, Ok(r.s), {})
<1>1. PhoneOK(p, t) /\ Alike(s, t)
  BY HeardLemma
<1>2. Fine(p, t, r, {})
  BY <1>1, OnOutputFine DEF Alike
<1>3. Fine(p, s, r, {})
  BY <1>1, <1>2, AlikeLemma DEF PhoneOK
<1>4. Fine(p, s, Ok(r.s), {})
  <2>1. Moves(p, s, r.s, r.post, {})
    BY <1>3 DEF Fine
  <2>2. Moves(p, s, r.s, <<>>, {})
    BY <2>1, Silent
  <2> QED BY <2>2 DEF Fine, Ok
<1> QED BY <1>3, <1>4

(* Reading a payout is a turn of the phone.                                *)
LEMMA ReadPayoutTurn ==
  ASSUME Inv, NEW p \in Honest, NEW out \in payouts, ReadPayout(p, out)
  PROVE  PhoneTurn(p)
<1> DEFINE t == [st[p] EXCEPT !.heard = @ \cup {out}]
           r == OnOutput(p, t, out)
<1>1. PhoneOK(p, st[p]) /\ p \in Sessions /\ out \in Outputs
  BY PoolAssumption DEF Inv, TypeOK, PhoneOK
<1>2. st[p].phase \notin Over
  BY DEF ReadPayout, Running
<1>3. Do(p, r, "saved") \/ Do(p, Ok(r.s), "saved")
  BY DEF ReadPayout
<1>4. Fine(p, st[p], r, {}) /\ Fine(p, st[p], Ok(r.s), {})
  BY <1>1, <1>2, PayoutFine
<1> HIDE DEF r
<1> QED BY <1>3, <1>4, PlainDoTurn

(* The answer of the coin checks makes a turn.                             *)
LEMMA CoinResultsTurn ==
  ASSUME Inv, NEW p \in Honest, NEW bad, NEW none, CoinResults(p, bad, none)
  PROVE  PhoneTurn(p)
<1> DEFINE t == [st[p] EXCEPT !.asked = {}]
<1>1. PhoneOK(p, st[p]) /\ p \in Sessions
  BY PoolAssumption DEF Inv, TypeOK, PhoneOK
<1>2. /\ st[p].phase \notin Over
      /\ bad \in SUBSET Sessions /\ none \in SUBSET Sessions
  BY <1>1 DEF CoinResults, Running, PhoneOK, IsPhone, IsMap
<1>3. Do(p, OnCoins(p, t, bad, none), "saved")
  BY DEF CoinResults
<1>4. IsPhone(t)
  BY <1>1 DEF PhoneOK, IsPhone, Fresh
<1>5. Alike(st[p], t)
  BY <1>1 DEF Alike, PhoneOK, IsPhone, Fresh
<1> HIDE DEF t
<1>6. PhoneOK(p, t) /\ t.phase \notin Over
  BY <1>1, <1>2, <1>4, <1>5, AlikeLemma DEF PhoneOK, Alike
<1>7. Fine(p, t, OnCoins(p, t, bad, none), {})
  BY <1>1, <1>2, <1>6, OnCoinsFine
<1>8. Fine(p, st[p], OnCoins(p, t, bad, none), {})
  BY <1>1, <1>5, <1>7, AlikeLemma DEF PhoneOK
<1> QED BY <1>3, <1>8, PlainDoTurn

(* A stage that runs out of time makes a turn.                             *)
LEMMA TimeOutTurn ==
  ASSUME Inv, NEW p \in Honest, TimeOut(p)
  PROVE  PhoneTurn(p)
<1> DEFINE t == [st[p] EXCEPT !.late = TRUE]
           who == Stalled(p, st[p])
<1>1. PhoneOK(p, st[p]) /\ p \in Sessions
  BY PoolAssumption DEF Inv, TypeOK, PhoneOK
<1>2. st[p].phase \notin Over
  BY DEF TimeOut, Running
<1>3. Do(p, Stop(p, t, who), "saved")
  BY DEF TimeOut
<1>4. who \in SUBSET Sessions
  BY <1>1 DEF Stalled, PhoneOK, IsPhone, IsMap
<1>5. IsPhone(t)
  BY <1>1 DEF PhoneOK, IsPhone, Fresh
<1>6. Alike(st[p], t)
  BY <1>1 DEF Alike, PhoneOK, IsPhone, Fresh
<1> HIDE DEF t, who
<1>7. PhoneOK(p, t) /\ t.phase \notin Over
  BY <1>1, <1>2, <1>5, <1>6, AlikeLemma DEF PhoneOK, Alike
<1>8. Fine(p, t, Stop(p, t, who), {})
  BY <1>1, <1>4, <1>7, StopFine
<1>9. Fine(p, st[p], Stop(p, t, who), {})
  BY <1>1, <1>6, <1>8, AlikeLemma DEF PhoneOK
<1> QED BY <1>3, <1>9, PlainDoTurn

(* The address of the payout makes a turn.                                 *)
LEMMA PayoutGivenTurn ==
  ASSUME Inv, NEW p \in Honest, PayoutGiven(p)
  PROVE  PhoneTurn(p)
<1>1. PhoneOK(p, st[p]) /\ p \in Sessions
  BY PoolAssumption DEF Inv, TypeOK, PhoneOK
<1>2. st[p].phase = "Channel" /\ Do(p, RegisterPayout(p, st[p]), "saved")
  BY DEF PayoutGiven
<1>3. p \in DOMAIN st[p].regs
  BY <1>1, <1>2 DEF PhoneOK, Sound
<1>4. Fine(p, st[p], RegisterPayout(p, st[p]), {})
  BY <1>1, <1>2, <1>3, RegisterPayoutFine
<1> QED BY <1>2, <1>4, PlainDoTurn

(* The save of the channel's funding makes a turn.                         *)
LEMMA ChannelSavedTurn ==
  ASSUME Inv, NEW p \in Honest, ChannelSaved(p)
  PROVE  PhoneTurn(p)
<1> DEFINE t == [st[p] EXCEPT !.channelSaved = TRUE]
<1>1. PhoneOK(p, st[p]) /\ p \in Sessions
  BY PoolAssumption DEF Inv, TypeOK, PhoneOK
<1>2. IsPhone(t)
  BY <1>1 DEF PhoneOK, IsPhone, Fresh
<1>3. Alike(st[p], t)
  BY <1>1 DEF Alike, PhoneOK, IsPhone, Fresh
<1>4. \/ t.phase = "Funding" /\ Do(p, TryFund(t), "saved")
      \/ Do(p, Ok(t), "saved")
  BY DEF ChannelSaved
<1> HIDE DEF t
<1>5. PhoneOK(p, t)
  BY <1>1, <1>2, <1>3, AlikeLemma DEF PhoneOK
<1>6. Fine(p, st[p], Ok(t), {})
  BY <1>1, <1>3, <1>5, OkFine, AlikeLemma DEF PhoneOK
<1>7. t.phase = "Funding" => Fine(p, st[p], TryFund(t), {})
  BY <1>1, <1>3, <1>5, TryFundFine, AlikeLemma DEF PhoneOK
<1> QED BY <1>4, <1>6, <1>7, PlainDoTurn

(* Leaving, and a channel that fails, make a turn.                         *)
LEMMA LeaveTurn ==
  ASSUME Inv, NEW p \in Honest, Leave(p) \/ ChannelFailed(p)
  PROVE  PhoneTurn(p)
<1>1. PhoneOK(p, st[p]) /\ p \in Sessions
  BY PoolAssumption DEF Inv, TypeOK, PhoneOK
<1>2. st[p].phase \notin Over /\ Do(p, Stop(p, st[p], {}), "saved")
  BY DEF Leave, ChannelFailed, Running
<1>3. Fine(p, st[p], Stop(p, st[p], {}), {})
  BY <1>1, <1>2, StopFine
<1> QED BY <1>2, <1>3, PlainDoTurn

(* What the others post is well-formed: views and signatures they have     *)
(* seen, payouts of their own, and words of the protocol.                  *)
LEMMA ForgeryIsMessage ==
  ASSUME Inv, NEW b \in Byzantine, NEW m \in Forgeries(b)
  PROVE  IsMessage(m)
<1>0. b \in Sessions
  BY DEF Byzantine
<1>1. \A v \in Views : IsView(v)
  <2>1. IsView(NoView)
    BY DEF NoView, IsView, IsMap, Empty
  <2>2. \A x \in Honest : IsView(View(st[x]))
    BY DEF Inv, TypeOK, IsPhone, IsView, View, IsMap
  <2> QED BY <2>1, <2>2 DEF Views
<1>2. \A g \in Sigs : IsSig(g)
  <2>1. IsSig(NoSig)
    BY DEF NoSig, NoView, IsSig, IsView, IsMap, Empty
  <2>2. \A x \in Honest : IsSig(PartialSig(st[x]))
    <3> TAKE x \in Honest
    <3>1. IsPhone(st[x])
      BY DEF Inv, TypeOK
    <3>2. IsView(View(st[x])) /\ IsMap(st[x].nonces, Sessions, Nonces)
      BY <3>1 DEF IsPhone, IsView, View, IsMap
    <3> QED BY <3>2 DEF IsSig, PartialSig
  <2> QED BY <2>1, <2>2 DEF Sigs
<1>3. \A v \in Views : IsFunding(Funding(v))
  BY <1>1 DEF IsFunding, Funding, IsView
<1>4. \A addr \in Addrs \cup {b} : Output(b, addr) \in Outputs
  BY <1>0 DEF Output, Outputs, Scripts
<1>5. ASSUME NEW kind, NEW vals, m \in OfKind(kind, vals)
      PROVE  Kind(m) = kind /\ Val(m) \in vals /\ m = M(Kind(m), Val(m))
  <2>1. PICK v \in vals : m = M(kind, v)
    BY <1>5 DEF OfKind
  <2> QED BY <2>1 DEF M, Kind, Val
<1>6. CASE m \in OfKind("junk", {0}) \cup OfKind("abort", {0})
  BY <1>5, <1>6 DEF IsMessage, MessageKinds
<1>7. CASE m \in OfKind("inputs", RegKinds)
  BY <1>5, <1>7, PoolAssumption DEF IsMessage, MessageKinds
<1>8. CASE m \in OfKind("output", {Output(b, addr) : addr \in Addrs \cup {b}})
  BY <1>4, <1>5, <1>8 DEF IsMessage, MessageKinds
<1>9. CASE m \in OfKind("view", Views)
  BY <1>1, <1>5, <1>9 DEF IsMessage, MessageKinds
<1>10. CASE m \in OfKind("nonces", ForgedNonces(b))
  <2>1. ForgedNonces(b) \subseteq Nonces
    BY DEF ForgedNonces, Nonces
  <2> QED
    BY <1>5, <1>10, <2>1 DEF IsMessage, MessageKinds
<1>11. CASE m \in OfKind("psigs", Sigs)
  BY <1>2, <1>5, <1>11 DEF IsMessage, MessageKinds
<1>12. CASE m \in OfKind("fsigs", {Funding(v) : v \in Views})
  BY <1>3, <1>5, <1>12 DEF IsMessage, MessageKinds
<1> QED
  BY <1>6, <1>7, <1>8, <1>9, <1>10, <1>11, <1>12 DEF Forgeries

(* Whatever the others post, its first reader takes a turn.                *)
LEMMA ForgeTurn ==
  ASSUME Inv, NEW b \in Byzantine, NEW p \in Honest,
         NEW m \in Forgeries(b), Forge(b, p, m)
  PROVE  PhoneTurn(p)
<1> DEFINE s == Seen(st[p], b)
           log == [posts EXCEPT ![b] = Append(@, m)]
           sigs == {b} \X {Val(m)}
<1>1. PhoneOK(p, st[p]) /\ p \in Sessions /\ b \in Sessions /\ b \notin Honest
  BY PoolAssumption DEF Inv, TypeOK, PhoneOK, Byzantine
<1>2. PhoneOK(p, s) /\ Alike(st[p], s)
  BY <1>1, SeenLemma
<1>3. IsMessage(m)
  BY ForgeryIsMessage
<1>4. PICK save : DoWith(p, Read(p, s, b, m), save, log, payouts)
  BY DEF Forge
<1>5. /\ DOMAIN log = Sessions /\ \A q \in Honest : log[q] = posts[q]
      /\ \A q \in Byzantine : /\ log[q] \in Seq(Elems(log[q]))
                              /\ \A msg \in Elems(log[q]) : IsMessage(msg)
  <2>1. /\ DOMAIN posts = Sessions
        /\ \A q \in Sessions : posts[q] \in Seq(Elems(posts[q]))
        /\ \A q \in Sessions : \A msg \in Elems(posts[q]) : IsMessage(msg)
    BY DEF Inv, TypeOK, Sent, Elems
  <2>2. /\ DOMAIN log = Sessions /\ log[b] = Append(posts[b], m)
        /\ \A q \in Sessions : q # b => log[q] = posts[q]
    BY <1>1, <2>1
  <2>3. /\ Append(posts[b], m) \in Seq(Elems(Append(posts[b], m)))
        /\ Elems(Append(posts[b], m)) = Elems(posts[b]) \cup {m}
    BY <1>1, <2>1, AppendLemma
  <2> HIDE DEF log
  <2>5. \A q \in Honest : log[q] = posts[q]
    BY <1>1, <2>2, PoolAssumption
  <2>6. ASSUME NEW q \in Byzantine
        PROVE  /\ log[q] \in Seq(Elems(log[q]))
               /\ \A msg \in Elems(log[q]) : IsMessage(msg)
    <3>1. q \in Sessions
      BY DEF Byzantine
    <3>2. CASE q # b
      BY <2>1, <2>2, <3>1, <3>2
    <3>3. CASE q = b
      BY <1>1, <1>3, <2>1, <2>2, <2>3, <3>3
    <3> QED BY <3>2, <3>3
  <2> QED BY <2>2, <2>5, <2>6
<1> HIDE DEF s, log
<1>6. Fine(p, s, Read(p, s, b, m), sigs)
  BY <1>1, <1>2, <1>3, ReadFine
<1>7. Fine(p, st[p], Read(p, s, b, m), sigs)
  BY <1>1, <1>2, <1>6, AlikeLemma DEF PhoneOK
<1>8. \A q \in Honest : \A g : <<q, g>> \in sigs => M("psigs", g) \in Sent(q)
  BY <1>1
<1>9. payouts \subseteq Outputs
  BY DEF Inv, TypeOK
<1> QED BY <1>4, <1>5, <1>7, <1>8, <1>9, DoTurn

(* Whatever payouts the others send, their first reader takes a turn.      *)
LEMMA ForgePayoutTurn ==
  ASSUME Inv, NEW b \in Byzantine, NEW p \in Honest,
         NEW addr \in Addrs \cup {b}, ForgePayout(b, p, addr)
  PROVE  PhoneTurn(p)
<1> DEFINE out == Output(b, addr)
           t == [st[p] EXCEPT !.heard = @ \cup {out}]
           r == OnOutput(p, t, out)
<1>1. PhoneOK(p, st[p]) /\ p \in Sessions /\ b \in Sessions
  BY PoolAssumption DEF Inv, TypeOK, PhoneOK, Byzantine
<1>2. out \in Outputs
  BY <1>1 DEF Output, Outputs, Scripts
<1>3. st[p].phase \notin Over /\ DoWith(p, r, "saved", posts, payouts \cup {out})
  BY DEF ForgePayout, Running
<1>4. Fine(p, st[p], r, {})
  BY <1>1, <1>2, <1>3, PayoutFine
<1>5. /\ DOMAIN posts = Sessions /\ payouts \cup {out} \subseteq Outputs
      /\ \A q \in Byzantine : /\ posts[q] \in Seq(Elems(posts[q]))
                              /\ \A msg \in Elems(posts[q]) : IsMessage(msg)
  BY <1>2 DEF Inv, TypeOK, Byzantine, Sent, Elems
<1> DEFINE paid == payouts \cup {out}
           sigs == {}
<1>6. /\ DoWith(p, r, "saved", posts, paid) /\ paid \subseteq Outputs
      /\ Fine(p, st[p], r, sigs)
      /\ \A q \in Honest : posts[q] = posts[q]
      /\ \A q \in Honest : \A g : <<q, g>> \in sigs => M("psigs", g) \in Sent(q)
  BY <1>3, <1>4, <1>5
<1> HIDE DEF out, r, paid, sigs
<1> QED BY <1>5, <1>6, DoTurn

(* Forgetting the events seen keeps the invariant.                         *)
LEMMA ClearSeenInv ==
  ASSUME Inv, NEW p \in Honest, ClearSeen(p)
  PROVE  Inv'
<1> DEFINE t == [st[p] EXCEPT !.clears = @ + 1, !.heard = {},
                              !.cursor = [q \in Sessions |-> 0]]
<1>1. PhoneOK(p, st[p]) /\ DOMAIN st = Honest
  BY DEF Inv, TypeOK, PhoneOK
<1>2. st' = [st EXCEPT ![p] = t] /\ UNCHANGED <<disk, posts, payouts>>
  BY <1>1 DEF ClearSeen
<1>3. IsPhone(t)
  BY <1>1 DEF PhoneOK, IsPhone, Fresh
<1>4. Alike(st[p], t)
  BY <1>1 DEF Alike, PhoneOK, IsPhone, Fresh
<1> HIDE DEF t
<1>5. PhoneOK(p, t) /\ View(t) = View(st[p])
  BY <1>1, <1>3, <1>4, AlikeLemma DEF PhoneOK, Alike, View
<1>6. \A q \in Honest : q # p => st'[q] = st[q]
  BY <1>1, <1>2
<1>7. st'[p] = t /\ DOMAIN st' = Honest
  BY <1>1, <1>2
<1>8. \A q : Sent(q)' = Sent(q)
  BY <1>2 DEF Sent
<1>9. \A q, kind : SentOf(q, kind)' = SentOf(q, kind)
  BY <1>8 DEF SentOf
<1>10. \A q \in Honest : /\ IsPhone(st'[q]) /\ Sound(q, st'[q])
                         /\ st'[q].phase = st[q].phase
                         /\ st'[q].psigs = st[q].psigs
                         /\ st'[q].recordSaved = st[q].recordSaved
                         /\ View(st'[q]) = View(st[q])
  BY <1>4, <1>5, <1>6, <1>7 DEF Inv, TypeOK, PhoneOK, Alike
<1>11. TypeOK'
  BY <1>2, <1>7, <1>8, <1>10 DEF Inv, TypeOK
<1>12. SigsHeard' /\ Unsigned' /\ FundedPhase' /\ AbortPhase'
  BY <1>2, <1>8, <1>9, <1>10
     DEF Inv, SigsHeard, Unsigned, FundedPhase, AbortPhase
<1>13. NonceOnce'
  BY <1>2 DEF Inv, NonceOnce
<1>14. DiskCovered'
  BY <1>2, <1>9 DEF Inv, DiskCovered, Covered
<1>15. Recorded'
  <2> SUFFICES ASSUME NEW q \in Honest, st'[q].recordSaved
               PROVE  disk'[q] = {View(st'[q])}
    BY DEF Recorded, View
  <2> QED BY <1>2, <1>10 DEF Inv, Recorded
<1> QED BY <1>10, <1>11, <1>12, <1>13, <1>14, <1>15 DEF Inv

(* A page closed keeps the invariant.                                      *)
LEMMA CloseInv ==
  ASSUME Inv, NEW p \in Honest, Close(p)
  PROVE  Inv'
<1> DEFINE t == Gone(st[p], "Closed")
<1>1. PhoneOK(p, st[p]) /\ DOMAIN st = Honest
  BY DEF Inv, TypeOK, PhoneOK
<1>2. st' = [st EXCEPT ![p] = t] /\ UNCHANGED <<disk, posts, payouts>>
  BY DEF Close
<1>3. /\ PhoneOK(p, t) /\ t.phase = "Closed" /\ t.recordSaved = FALSE
      /\ DOMAIN t.psigs = {}
  BY <1>1, GoneLemma DEF PhoneOK
<1>4. st[p].phase # "Stopped"
  BY DEF Close, Listening
<1> HIDE DEF t
<1>5. /\ st'[p] = t /\ DOMAIN st' = Honest
      /\ \A q \in Honest : q # p => st'[q] = st[q]
  BY <1>1, <1>2
<1>6. \A q : Sent(q)' = Sent(q)
  BY <1>2 DEF Sent
<1>7. \A q, kind : SentOf(q, kind)' = SentOf(q, kind)
  BY <1>6 DEF SentOf
<1>8. \A q \in Honest : IsPhone(st'[q]) /\ Sound(q, st'[q])
  BY <1>3, <1>5 DEF Inv, TypeOK, PhoneOK
<1>9. TypeOK'
  BY <1>2, <1>5, <1>6, <1>8 DEF Inv, TypeOK
<1>10. SigsHeard' /\ Unsigned'
  BY <1>3, <1>5, <1>6, <1>7 DEF Inv, SigsHeard, Unsigned, Before
<1>11. FundedPhase'
  BY <1>2, <1>3, <1>5, <1>7 DEF Inv, FundedPhase
<1>12. AbortPhase'
  BY <1>3, <1>4, <1>5, <1>7 DEF Inv, AbortPhase
<1>13. NonceOnce'
  BY <1>2 DEF Inv, NonceOnce
<1>14. DiskCovered'
  BY <1>2, <1>7 DEF Inv, DiskCovered, Covered
<1>15. Recorded'
  <2> SUFFICES ASSUME NEW q \in Honest, st'[q].recordSaved
               PROVE  disk'[q] = {View(st'[q])}
    BY DEF Recorded, View
  <2> QED BY <1>2, <1>3, <1>5 DEF Inv, Recorded
<1> QED BY <1>8, <1>9, <1>10, <1>11, <1>12, <1>13, <1>14, <1>15 DEF Inv

(* The invariant holds when the pool opens.                                *)
LEMMA InitInv == Init => Inv
<1> SUFFICES ASSUME Init PROVE Inv
  OBVIOUS
<1> DEFINE reg == Inputs("good")
<1>1. /\ DOMAIN st = Honest /\ DOMAIN disk = Honest /\ DOMAIN posts = Sessions
      /\ \A p \in Honest : st[p] = Fresh /\ disk[p] = {} /\ posts[p] = <<reg>>
      /\ \A q \in Sessions : q \notin Honest => posts[q] = <<>>
      /\ payouts = {}
  BY PoolAssumption DEF Init
<1>2. IsMessage(reg) /\ Kind(reg) = "inputs"
  BY DEF Inputs, M, Kind, Val, IsMessage, MessageKinds, Registrations
<1> HIDE DEF reg
<1>3. \A q : Sent(q) = Elems(posts[q])
  BY DEF Sent, Elems
<1>4. \A p \in Honest : Sent(p) = {reg}
  BY <1>1, <1>3, PostLemma
<1>5. ASSUME NEW q \in Sessions
      PROVE  posts[q] \in Seq(Sent(q)) /\ \A msg \in Sent(q) : IsMessage(msg)
  <2>1. CASE q \in Honest
    BY <1>1, <1>2, <1>4, <2>1, PostLemma
  <2>2. CASE q \notin Honest
    <3>1. posts[q] = <<>> /\ Sent(q) = {}
      BY <1>1, <1>3, <2>2, PostLemma
    <3> QED BY <3>1
  <2> QED BY <2>1, <2>2
<1>6. TypeOK
  BY <1>1, <1>5, FreshLemma DEF TypeOK
<1>7. \A p \in Honest : Sound(p, st[p])
  <2>1. Fresh.phase = "Inputs" /\ Fresh.coinsAsked = FALSE
        /\ Fresh.recordSaved = FALSE
    BY DEF Fresh
  <2>2. \A p : Sound(p, Fresh)
    BY <2>1, FreshLemma, PoolAssumption DEF Sound, Built, Aggregated
  <2> QED BY <1>1, <2>2
<1>8. SigsHeard /\ DiskCovered
  BY <1>1, FreshLemma DEF SigsHeard, DiskCovered
<1>9. \A p \in Honest : \A kind : kind # "inputs" => SentOf(p, kind) = {}
  BY <1>2, <1>4 DEF SentOf
<1>10. Unsigned /\ FundedPhase /\ AbortPhase
  BY <1>9 DEF Unsigned, FundedPhase, AbortPhase
<1>11. NonceOnce
  BY <1>1, <1>2 DEF NonceOnce
<1>12. Recorded
  <2>1. Fresh.recordSaved = FALSE
    BY DEF Fresh
  <2> QED BY <1>1, <2>1 DEF Recorded
<1> QED BY <1>6, <1>7, <1>8, <1>10, <1>11, <1>12 DEF Inv

(* Every step of the pool is a turn of one phone, or one phone forgets     *)
(* what it has seen or is closed.                                          *)
LEMMA NextTurn ==
  ASSUME Inv, Next
  PROVE  \E p \in Honest : PhoneTurn(p) \/ ClearSeen(p) \/ Close(p)
<1>1. ASSUME NEW p \in Honest, PhoneStep(p)
      PROVE  PhoneTurn(p) \/ ClearSeen(p) \/ Close(p)
  <2>1. ASSUME NEW q \in Sessions, NEW save, ReadPost(p, q, save)
        PROVE  PhoneTurn(p)
    BY <2>1, ReadPostTurn
  <2>2. ASSUME NEW out \in payouts, ReadPayout(p, out) PROVE PhoneTurn(p)
    BY <2>2, ReadPayoutTurn
  <2>3. ASSUME NEW bad, NEW none, CoinResults(p, bad, none) PROVE PhoneTurn(p)
    BY <2>3, CoinResultsTurn
  <2>4. CASE TimeOut(p)
    BY <2>4, TimeOutTurn
  <2>5. CASE PayoutGiven(p)
    BY <2>5, PayoutGivenTurn
  <2>6. CASE ChannelSaved(p)
    BY <2>6, ChannelSavedTurn
  <2>7. CASE Leave(p) \/ ChannelFailed(p)
    BY <2>7, LeaveTurn
  <2> QED BY <1>1, <2>1, <2>2, <2>3, <2>4, <2>5, <2>6, <2>7 DEF PhoneStep
<1>2. CASE OthersStep
  <2>1. PICK b \in Byzantine, p \in Honest :
          \/ \E m \in Forgeries(b) : Forge(b, p, m)
          \/ \E addr \in Addrs \cup {b} : ForgePayout(b, p, addr)
    BY <1>2 DEF OthersStep
  <2> QED BY <2>1, ForgeTurn, ForgePayoutTurn
<1> QED BY <1>1, <1>2 DEF Next

(* Every step of the pool keeps the invariant.                             *)
LEMMA NextInv == Inv /\ [Next]_vars => Inv'
<1> SUFFICES ASSUME Inv, [Next]_vars PROVE Inv'
  OBVIOUS
<1>1. CASE UNCHANGED vars
  BY <1>1 DEF vars, Inv, TypeOK, SigsHeard, NonceOnce, Unsigned, DiskCovered,
     Covered, Recorded, FundedPhase, AbortPhase, SentOf, Sent
<1>2. ASSUME NEW p \in Honest, PhoneTurn(p) PROVE Inv'
  BY <1>2, TurnInv DEF PhoneTurn
<1> QED BY <1>1, <1>2, NextTurn, ClearSeenInv, CloseInv

(* The inductive invariant holds in every state of every pool: the facts   *)
(* about one phone (Sound) and the facts that tie its memory to its        *)
(* storage and its posts. The theorems below are read off it.              *)
THEOREM InvHolds == Spec => []Inv
  BY InitInv, NextInv, PTL DEF Spec

(* The type invariant holds for every pool.                                *)
THEOREM TypeCorrect == Spec => []TypeOK
<1>1. Inv => TypeOK
  BY DEF Inv
<1> QED BY <1>1, InvHolds, PTL

(* For every number of members and strangers and whatever they post: a     *)
(* phone whose funding signature is out has the record of that funding on  *)
(* disk, and that record's exits pay it and are signed by every honest     *)
(* member (record_saved before try_fund, record_save, record_wipe).        *)
THEOREM SignedStaysCovered == Spec => []SignedIsCovered
<1>1. Inv => SignedIsCovered
  <2> SUFFICES ASSUME Inv, NEW p \in Honest, NEW m \in SentOf(p, "fsigs")
               PROVE  \E v \in disk[p] :
                        /\ Funding(v) = Val(m)
                        /\ \E i \in DOMAIN v.pays : v.pays[i] = p
                        /\ \A q \in Honest \cap DOMAIN v.regs :
                             \E g \in SentOf(q, "psigs") : Val(g).view = v
    BY DEF SignedIsCovered
  <2>1. PICK v \in disk[p] : Funding(v) = Val(m)
    BY DEF Inv, FundedPhase
  <2>2. Covered(p, v)
    BY DEF Inv, DiskCovered
  <2> QED BY <2>1, <2>2 DEF Covered
<1> QED BY <1>1, InvHolds, PTL

(* No attempt's nonces sign twice (try_sign takes them), for every pool.   *)
THEOREM NoncesSignOnce == Spec => []NonceOnce
<1>1. Inv => NonceOnce
  BY DEF Inv
<1> QED BY <1>1, InvHolds, PTL

(* A phone that told the pool it stopped has no funding signature out, and *)
(* none is posted later (Attempt::stop, the phase guard of Attempt::on).   *)
THEOREM StopMovesNothing == Spec => []StoppedMovedNothing
<1>1. Inv => StoppedMovedNothing
  <2> SUFFICES ASSUME Inv, NEW p \in Honest, SentOf(p, "abort") # {},
                      NEW m \in SentOf(p, "fsigs")
               PROVE  FALSE
    BY DEF StoppedMovedNothing
  <2>1. st[p].phase = "Stopped"
    BY DEF Inv, AbortPhase
  <2>2. st[p].phase \in {"FundingSigned", "Closed"}
    BY DEF Inv, FundedPhase
  <2> QED BY <2>1, <2>2
<1> QED BY <1>1, InvHolds, PTL

(* Two honest phones of one pool never hold records of different views: no *)
(* two sets of exits of one funding are both fully signed (on_psigs).      *)
THEOREM RecordsAgree == Spec => []OneView
<1>1. Inv => OneView
  <2> SUFFICES ASSUME Inv, NEW p \in Honest, NEW q \in Honest,
                      NEW v \in disk[p], NEW w \in disk[q], q \in DOMAIN v.regs
               PROVE  v = w
    BY DEF OneView
  <2>1. PICK g \in SentOf(q, "psigs") : Val(g).view = v
    BY DEF Inv, DiskCovered, Covered
  <2>2. PICK h \in SentOf(q, "psigs") : Val(h).view = w
    BY DEF Inv, DiskCovered, Covered
  <2>3. PICK i \in 1..Len(posts[q]) : g = posts[q][i]
    BY DEF SentOf, Sent
  <2>4. PICK j \in 1..Len(posts[q]) : h = posts[q][j]
    BY DEF SentOf, Sent
  <2>5. i = j
    BY <2>3, <2>4 DEF Inv, NonceOnce, SentOf
  <2> QED BY <2>1, <2>2, <2>3, <2>4, <2>5
<1> QED BY <1>1, InvHolds, PTL
=============================================================================
