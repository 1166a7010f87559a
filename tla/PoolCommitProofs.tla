-------------------------- MODULE PoolCommitProofs --------------------------
(***************************************************************************)
(* The pool implements PoolCommit, for any number of sessions, honest or   *)
(* not: the refinement that the table run checks on a small one.  A turn   *)
(* of a phone posts at most one of a partial signature, a funding          *)
(* signature and an abort (Moves), and the inductive invariant of          *)
(* MixPoolProofs gives the guards of the step of PoolCommit it makes.      *)
(***************************************************************************)
EXTENDS MixPoolProofs

(* What a phone's posts say of it in PoolCommit.                           *)
LEMMA MappedLemma ==
  ASSUME NEW p \in Honest
  PROVE  /\ \A kind : Posted(p, kind) = {} <=> SentOf(p, kind) = {}
         /\ Bound[p] = {Val(g).view : g \in SentOf(p, "psigs")}
         /\ Funded[p] = IF SentOf(p, "fsigs") = {} THEN {} ELSE disk[p]
         /\ p \in Quitters <=> SentOf(p, "abort") # {}
<1>1. \A kind : \A i : i \in Posted(p, kind) => posts[p][i] \in SentOf(p, kind)
  BY DEF Posted, SentOf, Sent
<1>2. \A kind : \A g \in SentOf(p, kind) : \E i \in Posted(p, kind) : g = posts[p][i]
  BY DEF Posted, SentOf, Sent
<1>3. \A kind : Posted(p, kind) = {} <=> SentOf(p, kind) = {}
  BY <1>1, <1>2
<1>4. Bound[p] = {Val(g).view : g \in SentOf(p, "psigs")}
  BY <1>1, <1>2 DEF Bound
<1>5. Funded[p] = IF SentOf(p, "fsigs") = {} THEN {} ELSE disk[p]
  BY <1>3 DEF Funded
<1>6. p \in Quitters <=> SentOf(p, "abort") # {}
  BY <1>3 DEF Quitters
<1> QED BY <1>3, <1>4, <1>5, <1>6

(* The state of PoolCommit is a function of what was sent and of the       *)
(* disks: a step that sends nothing and leaves the disks stutters.         *)
LEMMA Unmoved ==
  ASSUME UNCHANGED <<disk, posts>>
  PROVE  UNCHANGED <<Bound, Funded, Quitters>>
  BY DEF Bound, Funded, Quitters, Posted

(* A pool that opens is one in which nobody is bound.                      *)
LEMMA InitCommits == Init => Commit!CInit
<1> SUFFICES ASSUME Init PROVE Commit!CInit
  OBVIOUS
<1>1. \A p \in Honest : posts[p] = <<Inputs("good")>>
  BY PoolAssumption DEF Init
<1>2. \A p \in Honest : \A kind : kind # "inputs" => Posted(p, kind) = {}
  BY <1>1 DEF Posted, Inputs, M, Kind
<1>3. Bound = [p \in Honest |-> {}]
  BY <1>2 DEF Bound
<1>4. Funded = [p \in Honest |-> {}]
  BY <1>2 DEF Funded
<1>5. Quitters = {}
  BY <1>2 DEF Quitters
<1> QED BY <1>3, <1>4, <1>5 DEF Commit!CInit

(* A turn of a phone binds it, puts its coin in, makes it quit, or changes *)
(* nothing of the commitment.                                              *)
LEMMA TurnCommits ==
  ASSUME Inv, Inv', NEW p \in Honest, PhoneTurn(p)
  PROVE  Commit!CNext \/ UNCHANGED <<Bound, Funded, Quitters>>
<1>1. PICK t, post, d, sigs :
        /\ Turn(p, st[p], disk[p], t, post, d, sigs)
        /\ st' = [st EXCEPT ![p] = Kept(t)]
        /\ disk' = [disk EXCEPT ![p] = d]
        /\ Relayed(p, post)
  BY DEF PhoneTurn
<1> DEFINE New(kind) == {msg \in Elems(post) : Kind(msg) = kind}
<1>2. /\ \A q \in Honest : q # p => Sent(q)' = Sent(q)
      /\ Sent(p)' = Sent(p) \cup Elems(post)
  BY <1>1, RelayedLemma DEF Turn
<1>3. /\ \A q \in Honest : \A kind : q # p => SentOf(q, kind)' = SentOf(q, kind)
      /\ \A kind : SentOf(p, kind)' = SentOf(p, kind) \cup New(kind)
  BY <1>2 DEF SentOf
<1>4. DOMAIN disk = Honest /\ disk'[p] = d
      /\ \A q \in Honest : q # p => disk'[q] = disk[q]
  BY <1>1 DEF Inv, TypeOK
<1>5. /\ Bound = [q \in Honest |-> Bound[q]]
      /\ Bound' = [q \in Honest |-> Bound'[q]]
      /\ Funded = [q \in Honest |-> Funded[q]]
      /\ Funded' = [q \in Honest |-> Funded'[q]]
      /\ Quitters \subseteq Honest /\ Quitters' \subseteq Honest
  BY DEF Bound, Funded, Quitters
<1>6. ASSUME NEW q \in Honest
      PROVE  /\ Bound[q] = {Val(g).view : g \in SentOf(q, "psigs")}
             /\ Funded[q] = IF SentOf(q, "fsigs") = {} THEN {} ELSE disk[q]
             /\ q \in Quitters <=> SentOf(q, "abort") # {}
  BY MappedLemma
<1>7. ASSUME NEW q \in Honest
      PROVE  /\ Bound'[q] = {Val(g).view : g \in SentOf(q, "psigs")'}
             /\ Funded'[q] = IF SentOf(q, "fsigs")' = {} THEN {} ELSE disk'[q]
             /\ q \in Quitters' <=> SentOf(q, "abort")' # {}
  <2>1. \A kind : \A i : i \in Posted(q, kind)' => posts'[q][i] \in SentOf(q, kind)'
    BY DEF Posted, SentOf, Sent
  <2>2. \A kind : \A g \in SentOf(q, kind)' :
          \E i \in Posted(q, kind)' : g = posts'[q][i]
    BY DEF Posted, SentOf, Sent
  <2>3. \A kind : Posted(q, kind)' = {} <=> SentOf(q, kind)' = {}
    BY <2>1, <2>2
  <2> QED BY <2>1, <2>2, <2>3 DEF Bound, Funded, Quitters
<1>8. ASSUME NEW q \in Honest, q # p
      PROVE  /\ Bound'[q] = Bound[q] /\ Funded'[q] = Funded[q]
             /\ q \in Quitters' <=> q \in Quitters
  BY <1>3, <1>4, <1>6, <1>7, <1>8
<1>9. \/ New("psigs") # {} /\ New("fsigs") = {} /\ New("abort") = {}
      \/ New("psigs") = {} /\ New("fsigs") # {} /\ New("abort") = {}
      \/ New("psigs") = {} /\ New("fsigs") = {}
  BY <1>1 DEF Turn
<1>10. post # <<>> => st[p].phase \notin Over
  BY <1>1 DEF Turn
<1>11. (\E kind : New(kind) # {}) =>
         /\ st[p].phase \notin Over
         /\ p \notin Quitters /\ SentOf(p, "fsigs") = {} /\ Funded[p] = {}
  <2> SUFFICES ASSUME NEW kind, New(kind) # {}
               PROVE  /\ st[p].phase \notin Over
                      /\ p \notin Quitters /\ SentOf(p, "fsigs") = {}
                      /\ Funded[p] = {}
    OBVIOUS
  <2>1. post # <<>>
    BY PostLemma
  <2>2. SentOf(p, "abort") = {} /\ SentOf(p, "fsigs") = {}
    BY <1>10, <2>1 DEF Inv, AbortPhase, FundedPhase, Over
  <2> QED BY <1>6, <1>10, <2>1, <2>2
<1>12. CASE New("psigs") # {} /\ New("fsigs") = {} /\ New("abort") = {}
  <2>1. PICK msg \in Elems(post) : Kind(msg) = "psigs"
    BY <1>12
  <2>2. st[p].phase \in Before /\ Len(post) = 1
    BY <1>1, <2>1 DEF Turn, Before
  <2>3. Elems(post) = {msg}
    BY <2>1, <2>2 DEF Elems
  <2>4. SentOf(p, "psigs") = {} /\ SentOf(p, "psigs")' = {msg}
    BY <1>3, <2>1, <2>2, <2>3 DEF Inv, Unsigned
  <2>5. Bound[p] = {} /\ Bound'[p] = {Val(msg).view}
    BY <1>6, <1>7, <2>4
  <2>6. Bound' = [Bound EXCEPT ![p] = {Val(msg).view}]
    BY <1>5, <1>8, <2>5
  <2>7. Funded'[p] = Funded[p] /\ (p \in Quitters' <=> p \in Quitters)
    BY <1>3, <1>6, <1>7, <1>11, <1>12
  <2>8. Funded' = Funded /\ Quitters' = Quitters
    BY <1>5, <1>8, <2>7
  <2>9. Commit!Bind(p)
    BY <1>11, <1>12, <2>5, <2>6, <2>8 DEF Commit!Bind
  <2> QED BY <2>9 DEF Commit!CNext
<1>13. CASE New("psigs") = {} /\ New("fsigs") # {} /\ New("abort") = {}
  <2>1. PICK msg \in Elems(post) : Kind(msg) = "fsigs"
    BY <1>13
  <2>2. t.phase = "FundingSigned" /\ PhoneOK(p, t)
    BY <1>1, <2>1 DEF Turn
  <2>3. d = {View(t)}
    BY <1>1, <2>2 DEF Turn, PhoneOK, Sound
  <2> DEFINE v == View(t)
  <2>4. Funded'[p] = {v} /\ v \in disk'[p]
    BY <1>3, <1>4, <1>7, <1>13, <2>3
  <2> HIDE DEF v
  <2>5. Covered(p, v)'
    BY <2>4 DEF Inv, DiskCovered
  <2>6. ASSUME NEW q \in Honest PROVE SentOf(q, "psigs")' = SentOf(q, "psigs")
    BY <1>3, <1>13
  <2>7. p \in DOMAIN v.regs
    BY <2>5 DEF Covered
  <2>8. ASSUME NEW q \in Honest \cap DOMAIN v.regs PROVE Bound[q] = {v}
    <3>1. PICK g \in SentOf(q, "psigs") : Val(g).view = v
      BY <2>5, <2>6 DEF Covered
    <3>2. \A h \in SentOf(q, "psigs") : h = g
      BY <3>1 DEF Inv, NonceOnce, SentOf, Sent
    <3> QED BY <1>6, <3>1, <3>2
  <2>9. Bound'[p] = Bound[p] /\ (p \in Quitters' <=> p \in Quitters)
    <3>1. SentOf(p, "abort")' = SentOf(p, "abort")
      BY <1>3, <1>13
    <3> QED BY <1>6, <1>7, <2>6, <3>1
  <2>10. Bound' = Bound /\ Quitters' = Quitters
    BY <1>5, <1>8, <2>9
  <2>11. Funded' = [Funded EXCEPT ![p] = {v}]
    BY <1>5, <1>8, <2>4
  <2>12. Commit!Fund(p)
    BY <1>11, <1>13, <2>4, <2>7, <2>8, <2>10, <2>11 DEF Commit!Fund
  <2> QED BY <2>12 DEF Commit!CNext
<1>14. CASE New("psigs") = {} /\ New("fsigs") = {}
  <2>1. Bound'[p] = Bound[p]
    <3>1. SentOf(p, "psigs")' = SentOf(p, "psigs")
      BY <1>3, <1>14
    <3> QED BY <1>6, <1>7, <3>1
  <2>2. SentOf(p, "fsigs") # {} => d = disk[p]
    BY <1>1 DEF Inv, FundedPhase, Turn, Over
  <2>3. Funded'[p] = Funded[p]
    BY <1>3, <1>4, <1>6, <1>7, <1>14, <2>2
  <2>4. Bound' = Bound /\ Funded' = Funded
    BY <1>5, <1>8, <2>1, <2>3
  <2>5. CASE New("abort") = {}
    <3>1. p \in Quitters' <=> p \in Quitters
      BY <1>3, <1>6, <1>7, <2>5
    <3> QED BY <1>5, <1>8, <2>4, <3>1
  <2>6. CASE New("abort") # {}
    <3>1. p \notin Quitters /\ Funded[p] = {}
      BY <1>11, <2>6
    <3>2. p \in Quitters'
      BY <1>3, <1>7, <2>6
    <3>3. Quitters' = Quitters \cup {p}
      BY <1>5, <1>8, <3>2
    <3>4. Commit!Quit(p)
      BY <2>4, <3>1, <3>2, <3>3 DEF Commit!Quit
    <3> QED BY <3>4 DEF Commit!CNext
  <2> QED BY <2>5, <2>6
<1> QED BY <1>9, <1>12, <1>13, <1>14

(* Every step of the pool is a step of PoolCommit, or leaves it unchanged. *)
LEMMA NextCommits ==
  Inv /\ Inv' /\ [Next]_vars => [Commit!CNext]_(Commit!cvars)
<1> SUFFICES ASSUME Inv, Inv', [Next]_vars
             PROVE  Commit!CNext \/ UNCHANGED <<Bound, Funded, Quitters>>
  BY DEF Commit!cvars
<1>1. CASE UNCHANGED vars
  BY <1>1, Unmoved DEF vars
<1>2. CASE Next
  <2>1. PICK p \in Honest : PhoneTurn(p) \/ ClearSeen(p) \/ Close(p)
    BY <1>2, NextTurn
  <2>2. CASE PhoneTurn(p)
    BY <2>2, TurnCommits
  <2>3. CASE ClearSeen(p) \/ Close(p)
    BY <2>3, Unmoved DEF ClearSeen, Close
  <2> QED BY <2>1, <2>2, <2>3
<1> QED BY <1>1, <1>2

(* Every pool, whatever its other sessions post, implements the atomic     *)
(* commitment of PoolCommit: a member binds itself to one view (try_sign), *)
(* puts its coin in only when every honest member of that view is bound to *)
(* it (on_psigs, record_saved, try_fund), and not once it has told the     *)
(* pool that it stopped (stop).                                            *)
THEOREM PoolImplementsCommit == Spec => ImplementsCommit
<1>1. Inv /\ Inv' /\ [Next]_vars => [Commit!CNext]_(Commit!cvars)
  BY NextCommits
<1> QED
  BY <1>1, InitCommits, InvHolds, PTL DEF Spec, ImplementsCommit, Commit!CSpec
=============================================================================
