-------------------------- MODULE SendLoopProofs --------------------------
(* Proofs about SendLoop, for any numbers of tries, payments and calls.    *)
EXTENDS SendLoop, TLAPS

(* Payments that have not been made are blank.                             *)
Fresh ==
  \A p \in Pays : p > used => /\ pay[p] = NoPay
                              /\ events[p] = "none" /\ outcomes[p] = "none"

(* What LDK has told of is over, for LDK and on the wire.                  *)
Told ==
  \A p \in Pays : events[p] # "none" \/ outcomes[p] # "none"
                    => ~Out(p) /\ pay[p].st # "pending"

(* What a restart forgets is an abandonment LDK has not told of.           *)
Forgettable == \A p \in unsaved : pay[p].st = "abandoned" /\ events[p] = "none"

(* No payment is of a call to come.                                        *)
Past == \A p \in Pays : pay[p].call <= call

(* A call to come rests.                                                   *)
Unborn == \A c \in Calls : c > call => loop[c].at = "idle"

(* Call c has nothing out.                                                 *)
Back(c) == \A p \in Pays : ~(Out(p) /\ pay[p].call = c)

(* A call about to send has nothing out; a call that waits, at most the    *)
(* payment it waits for.                                                   *)
Clear == \A c \in Calls : loop[c].at = "route" => Back(c)
Alone ==
  \A c \in Calls : loop[c].at \in {"wait", "release"} =>
    \A p \in Pays : Out(p) /\ pay[p].call = c => p = loop[c].pid

(* Somebody waits for payment p.                                           *)
Awaited(p) == \E c \in Calls : loop[c].at = "wait" /\ loop[c].pid = p

(* While any call is past its probe, whatever is pending is waited for.    *)
Sending == {"route", "wait", "release"}
NoneStray ==
  (\E c \in Calls : loop[c].at \in Sending) =>
    \A p \in Pays : pay[p].st = "pending" => Awaited(p)

(* The call whose question is up rests.                                    *)
Rests == \A c \in Calls : ask = c => loop[c].at = "idle"

(* The inductive invariant.                                                *)
Inv == /\ TypeOK /\ Fresh /\ Told /\ Forgettable /\ Past /\ Unborn /\ Clear
       /\ Alone /\ NoneStray /\ Rests /\ AskedSendIsBack /\ OneTryAtATime

PayStates == {"pending", "abandoned", "fulfilled", "gone"}
Events == {"none", "sent", "exhausted", "final"}
Outcomes == {"none", "sent", "path", "terminal"}
HtlcStates == {"none", "out", "claimed"}

(* Sets of words, like those TypeOK writes out, are expanded everywhere.    *)
USE DEF Events, Outcomes

-----------------------------------------------------------------------------
(* Records and functions.                                                  *)

(* A payment comes to state s and HTLC h, and nothing else changes.        *)
Becomes(f, p, s, h) ==
  /\ f \in [Pays -> Payment]
  /\ \A q \in Pays \ {p} : f[q] = pay[q]
  /\ f[p].st = s /\ f[p].htlc = h /\ f[p].call = pay[p].call

(* What the changes of LDK's actions come to.                              *)
LEMMA PayLemma ==
  ASSUME pay \in [Pays -> Payment], NEW p \in Pays,
         NEW s \in PayStates, NEW h \in HtlcStates
  PROVE  /\ Becomes([pay EXCEPT ![p].htlc = h, ![p].st = s], p, s, h)
         /\ Becomes([pay EXCEPT ![p].st = s], p, s, pay[p].htlc)
<1> DEFINE half == [pay EXCEPT ![p].htlc = h]
<1>1. Becomes(half, p, pay[p].st, h)
  BY DEF Becomes, Payment, HtlcStates
<1>2. [pay EXCEPT ![p].htlc = h, ![p].st = s] = [half EXCEPT ![p].st = s]
  OBVIOUS
<1> HIDE DEF half
<1>3. Becomes([half EXCEPT ![p].st = s], p, s, h)
  BY <1>1 DEF Becomes, Payment, PayStates
<1>4. Becomes([pay EXCEPT ![p].st = s], p, s, pay[p].htlc)
  BY DEF Becomes, Payment, PayStates
<1> QED BY <1>2, <1>3, <1>4

(* What send_loop makes of its own state.                                  *)
LEMMA IdleType == Idle \in Loops /\ Idle.at = "idle"
  BY SendAssumption DEF Idle, Loops

LEMMA NoPayType == NoPay \in Payment /\ NoPay.st = "gone" /\ NoPay.htlc = "none" /\ NoPay.call = 0
  BY SendAssumption DEF NoPay, Payment

(* The loop at the next try keeps its type.                                *)
LEMMA TryType ==
  ASSUME NEW k \in Loops, k.try < Tries, NEW r \in BOOLEAN
  PROVE  LET l == [k EXCEPT !.at = "route", !.try = @ + 1, !.pid = 0, !.refused = r]
         IN  l \in Loops /\ l.at = "route"
<1> DEFINE l1 == [k EXCEPT !.at = "route"]
           l2 == [l1 EXCEPT !.try = @ + 1]
           l3 == [l2 EXCEPT !.pid = 0]
           l4 == [l3 EXCEPT !.refused = r]
<1>1. l1 \in Loops /\ l1.at = "route" /\ l1.try = k.try
  BY DEF Loops
<1> HIDE DEF l1
<1>2. l2 \in Loops /\ l2.at = "route"
  BY <1>1, SendAssumption DEF Loops
<1> HIDE DEF l2
<1>3. l3 \in Loops /\ l3.at = "route"
  BY <1>2, SendAssumption DEF Loops
<1> HIDE DEF l3
<1>4. l4 \in Loops /\ l4.at = "route"
  BY <1>3 DEF Loops
<1> QED BY <1>4 DEF l1, l2, l3, l4

-----------------------------------------------------------------------------
(* What kinds of step keep the invariant.                                  *)

(* A step of the page, or of the store.                                    *)
LEMMA PageKeeps ==
  ASSUME Inv, TypeOK', UNCHANGED <<pay, used, events, outcomes, loop, call>>,
         unsaved' \subseteq unsaved, ask' \in {ask, 0}
  PROVE  Inv'
<1> USE DEF Inv, Out
<1>1. Fresh' /\ Told' /\ Past' /\ Unborn'
  BY DEF Fresh, Told, Past, Unborn, Pays, Calls
<1>2. Forgettable'
  BY DEF Forgettable
<1>3. Clear' /\ Alone'
  BY DEF Clear, Alone, Back, Pays, Calls
<1>4. NoneStray'
  BY DEF NoneStray, Awaited, Pays, Calls
<1>5. Rests'
  BY DEF Rests, Calls
<1>6. AskedSendIsBack'
  BY DEF AskedSendIsBack, Pays
<1>7. OneTryAtATime'
  BY DEF OneTryAtATime, Pays
<1> QED BY <1>1, <1>2, <1>3, <1>4, <1>5, <1>6, <1>7

(* A step of call c that gives LDK nothing and waits for nothing; before   *)
(* it looks for a route, it has nothing out, and either it was past its    *)
(* probe or nothing is pending.                                            *)
LEMMA LoopKeeps ==
  ASSUME Inv, TypeOK', UNCHANGED ldk, call' >= call, NEW c \in Calls, c <= call',
         \A p \in Pays : outcomes'[p] \in {outcomes[p], "none"},
         \A d \in Calls \ {c} : loop'[d] = loop[d],
         loop'[c].at \in {"idle", "inherit", "route"},
         loop'[c].at = "route" =>
           /\ Back(c)
           /\ loop[c].at \in Sending \/ \A p \in Pays : pay[p].st # "pending",
         loop[c].at = "wait" => pay[loop[c].pid].st # "pending",
         ask' \in {ask, 0, c}, ask' = c => loop'[c].at = "idle" /\ Back(c)
  PROVE  Inv'
<1> USE DEF Inv, Out, ldk
<1>1. Fresh'
  BY DEF Fresh, Pays
<1>2. Told'
  BY DEF Told, Pays
<1>3. Forgettable'
  BY DEF Forgettable
<1>4. Past' /\ Unborn'
  <2>1. call \in Nat /\ call' \in Nat /\ c \in Nat
    BY SendAssumption DEF TypeOK, Calls
  <2>2. \A p \in Pays : pay[p].call \in Nat
    BY SendAssumption DEF TypeOK, Payment
  <2>3. Past'
    BY <2>1, <2>2 DEF Past, Pays
  <2>4. \A d \in Calls : d \in Nat
    BY DEF Calls
  <2>5. Unborn'
    BY <2>1, <2>4 DEF Unborn, Calls
  <2> QED BY <2>3, <2>5
<1>5. Clear'
  BY DEF Clear, Back, Pays, Calls
<1>6. Alone'
  BY DEF Alone, Pays, Calls
<1>7. NoneStray'
  <2> SUFFICES ASSUME NEW d \in Calls, loop'[d].at \in Sending,
                      NEW p \in Pays, pay[p].st = "pending"
               PROVE  Awaited(p)'
    BY DEF NoneStray, Pays, Calls
  <2>1. \E e \in Calls : loop[e].at \in Sending
    BY DEF Sending
  <2>2. PICK e \in Calls : loop[e].at = "wait" /\ loop[e].pid = p
    BY <2>1 DEF NoneStray, Awaited
  <2>3. loop'[e] = loop[e]
    BY <2>2
  <2> QED BY <2>2, <2>3 DEF Awaited, Calls
<1>8. Rests'
  BY DEF Rests, TypeOK, Calls
<1>9. AskedSendIsBack'
  BY DEF AskedSendIsBack, Back, Pays
<1>10. OneTryAtATime'
  BY DEF OneTryAtATime, Pays
<1> QED BY <1>1, <1>2, <1>3, <1>4, <1>5, <1>6, <1>7, <1>8, <1>9, <1>10

(* A payment that has been made comes to its end in LDK.                   *)
LEMMA EndKeeps ==
  ASSUME Inv, TypeOK', NEW p \in Pays, pay[p] # NoPay,
         UNCHANGED <<used, outcomes, loop, call, ask>>,
         \A q \in Pays \ {p} : pay'[q] = pay[q] /\ events'[q] = events[q],
         pay'[p].st # "pending", pay'[p].call \in {pay[p].call, 0},
         Out(p)' => Out(p) /\ events'[p] = "none" /\ pay'[p].call = pay[p].call,
         unsaved' = unsaved \ {p}
  PROVE  Inv'
<1> USE DEF Inv, Out
<1>1. Fresh'
  BY DEF Fresh, Pays
<1>2. Told'
  BY DEF Told, Pays
<1>3. Forgettable'
  BY DEF Forgettable, TypeOK
<1>4. Past' /\ Unborn'
  BY DEF Past, Unborn, Pays, Calls, TypeOK
<1>5. Clear' /\ Alone'
  BY DEF Clear, Alone, Back, Pays, Calls
<1>6. NoneStray'
  BY DEF NoneStray, Awaited, Pays, Calls
<1>7. Rests' /\ AskedSendIsBack'
  BY DEF Rests, AskedSendIsBack, Pays, Calls
<1>8. OneTryAtATime'
  BY DEF OneTryAtATime, Pays
<1> QED BY <1>1, <1>2, <1>3, <1>4, <1>5, <1>6, <1>7, <1>8

-----------------------------------------------------------------------------
(* The steps of LDK.                                                       *)

LEMMA ClaimInv == ASSUME NEW p \in Pays, Inv, Claim(p) PROVE Inv'
<1>1. "fulfilled" \in PayStates /\ "claimed" \in HtlcStates
  BY DEF PayStates, HtlcStates
<1>2. Becomes(pay', p, "fulfilled", "claimed")
  BY <1>1, PayLemma, Zenon DEF Inv, TypeOK, Claim
<1>3. TypeOK'
  BY <1>2 DEF Becomes, Inv, TypeOK, Claim, page
<1>4. pay[p] # NoPay
  BY DEF Claim, Out, NoPay
<1> QED
  BY <1>2, <1>3, <1>4, EndKeeps DEF Becomes, Inv, TypeOK, Claim, Out, page

LEMMA FailBackInv ==
  ASSUME NEW p \in Pays, NEW permanent \in BOOLEAN, Inv, FailBack(p, permanent)
  PROVE  Inv'
<1>1. /\ pay' \in [Pays -> Payment] /\ pay'[p] = NoPay
      /\ \A q \in Pays \ {p} : pay'[q] = pay[q]
  BY NoPayType DEF Inv, TypeOK, FailBack
<1>2. TypeOK'
  BY <1>1 DEF Inv, TypeOK, FailBack, page
<1>3. pay[p] # NoPay
  BY NoPayType DEF FailBack, Out
<1> QED
  BY <1>1, <1>2, <1>3, NoPayType, EndKeeps DEF Inv, TypeOK, FailBack, Out, page

LEMMA ForgetInv == ASSUME NEW p \in Pays, Inv, Forget(p) PROVE Inv'
<1>1. "gone" \in PayStates /\ "none" \in HtlcStates
  BY DEF PayStates, HtlcStates
<1>2. Becomes(pay', p, "gone", pay[p].htlc)
  BY <1>1, PayLemma, Zenon DEF Inv, TypeOK, Forget
<1>3. TypeOK'
  BY <1>2 DEF Becomes, Inv, TypeOK, Forget, page
<1>4. pay[p] # NoPay /\ unsaved' = unsaved \ {p}
  BY DEF Forget, NoPay, Inv, Forgettable
<1> QED
  BY <1>2, <1>3, <1>4, EndKeeps DEF Becomes, Inv, TypeOK, Forget, Out, page

LEMMA HandleEventsInv == ASSUME Inv, HandleEvents PROVE Inv'
<1> USE DEF Inv, HandleEvents, Out, page
<1>1. \A p \in Pays : /\ Outcome(p) \in Outcomes
                      /\ Outcome(p) # "none" => events[p] # "none" \/ outcomes[p] # "none"
  <2> SUFFICES ASSUME NEW p \in Pays PROVE Outcome(p) \in Outcomes
    BY DEF Outcome
  <2>1. events[p] \in Events /\ outcomes[p] \in Outcomes
    BY DEF TypeOK
  <2> QED BY <2>1 DEF Outcome
<1>2. TypeOK'
  BY <1>1 DEF TypeOK
<1>3. \A p \in Pays : events'[p] = "none" /\ outcomes'[p] = Outcome(p)
  OBVIOUS
<1>4. Fresh' /\ Told' /\ Forgettable' /\ Past' /\ Unborn'
  BY <1>1, <1>3 DEF Fresh, Told, Forgettable, Past, Unborn, TypeOK, Pays, Calls
<1>5. Clear' /\ Alone'
  BY DEF Clear, Alone, Back, Pays, Calls
<1>6. NoneStray'
  BY DEF NoneStray, Awaited, Pays, Calls
<1>7. Rests' /\ AskedSendIsBack' /\ OneTryAtATime'
  BY DEF Rests, AskedSendIsBack, OneTryAtATime, Pays, Calls
<1> QED BY <1>2, <1>4, <1>5, <1>6, <1>7

LEMMA SaveInv == ASSUME Inv, Save PROVE Inv'
<1>1. TypeOK'
  BY DEF Inv, TypeOK, Save, page
<1> QED BY <1>1, PageKeeps DEF Save, page

-----------------------------------------------------------------------------
(* The steps of the page.                                                  *)

LEMMA StopInv == ASSUME Inv, Stop PROVE Inv'
<1>1. TypeOK'
  BY DEF Inv, TypeOK, Stop, ldk
<1> QED BY <1>1, PageKeeps DEF Stop, ldk

LEMMA FateTickInv == ASSUME Inv, FateTick PROVE Inv'
<1>1. TypeOK'
  BY DEF Inv, TypeOK, FateTick, ldk
<1> QED BY <1>1, PageKeeps DEF FateTick, ldk

LEMMA LspAnswersInv == ASSUME Inv, LspAnswers PROVE Inv'
<1>1. TypeOK'
  BY DEF Inv, TypeOK, LspAnswers, ldk
<1> QED BY <1>1, PageKeeps DEF LspAnswers, ldk

LEMMA ReconcileInv == ASSUME Inv, Reconcile PROVE Inv'
<1>1. TypeOK'
  BY DEF Inv, TypeOK, Reconcile, ldk
<1> QED BY <1>1, PageKeeps DEF Reconcile, ldk

-----------------------------------------------------------------------------
(* The steps of a call.                                                    *)

(* The probe that begins a call leaves nothing pending to its tries.       *)
LEMMA BeginInv ==
  ASSUME Inv, NEW c \in Calls, NEW refused \in BOOLEAN, Begin(c, refused),
         loop[c].at # "wait", Back(c), UNCHANGED <<ldk, outcomes, restarts>>,
         call' \in 0..MaxCalls, call' >= call, c <= call', ask' = 0,
         row' \in {row, "pending"}, verdict' \in {verdict, "none"}
  PROVE  Inv'
<1> DEFINE l1 == [Idle EXCEPT !.try = 1]
           l2 == [l1 EXCEPT !.refused = refused]
           w == IF \E p \in Pays : pay[p].st = "pending" THEN "inherit" ELSE "route"
           l3 == [l2 EXCEPT !.at = w]
<1>1. l1 \in Loops
  BY IdleType, SendAssumption DEF Loops
<1>2. w \in {"inherit", "route"}
      /\ (w = "route" => \A p \in Pays : pay[p].st # "pending")
  OBVIOUS
<1>3. loop' = [loop EXCEPT ![c] = l3]
  BY DEF Begin
<1> HIDE DEF l1, w
<1>4. l2 \in Loops
  BY <1>1 DEF Loops
<1> HIDE DEF l2
<1>5. l3 \in Loops /\ l3.at = w
  BY <1>2, <1>4 DEF Loops
<1> HIDE DEF l3
<1>6. /\ loop' \in [Calls -> Loops] /\ loop'[c] = l3
      /\ \A d \in Calls \ {c} : loop'[d] = loop[d]
  BY <1>3, <1>5 DEF Inv, TypeOK
<1>7. TypeOK'
  BY <1>2, <1>5, <1>6 DEF Inv, TypeOK, ldk
<1>8. ask' # c
  BY DEF Calls
<1> QED BY <1>2, <1>5, <1>6, <1>7, <1>8, LoopKeeps

LEMMA DoSendInv == ASSUME Inv, DoSend PROVE Inv'
<1>1. /\ call \in Nat /\ call + 1 \in Calls /\ call' = call + 1
      /\ call' \in 0..MaxCalls /\ call' >= call /\ call + 1 <= call'
  BY SendAssumption DEF DoSend, Inv, TypeOK, Calls
<1>2. \A p \in Pays : pay[p].call # call + 1
  BY <1>1 DEF Inv, TypeOK, Payment, Past
<1>3. Back(call + 1)
  BY <1>2 DEF Back
<1>4. loop[call + 1].at # "wait"
  BY <1>1 DEF Inv, Unborn
<1>5. Begin(call + 1, FALSE) /\ FALSE \in BOOLEAN
  BY DEF DoSend
<1>6. /\ UNCHANGED <<ldk, outcomes, restarts>> /\ ask' = 0
      /\ row' \in {row, "pending"} /\ verdict' \in {verdict, "none"}
  BY DEF DoSend
<1> QED BY <1>1, <1>3, <1>4, <1>5, <1>6, BeginInv

LEMMA TryMoreInv == ASSUME Inv, TryMore PROVE Inv'
<1>1. ask \in Calls /\ ask <= call /\ loop[ask].at = "idle" /\ Back(ask)
  BY SendAssumption DEF TryMore, Inv, TypeOK, Rests, AskedSendIsBack, Back, Calls
<1>2. PICK refused \in BOOLEAN : Begin(ask, refused)
  BY DEF TryMore
<1>3. call' \in 0..MaxCalls /\ call' >= call
  BY DEF TryMore, Inv, TypeOK
<1> QED BY <1>1, <1>2, <1>3, BeginInv DEF TryMore

(* Any end of a call whose payment is not pending; the question only when  *)
(* the call has nothing out.                                               *)
LEMMA EndSendInv ==
  ASSUME Inv, NEW c \in Calls, loop[c].at # "idle", NEW mayAsk \in BOOLEAN,
         EndSend(c, mayAsk) \/ Succeed(c),
         mayAsk => Back(c), loop[c].at = "wait" => pay[loop[c].pid].st # "pending",
         UNCHANGED <<ldk, call, verdict, restarts>>,
         outcomes' \in [Pays -> Outcomes],
         \A p \in Pays : outcomes'[p] \in {outcomes[p], "none"}
  PROVE  Inv'
<1>1. /\ loop' \in [Calls -> Loops] /\ loop'[c].at = "idle"
      /\ \A d \in Calls \ {c} : loop'[d] = loop[d]
  BY IdleType DEF EndSend, Succeed, Inv, TypeOK
<1>2. ask # c
  BY DEF Inv, Rests
<1>3. /\ ask' = ask \/ (ask' = c /\ Back(c))
      /\ row' \in {row, "held", "failed", "completed"}
  BY DEF EndSend, Succeed
<1>4. c \in 0..call /\ c <= call
  BY SendAssumption DEF Inv, TypeOK, Unborn, Calls
<1>5. TypeOK'
  BY <1>1, <1>3, <1>4 DEF Inv, TypeOK, ldk
<1> QED BY <1>1, <1>2, <1>3, <1>4, <1>5, LoopKeeps DEF Inv, TypeOK

(* The next try of a call past its probe that has nothing out.             *)
LEMMA NextTryInv ==
  ASSUME Inv, NEW c \in Calls, NEW refused \in BOOLEAN, NextTry(c, refused),
         loop[c].at \in Sending, Back(c),
         loop[c].at = "wait" => pay[loop[c].pid].st # "pending",
         UNCHANGED <<ldk, call, verdict, restarts>>,
         outcomes' \in [Pays -> Outcomes],
         \A p \in Pays : outcomes'[p] \in {outcomes[p], "none"}
  PROVE  Inv'
<1>1. loop[c].at # "idle"
  BY DEF Sending
<1>2. CASE loop[c].try >= Tries
  BY <1>1, <1>2, EndSendInv DEF NextTry
<1>3. CASE ~(loop[c].try >= Tries)
  <2> DEFINE l == [loop[c] EXCEPT !.at = "route", !.try = @ + 1, !.pid = 0, !.refused = refused]
  <2>1. loop[c] \in Loops /\ loop[c].try < Tries
    BY <1>3, SendAssumption DEF Inv, TypeOK, Loops
  <2>2. l \in Loops /\ l.at = "route"
    BY <2>1, TryType
  <2>3. UNCHANGED page /\ loop' = [loop EXCEPT ![c] = l]
    BY <1>3 DEF NextTry, Again
  <2> HIDE DEF l
  <2>4. /\ loop' \in [Calls -> Loops] /\ loop'[c] = l
        /\ \A d \in Calls \ {c} : loop'[d] = loop[d]
    BY <2>2, <2>3 DEF Inv, TypeOK
  <2>5. TypeOK'
    BY <2>2, <2>3, <2>4 DEF Inv, TypeOK, ldk, page
  <2>6. ask' = ask /\ ask # c /\ c <= call
    BY <1>1, <2>3, SendAssumption DEF Inv, TypeOK, Rests, Unborn, Calls, page
  <2> QED BY <2>2, <2>4, <2>5, <2>6, LoopKeeps DEF Inv, TypeOK
<1> QED BY <1>2, <1>3

(* Reading the outcome of a payment makes it the past of the loop.         *)
LEMMA TakeLemma ==
  ASSUME Inv, NEW c \in Calls, loop[c].at \in {"wait", "release"}, Take(c)
  PROVE  /\ outcomes' \in [Pays -> Outcomes]
         /\ \A p \in Pays : outcomes'[p] \in {outcomes[p], "none"}
         /\ Back(c) /\ pay[loop[c].pid].st # "pending"
         /\ loop[c].at \in Sending /\ loop[c].at # "idle"
<1>1. loop[c].pid \in Pays
  BY SendAssumption DEF Inv, TypeOK, Pays
<1>2. Back(c) /\ pay[loop[c].pid].st # "pending"
  BY <1>1 DEF Inv, Told, Alone, Take, Back
<1> QED BY <1>1, <1>2 DEF Inv, TypeOK, Take, Sending

LEMMA InheritedInv == ASSUME Inv, NEW c \in Calls, Inherited(c) PROVE Inv'
  BY EndSendInv DEF Inherited, Inv, TypeOK

LEMMA NoTryInv == ASSUME Inv, NEW c \in Calls, NoTry(c) PROVE Inv'
<1>1. loop[c].refused \in BOOLEAN
  BY DEF Inv, TypeOK, Loops
<1>2. CASE NextTry(c, loop[c].refused)
  BY <1>1, <1>2, NextTryInv DEF NoTry, Inv, TypeOK, Clear, Sending
<1>3. CASE EndSend(c, FALSE)
  BY <1>3, EndSendInv DEF NoTry, Inv, TypeOK
<1> QED BY <1>2, <1>3 DEF NoTry

LEMMA WaitDoneInv == ASSUME Inv, NEW c \in Calls, WaitDone(c) PROVE Inv'
<1>1. /\ outcomes' \in [Pays -> Outcomes]
      /\ \A p \in Pays : outcomes'[p] \in {outcomes[p], "none"}
      /\ Back(c) /\ pay[loop[c].pid].st # "pending"
      /\ loop[c].at \in Sending /\ loop[c].at # "idle"
  BY TakeLemma DEF WaitDone
<1>2. UNCHANGED <<ldk, call, verdict, restarts>>
  BY DEF WaitDone
<1>3. CASE NextTry(c, TRUE)
  BY <1>1, <1>2, <1>3, NextTryInv
<1>4. CASE EndSend(c, FALSE) \/ Succeed(c)
  BY <1>1, <1>2, <1>4, EndSendInv
<1> QED BY <1>3, <1>4 DEF WaitDone

LEMMA ReleaseDoneInv == ASSUME Inv, NEW c \in Calls, ReleaseDone(c) PROVE Inv'
<1>1. /\ outcomes' \in [Pays -> Outcomes]
      /\ \A p \in Pays : outcomes'[p] \in {outcomes[p], "none"}
      /\ Back(c) /\ pay[loop[c].pid].st # "pending"
      /\ loop[c].at \in Sending /\ loop[c].at # "idle"
  BY TakeLemma DEF ReleaseDone
<1>2. UNCHANGED <<ldk, call, verdict, restarts>> /\ loop[c].refused \in BOOLEAN
  BY DEF ReleaseDone, Inv, TypeOK, Loops
<1>3. CASE NextTry(c, loop[c].refused)
  BY <1>1, <1>2, <1>3, NextTryInv
<1>4. CASE Succeed(c)
  BY <1>1, <1>2, <1>4, EndSendInv
<1> QED BY <1>3, <1>4 DEF ReleaseDone

LEMMA ReleaseTimeoutInv == ASSUME Inv, NEW c \in Calls, ReleaseTimeout(c) PROVE Inv'
  BY EndSendInv DEF ReleaseTimeout, Inv, TypeOK

(* Abandoning a payment leaves its HTLC out.                               *)
LEMMA WaitTimeoutInv == ASSUME Inv, NEW c \in Calls, WaitTimeout(c) PROVE Inv'
<1> DEFINE w == loop[c].pid
<1>1. w \in Pays /\ loop[c].at = "wait" /\ "abandoned" \in PayStates /\ "none" \in HtlcStates
  BY SendAssumption DEF WaitTimeout, Inv, TypeOK, Pays, PayStates, HtlcStates
<1>2. \/ pay[w].st # "pending" /\ UNCHANGED <<pay, unsaved>>
      \/ /\ pay[w].st = "pending" /\ unsaved' = unsaved \cup {w}
         /\ Becomes(pay', w, "abandoned", pay[w].htlc)
  <2>1. pay \in [Pays -> Payment] /\ Abandon(w)
    BY DEF WaitTimeout, Inv, TypeOK
  <2>2. Becomes([pay EXCEPT ![w].st = "abandoned"], w, "abandoned", pay[w].htlc)
    BY <1>1, <2>1, PayLemma, Zenon
  <2> QED BY <2>1, <2>2, Zenon DEF Abandon
<1>3. /\ pay' \in [Pays -> Payment] /\ unsaved' \subseteq Pays
      /\ \A p \in Pays : /\ pay'[p].htlc = pay[p].htlc /\ pay'[p].call = pay[p].call
                         /\ pay'[p].st = "pending" => pay[p].st = "pending" /\ p # w
                         /\ pay[p] = NoPay => pay'[p] = NoPay
  BY <1>1, <1>2 DEF Inv, TypeOK, Becomes, NoPay
<1>4. /\ loop' \in [Calls -> Loops]
      /\ loop'[c].at = "idle" \/ (loop'[c].at = "release" /\ loop'[c].pid = w)
      /\ \A d \in Calls \ {c} : loop'[d] = loop[d]
  <2> DEFINE l == [loop[c] EXCEPT !.at = "release"]
  <2>1. l \in Loops /\ l.at = "release" /\ l.pid = w
    BY DEF Inv, TypeOK, Loops
  <2>2. loop' = [loop EXCEPT ![c] = Idle] \/ loop' = [loop EXCEPT ![c] = l]
    BY DEF WaitTimeout, EndSend
  <2> HIDE DEF l, w
  <2> QED BY <2>1, <2>2, IdleType DEF Inv, TypeOK
<1>5. ask' = ask /\ row' \in {row, "held", "failed"}
  BY DEF WaitTimeout, EndSend
<1>6. UNCHANGED <<used, events, outcomes, call, verdict, restarts>>
  BY DEF WaitTimeout
<1>7. TypeOK'
  BY <1>1, <1>3, <1>4, <1>5, <1>6 DEF Inv, TypeOK
<1>8. Fresh' /\ Told'
  BY <1>3, <1>6 DEF Inv, Fresh, Told, Out, Pays
<1>9. Forgettable'
  BY <1>1, <1>2, <1>6 DEF Becomes, Inv, TypeOK, Told, Forgettable
<1>10. Past' /\ Unborn'
  BY <1>1, <1>3, <1>4, <1>6 DEF Inv, Past, Unborn, Pays, Calls
<1>11. Clear' /\ Alone'
  BY <1>1, <1>3, <1>4 DEF Inv, Clear, Alone, Back, Out, Pays, Calls
<1>12. NoneStray'
  <2> SUFFICES ASSUME NEW d \in Calls, loop'[d].at \in Sending,
                      NEW p \in Pays, pay'[p].st = "pending"
               PROVE  Awaited(p)'
    BY DEF NoneStray, Pays, Calls
  <2>1. pay[p].st = "pending" /\ p # w
    BY <1>3
  <2>2. PICK e \in Calls : loop[e].at = "wait" /\ loop[e].pid = p
    BY <1>1, <2>1 DEF Inv, NoneStray, Awaited, Sending
  <2>3. loop'[e] = loop[e]
    BY <1>4, <2>1, <2>2
  <2> QED BY <2>2, <2>3 DEF Awaited, Calls
<1>13. Rests' /\ AskedSendIsBack'
  BY <1>1, <1>3, <1>4, <1>5 DEF Inv, Rests, AskedSendIsBack, Out, Pays, Calls
<1>14. OneTryAtATime'
  BY <1>3 DEF Inv, OneTryAtATime, Out, Pays
<1> QED
  BY <1>7, <1>8, <1>9, <1>10, <1>11, <1>12, <1>13, <1>14 DEF Inv

LEMMA DispatchInv ==
  ASSUME Inv, NEW c \in Calls, NEW hold \in BOOLEAN, Dispatch(c, hold)
  PROVE  Inv'
<1> DEFINE n == used + 1
           new == [st |-> "pending", htlc |-> "out", call |-> c]
<1>1. n \in Pays /\ used \in Nat /\ used' = n
  BY SendAssumption DEF Dispatch, Inv, TypeOK, Pays
<1>2. new \in Payment
  BY SendAssumption DEF Payment, Calls
<1>3. /\ pay' \in [Pays -> Payment] /\ pay'[n] = new
      /\ \A p \in Pays \ {n} : pay'[p] = pay[p]
  BY <1>1, <1>2 DEF Dispatch, Inv, TypeOK
<1>4. /\ loop' \in [Calls -> Loops] /\ loop'[c].at = "wait" /\ loop'[c].pid = n
      /\ \A d \in Calls \ {c} : loop'[d] = loop[d]
  <2> DEFINE l1 == [loop[c] EXCEPT !.at = "wait"]
             l2 == [l1 EXCEPT !.pid = n]
             l3 == [l2 EXCEPT !.hold = hold]
  <2>1. l1 \in Loops /\ l1.at = "wait"
    BY DEF Inv, TypeOK, Loops
  <2> HIDE DEF l1
  <2>2. l2 \in Loops /\ l2.at = "wait" /\ l2.pid = n
    BY <1>1, <2>1 DEF Loops, Pays
  <2> HIDE DEF l2
  <2>3. l3 \in Loops /\ l3.at = "wait" /\ l3.pid = n
    BY <2>2 DEF Loops
  <2>4. loop' = [loop EXCEPT ![c] = l3]
    BY DEF Dispatch, l1, l2
  <2> HIDE DEF l3
  <2> QED BY <2>3, <2>4 DEF Inv, TypeOK
<1>5. ask' = ask /\ ask # c /\ row' \in {row, "held"} /\ loop[c].at = "route"
  BY DEF Dispatch, Inv, Rests
<1>6. UNCHANGED <<unsaved, events, outcomes, call, verdict, restarts>>
  BY DEF Dispatch
<1>7. TypeOK'
  <2>1. \A d \in Calls : loop'[d].at \in {"wait", "release"} => loop'[d].pid \in 1..used'
    BY <1>1, <1>4 DEF Inv, TypeOK
  <2>2. used' \in 0..MaxPays
    BY <1>1 DEF Pays
  <2> QED BY <1>3, <1>4, <1>5, <1>6, <2>1, <2>2 DEF Inv, TypeOK
<1>8. Back(c)
  BY <1>5 DEF Inv, Clear
<1>9. pay[n] = NoPay /\ events[n] = "none" /\ outcomes[n] = "none"
  BY <1>1 DEF Inv, Fresh
<1> HIDE DEF new
<1>10. new.st = "pending" /\ new.htlc = "out" /\ new.call = c
  BY DEF new
<1>11. Fresh'
  BY <1>1, <1>3, <1>6 DEF Inv, Fresh, Pays
<1>12. Told'
  BY <1>3, <1>6, <1>9 DEF Inv, Told, Out
<1>13. Forgettable'
  BY <1>3, <1>6, <1>9 DEF Inv, TypeOK, Forgettable, NoPay
<1>14. Past' /\ Unborn'
  <2>1. c <= call
    BY <1>5, SendAssumption DEF Inv, TypeOK, Unborn, Calls
  <2>2. Past'
    BY <1>3, <1>6, <1>10, <2>1 DEF Inv, Past
  <2>3. call \in Nat /\ c \in Nat
    BY SendAssumption DEF Inv, TypeOK, Calls
  <2>4. Unborn'
    BY <1>4, <1>6, <2>1, <2>3 DEF Inv, Unborn
  <2> QED BY <2>2, <2>4
<1>15. Clear' /\ Alone'
  BY <1>3, <1>4, <1>5, <1>8, <1>10 DEF Inv, Clear, Alone, Back, Out
<1>16. NoneStray'
  <2> SUFFICES ASSUME NEW p \in Pays, pay'[p].st = "pending"
               PROVE  Awaited(p)'
    BY DEF NoneStray, Pays
  <2>1. CASE p = n
    BY <2>1, <1>4 DEF Awaited, Calls
  <2>2. CASE p # n
    <3>1. PICK e \in Calls : loop[e].at = "wait" /\ loop[e].pid = p
      BY <1>3, <1>5, <2>2 DEF Inv, NoneStray, Awaited, Sending
    <3>2. loop'[e] = loop[e]
      BY <1>4, <1>5, <3>1
    <3> QED BY <3>1, <3>2 DEF Awaited, Calls
  <2> QED BY <2>1, <2>2
<1>17. Rests' /\ AskedSendIsBack'
  BY <1>3, <1>4, <1>5, <1>10 DEF Inv, Rests, AskedSendIsBack, Out
<1>18. OneTryAtATime'
  BY <1>3, <1>8, <1>10 DEF Inv, OneTryAtATime, Back, Out
<1> QED
  BY <1>7, <1>11, <1>12, <1>13, <1>14, <1>15, <1>16, <1>17, <1>18 DEF Inv

-----------------------------------------------------------------------------
(* The page is closed: nothing waits any more, and what LDK has told of is *)
(* not forgotten.                                                          *)
LEMMA RestartInv == ASSUME Inv, Restart PROVE Inv'
<1> DEFINE back(p) == IF p \in unsaved THEN [pay[p] EXCEPT !.st = "pending"] ELSE pay[p]
<1>1. pay' = [p \in Pays |-> back(p)]
  BY DEF Restart
<1>2. \A p \in Pays : /\ back(p) \in Payment
                      /\ back(p).htlc = pay[p].htlc /\ back(p).call = pay[p].call
                      /\ p \notin unsaved => back(p) = pay[p]
  BY DEF Inv, TypeOK, Payment
<1> HIDE DEF back
<1>3. \A p \in Pays : pay'[p] = back(p)
  BY <1>1
<1>4. \A p \in Pays : /\ pay'[p].htlc = pay[p].htlc /\ pay'[p].call = pay[p].call
                      /\ p \notin unsaved => pay'[p] = pay[p]
                      /\ outcomes'[p] = "none"
  BY <1>3, <1>2 DEF Restart
<1>5. pay' \in [Pays -> Payment]
  <2>1. \A p \in Pays : pay'[p] \in Payment
    BY <1>3, <1>2
  <2>2. pay' = [p \in Pays |-> pay'[p]]
    BY <1>1
  <2> QED BY <2>1, <2>2
<1>6. outcomes' \in [Pays -> Outcomes]
  BY DEF Restart
<1>7. /\ loop' \in [Calls -> Loops] /\ \A c \in Calls : loop'[c].at = "idle"
      /\ ask' = 0
  BY IdleType DEF Restart
<1>8. restarts' \in 0..MaxRestarts
  BY SendAssumption DEF Restart, Inv, TypeOK
<1>9. TypeOK'
  BY <1>5, <1>6, <1>7, <1>8, SendAssumption DEF Restart, Inv, TypeOK
<1>10. \A p \in unsaved : pay[p].st = "abandoned" /\ events[p] = "none"
  BY DEF Inv, Forgettable
<1>11. Fresh'
  BY <1>4, <1>10 DEF Restart, Inv, Fresh, NoPay, Pays
<1>12. Told' /\ Forgettable'
  BY <1>4, <1>10 DEF Restart, Inv, Told, Forgettable, Out
<1>13. Past' /\ Unborn'
  BY <1>4, <1>7 DEF Restart, Inv, Past, Unborn, Pays, Calls
<1>14. Clear' /\ Alone' /\ NoneStray'
  BY <1>7 DEF Clear, Alone, NoneStray, Sending, Calls
<1>15. Rests' /\ AskedSendIsBack'
  BY <1>7 DEF Rests, AskedSendIsBack, Calls
<1>16. OneTryAtATime'
  BY <1>4 DEF Inv, OneTryAtATime, Out, Pays
<1> QED BY <1>9, <1>11, <1>12, <1>13, <1>14, <1>15, <1>16 DEF Inv

-----------------------------------------------------------------------------
(* The theorems.                                                           *)

LEMMA InitInv == Init => Inv
<1> SUFFICES ASSUME Init PROVE Inv
  OBVIOUS
<1>1. \A p \in Pays : pay[p] = NoPay /\ events[p] = "none" /\ outcomes[p] = "none"
  BY DEF Init
<1>2. /\ pay \in [Pays -> Payment]
      /\ events \in [Pays -> Events]
      /\ outcomes \in [Pays -> Outcomes]
  BY NoPayType DEF Init
<1>3. /\ used \in 0..MaxPays /\ call \in 0..MaxCalls /\ restarts \in 0..MaxRestarts
      /\ ask = 0 /\ ask \in 0..call
  BY SendAssumption DEF Init
<1>4. loop \in [Calls -> Loops] /\ \A c \in Calls : loop[c].at = "idle"
  BY IdleType DEF Init
<1>5. TypeOK
  BY <1>2, <1>3, <1>4 DEF Init, TypeOK
<1>6. Fresh /\ Told /\ Forgettable
  BY <1>1, NoPayType DEF Init, Fresh, Told, Forgettable, Out
<1>7. Past /\ Unborn
  BY <1>1, <1>4, NoPayType DEF Init, Past, Unborn
<1>8. Clear /\ Alone /\ NoneStray
  BY <1>4 DEF Clear, Alone, NoneStray, Sending
<1>9. Rests /\ AskedSendIsBack /\ OneTryAtATime
  BY <1>1, <1>3, <1>4, NoPayType DEF Rests, AskedSendIsBack, OneTryAtATime, Out
<1> QED BY <1>5, <1>6, <1>7, <1>8, <1>9 DEF Inv

LEMMA LoopStepInv == ASSUME Inv, NEW c \in Calls, LoopStep(c) PROVE Inv'
  BY InheritedInv, NoTryInv, DispatchInv, WaitDoneInv, WaitTimeoutInv,
     ReleaseDoneInv, ReleaseTimeoutInv DEF LoopStep

LEMMA NextInv == Inv /\ [Next]_vars => Inv'
<1> SUFFICES ASSUME Inv, [Next]_vars PROVE Inv'
  OBVIOUS
<1>1. CASE \E c \in Calls : LoopStep(c)
  BY <1>1, LoopStepInv
<1>2. CASE \E p \in Pays : Resolve(p) \/ Forget(p)
  BY <1>2, ClaimInv, FailBackInv, ForgetInv DEF Resolve
<1>3. CASE UNCHANGED vars
  <2>1. TypeOK'
    BY <1>3 DEF Inv, TypeOK, vars, ldk, page
  <2> QED BY <1>3, <2>1, PageKeeps DEF vars, ldk, page
<1> QED
  BY <1>1, <1>2, <1>3, DoSendInv, TryMoreInv, StopInv, HandleEventsInv, SaveInv,
     FateTickInv, LspAnswersInv, ReconcileInv, RestartInv DEF Next

LEMMA SpecInv == Spec => []Inv
  BY InitInv, NextInv, PTL DEF Spec

(* Every reachable state of the sends, of LDK's payments and of the row is *)
(* of its type, and a loop that waits waits for a payment that was made.   *)
THEOREM SendTypeCorrect == Spec => []TypeOK
<1>1. Inv => TypeOK
  BY DEF Inv
<1> QED BY <1>1, SpecInv, PTL

(* However silent, late or abandoned its tries, whatever other sends of    *)
(* the invoice run beside it, and wherever the page is closed, no send has *)
(* two HTLCs out.                                                          *)
THEOREM NeverTwoTries == Spec => []OneTryAtATime
<1>1. Inv => OneTryAtATime
  BY DEF Inv
<1> QED BY <1>1, SpecInv, PTL

(* Whenever "Try 5 more" is asked of a send, that send's HTLCs are back -  *)
(* by the engine's can_continue alone, whatever lijHtlcInFlight answered.  *)
THEOREM AskIsHonest == Spec => []AskedSendIsBack
<1>1. Inv => AskedSendIsBack
  BY DEF Inv
<1> QED BY <1>1, SpecInv, PTL

(* No HTLC leaves past a pending payment that no running call waits for:   *)
(* what pending_payment_for_bolt11 saw of those still holds when the route *)
(* has come.                                                               *)
THEOREM ProbeStaysTrue == Spec => OvertakesOnlyRunning
<1>1. Inv /\ [Next]_vars =>
        [used' > used => \A p \in Pays : pay[p].st = "pending" =>
           \E c \in Calls : loop[c].at = "wait" /\ loop[c].pid = p]_vars
  <2> SUFFICES ASSUME Inv, Next, used' > used, NEW p \in Pays, pay[p].st = "pending"
               PROVE  \E c \in Calls : loop[c].at = "wait" /\ loop[c].pid = p
    OBVIOUS
  <2>1. used' # used
    BY DEF Inv, TypeOK
  <2>2. PICK c \in Calls : \E hold \in BOOLEAN : Dispatch(c, hold)
    BY <2>1 DEF Next, DoSend, TryMore, Stop, LoopStep, Inherited, NoTry, WaitDone,
       WaitTimeout, ReleaseDone, ReleaseTimeout, Resolve, Claim, FailBack, Forget,
       HandleEvents, Save, FateTick, LspAnswers, Reconcile, Restart, ldk
  <2> QED BY <2>2 DEF Dispatch, Inv, NoneStray, Awaited, Sending
<1> QED BY <1>1, SpecInv, PTL DEF Spec, OvertakesOnlyRunning
=============================================================================
