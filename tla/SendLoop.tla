------------------------------ MODULE SendLoop ------------------------------
(***************************************************************************)
(* Paying one invoice: the tries of the engine (lij-wasm lib.rs,           *)
(* send_loop), LDK's outbound payments (outbound_payment.rs), the events   *)
(* that tell one of the other (node.rs), the Send screen that starts a     *)
(* send and reads its result (index.html, doSend) and the ledger row that  *)
(* outlives it (lijSendFateTick, lijAskLspOutcome, lijLedgerReconcile).    *)
(*                                                                         *)
(* Every try is a payment of LDK with an id of its own and the same hash:  *)
(* one revealed preimage claims each of its HTLCs.  An HTLC cannot be      *)
(* recalled; abandoning its payment only ends LDK's own retries.  All      *)
(* waits are bounded, every await lets the other parts run, and the page   *)
(* can be closed at any step.  Nothing keeps a second send of the invoice  *)
(* from starting while the first runs (the Review button comes back with   *)
(* the next input, a held send gives the screen back, a wallet connection  *)
(* calls doSend itself): calls are numbered, and several run at once.      *)
(***************************************************************************)
EXTENDS Naturals, FiniteSets

CONSTANTS
  Tries,        \* max_retries: tries of one call (the page gives 5)
  MaxPays,      \* bound: payments given to LDK
  MaxCalls,     \* bound: sends of this invoice (doSend)
  MaxAtOnce,    \* bound: of these, running at once
  MaxRestarts   \* bound: the page closed

ASSUME SendAssumption ==
  /\ {Tries, MaxPays, MaxCalls, MaxAtOnce, MaxRestarts} \subseteq Nat
  /\ Tries > 0

VARIABLES
  pay,       \* LDK's payments for this hash: state, HTLC, the call that made it
  used,      \* how many there are
  unsaved,   \* payments abandoned since the channel manager was last saved
  events,    \* LDK's events about each, not handled yet
  outcomes,  \* payment_outcomes: what the handler left for the loop
  loop,      \* each call's send_loop: where it is, try, payment, hold, refusals
  call,      \* calls so far
  row,       \* the status of the newest ledger row of the invoice
  ask,       \* the call whose question "Try 5 more / Stop" is up, or 0
  verdict,   \* the provider's answer to lijAskLspOutcome, on its way
  restarts   \* what is left of the bound

ldk == <<pay, used, unsaved, events>>
page == <<row, ask>>
vars == <<ldk, outcomes, loop, call, page, verdict, restarts>>

Pays == 1..MaxPays
Calls == 1..MaxCalls
NoPay == [st |-> "gone", htlc |-> "none", call |-> 0]
Idle == [at |-> "idle", try |-> 0, pid |-> 0, hold |-> FALSE, refused |-> FALSE]

Init ==
  /\ pay = [p \in Pays |-> NoPay] /\ used = 0 /\ unsaved = {}
  /\ events = [p \in Pays |-> "none"] /\ outcomes = events
  /\ loop = [c \in Calls |-> Idle] /\ call = 0
  /\ row = "none" /\ ask = 0 /\ verdict = "none"
  /\ restarts = MaxRestarts

Out(p) == pay[p].htlc = "out"
InFlight == \E p \in Pays : Out(p)
Answers == {IF InFlight THEN "true" ELSE "false", "null"}  \* lijHtlcInFlight
Running == {c \in Calls : loop[c].at # "idle"}
Claimed == \E p \in Pays : pay[p].htlc = "claimed"

-----------------------------------------------------------------------------
(* LDK.                                                                    *)

(* abandon_payment: the HTLC stays out.                                    *)
Abandon(p) ==
  IF pay[p].st = "pending"
  THEN pay' = [pay EXCEPT ![p].st = "abandoned"] /\ unsaved' = unsaved \cup {p}
  ELSE UNCHANGED <<pay, unsaved>>

(* The recipient claims: claim_htlc.                                       *)
Claim(p) ==
  /\ Out(p)
  /\ pay' = [pay EXCEPT ![p].htlc = "claimed", ![p].st = "fulfilled"]
  /\ unsaved' = unsaved \ {p}
  /\ events' = [events EXCEPT ![p] = "sent"]
  /\ UNCHANGED <<used, outcomes, loop, call, page, verdict, restarts>>

(* The HTLC comes back: fail_htlc.  No retries are left (Attempts(0)), so  *)
(* that PaymentPathFailed and PaymentFailed come together, the latter with *)
(* the reason the payment was given up for; LDK drops the payment.         *)
FailBack(p, permanent) ==
  /\ Out(p)
  /\ pay' = [pay EXCEPT ![p] = NoPay]
  /\ unsaved' = unsaved \ {p}
  /\ events' = [events EXCEPT ![p] =
                  IF pay[p].st = "abandoned" \/ permanent THEN "final" ELSE "exhausted"]
  /\ UNCHANGED <<used, outcomes, loop, call, page, verdict, restarts>>

(* remove_stale_payments: a fulfilled payment is forgotten.                *)
Forget(p) ==
  /\ pay[p].st = "fulfilled" /\ events[p] = "none"
  /\ pay' = [pay EXCEPT ![p].st = "gone"]
  /\ UNCHANGED <<used, unsaved, events, outcomes, loop, call, page, verdict, restarts>>

(* The event handler.  PaymentFailed leaves the PathFailed before it when  *)
(* its reason is RetriesExhausted.  An entry no loop waits for is never    *)
(* read, and left out.                                                     *)
Outcome(p) ==
  IF events[p] = "none" THEN outcomes[p]
  ELSE IF \A c \in Calls : loop[c].pid # p THEN "none"
  ELSE [sent |-> "sent", exhausted |-> "path", final |-> "terminal"][events[p]]

HandleEvents ==
  /\ \E p \in Pays : events[p] # "none"
  /\ outcomes' = [p \in Pays |-> Outcome(p)]
  /\ events' = [p \in Pays |-> "none"]
  /\ UNCHANGED <<pay, used, unsaved, loop, call, page, verdict, restarts>>

(* persist_channel_manager                                                 *)
Save ==
  /\ unsaved # {} /\ unsaved' = {}
  /\ UNCHANGED <<pay, used, events, outcomes, loop, call, page, verdict, restarts>>

-----------------------------------------------------------------------------
(* The end of a call.  The page asks whether the HTLC is still out; the    *)
(* engine cannot say while it is busy (null), which counts as no.          *)

(* A result that is not a success: _holdIfInFlight, then the question      *)
(* (_askMore) when the engine's can_continue allows it - it takes the      *)
(* place of one still up, and an invoice about to expire has none - else   *)
(* the row fails, as it does, unasked, when "Try more" throws.             *)
EndSend(c, mayAsk) ==
  /\ loop' = [loop EXCEPT ![c] = Idle]
  /\ \E inFlight \in Answers :
       \/ inFlight = "true" /\ row' = "held" /\ UNCHANGED ask
       \/ inFlight # "true" /\ mayAsk /\ ask' = c /\ UNCHANGED row
       \/ inFlight # "true" /\ row' = "failed" /\ UNCHANGED ask

Succeed(c) == loop' = [loop EXCEPT ![c] = Idle] /\ row' = "completed" /\ UNCHANGED ask

Again(c, refused) ==
  /\ loop' = [loop EXCEPT ![c] = [loop[c] EXCEPT !.at = "route", !.try = @ + 1,
                                                 !.pid = 0, !.refused = refused]]
  /\ UNCHANGED page

(* Mutant: the tries are not counted.                                      *)
NextTryAny(c, refused) == Again(c, refused)

(* The next try, or the end after the last one.                            *)
NextTry(c, refused) ==
  IF loop[c].try >= Tries THEN EndSend(c, refused) ELSE Again(c, refused)

-----------------------------------------------------------------------------
(* send_loop.                                                              *)

(* Mutant: no look for an earlier attempt (until v215).                    *)
BeginUnprobed(c, refused) ==
  /\ Cardinality(Running) < MaxAtOnce
  /\ loop' = [loop EXCEPT ![c] =
                [Idle EXCEPT !.try = 1, !.refused = refused, !.at = "route"]]

(* The in-flight probe, pending_payment_for_bolt11: a payment that LDK     *)
(* lists as Pending is waited for, and nothing is sent.                    *)
Begin(c, refused) ==
  /\ Cardinality(Running) < MaxAtOnce
  /\ loop' = [loop EXCEPT ![c] =
                [Idle EXCEPT !.try = 1, !.refused = refused, !.at =
                   IF \E p \in Pays : pay[p].st = "pending" THEN "inherit" ELSE "route"]]

(* doSend: a row of its own and a fresh memory of refusals; a question     *)
(* still up ends its send, and an answer on its way is about the row       *)
(* before.                                                                 *)
DoSend ==
  /\ call < MaxCalls /\ call' = call + 1 /\ Begin(call + 1, FALSE)
  /\ row' = "pending" /\ ask' = 0 /\ verdict' = "none"
  /\ UNCHANGED <<ldk, outcomes, restarts>>

(* The question's answers: "Try 5 more" (continue_payment), which goes on  *)
(* from the refusals remembered for the invoice - another call's, if one   *)
(* runs - and "Stop".                                                      *)
TryMore ==
  /\ ask # 0 /\ ask' = 0
  /\ \E refused \in BOOLEAN : (refused \/ Running # {}) /\ Begin(ask, refused)
  /\ UNCHANGED <<ldk, outcomes, call, row, verdict, restarts>>

Stop ==
  /\ ask # 0 /\ ask' = 0 /\ row' = "failed"
  /\ UNCHANGED <<ldk, outcomes, loop, call, verdict, restarts>>

(* The wait for the earlier attempt: it resolved, or ten minutes passed;   *)
(* either way the result is a failure.                                     *)
Inherited(c) ==
  /\ loop[c].at = "inherit"
  /\ EndSend(c, FALSE)
  /\ UNCHANGED <<ldk, outcomes, call, verdict, restarts>>

(* A try that gave LDK nothing: the provider did not answer, or LDK        *)
(* rejected the route at once; or the send ends here: the request cannot   *)
(* be made, the call throws, the user stopped it.                          *)
NoTry(c) ==
  /\ loop[c].at = "route"
  /\ \/ NextTry(c, loop[c].refused)
     \/ EndSend(c, FALSE)
  /\ UNCHANGED <<ldk, outcomes, call, verdict, restarts>>

(* A try: the HTLC leaves.  The provider may say that it will hold it for  *)
(* a recipient who is away.                                                *)
Dispatch(c, hold) ==
  /\ loop[c].at = "route" /\ used < MaxPays
  /\ used' = used + 1
  /\ pay' = [pay EXCEPT ![used + 1] = [st |-> "pending", htlc |-> "out", call |-> c]]
  /\ loop' = [loop EXCEPT ![c] = [@ EXCEPT !.at = "wait", !.pid = used + 1, !.hold = hold]]
  /\ row' = IF hold THEN "held" ELSE row
  /\ UNCHANGED <<unsaved, events, outcomes, call, ask, verdict, restarts>>

(* wait_for_outcome takes what it finds.                                   *)
Take(c) ==
  /\ outcomes[loop[c].pid] # "none"
  /\ outcomes' = [outcomes EXCEPT ![loop[c].pid] = "none"]

(* A path failure, the only one there is to retry, is never retried under  *)
(* a hold.                                                                 *)
WaitDone(c) ==
  /\ loop[c].at = "wait" /\ Take(c)
  /\ LET found == outcomes[loop[c].pid]
     IN  \/ found = "sent" /\ Succeed(c)
         \/ found = "path" /\ ~loop[c].hold /\ NextTry(c, TRUE)
         \/ found = "path" /\ loop[c].hold /\ EndSend(c, FALSE)
         \/ found = "terminal" /\ EndSend(c, FALSE)
  /\ UNCHANGED <<ldk, call, verdict, restarts>>

(* Mutant: silence is a failure: abandon and try again (until 6a).         *)
WaitTimeoutRetry(c) ==
  /\ loop[c].at = "wait" /\ outcomes[loop[c].pid] = "none"
  /\ Abandon(loop[c].pid)
  /\ IF loop[c].hold THEN EndSend(c, FALSE) ELSE NextTry(c, loop[c].refused)
  /\ UNCHANGED <<used, events, outcomes, call, verdict, restarts>>

(* Nothing in 30 s, or within the hold: abandon; then wait for the verdict *)
(* unless it was a hold.  The row says held when the HTLC is seen out, and *)
(* of a payment to the provider itself in any case.                        *)
WaitTimeout(c) ==
  /\ loop[c].at = "wait" /\ outcomes[loop[c].pid] = "none"
  /\ Abandon(loop[c].pid)
  /\ \/ loop[c].hold /\ EndSend(c, FALSE)
     \/ /\ ~loop[c].hold /\ loop' = [loop EXCEPT ![c] = [@ EXCEPT !.at = "release"]]
        /\ \E inFlight \in Answers :
             row' = "held" \/ (inFlight # "true" /\ UNCHANGED row)
        /\ UNCHANGED ask
  /\ UNCHANGED <<used, events, outcomes, call, verdict, restarts>>

(* The verdict: settled late, or the HTLC is back and the next try may go. *)
ReleaseDone(c) ==
  /\ loop[c].at = "release" /\ Take(c)
  /\ IF outcomes[loop[c].pid] = "sent" THEN Succeed(c) ELSE NextTry(c, loop[c].refused)
  /\ UNCHANGED <<ldk, call, verdict, restarts>>

(* Mutant: this result carries the memory as the others do.                *)
ReleaseTimeoutAsks(c) ==
  /\ loop[c].at = "release" /\ outcomes[loop[c].pid] = "none"
  /\ EndSend(c, loop[c].refused)
  /\ UNCHANGED <<ldk, outcomes, call, verdict, restarts>>

(* Ten minutes more and no verdict: no other try, and no question.         *)
ReleaseTimeout(c) ==
  /\ loop[c].at = "release" /\ outcomes[loop[c].pid] = "none"
  /\ EndSend(c, FALSE)
  /\ UNCHANGED <<ldk, outcomes, call, verdict, restarts>>

-----------------------------------------------------------------------------
(* The row's fate.                                                         *)

Open == row \in {"pending", "held"}

(* What list_recent_payments may say of the hash: one state of those it    *)
(* lists, whichever comes last.                                            *)
Words ==
  LET listed == {pay[p].st : p \in Pays} \ {"gone"}
  IN  IF listed = {} THEN {"absent"} ELSE listed

(* Mutant: a payment LDK does not list says nothing.                       *)
FateTickListed ==
  /\ Open
  /\ \/ "fulfilled" \in Words /\ row' = "completed" /\ UNCHANGED verdict
     \/ "abandoned" \in Words /\ "true" \in Answers /\ row' = "held" /\ UNCHANGED verdict
  /\ UNCHANGED <<ldk, outcomes, loop, call, ask, restarts>>

(* lijSendFateTick: LDK's word (an abandoned payment's HTLC is out), and   *)
(* where it has none the provider is asked.  What the provider answers was *)
(* true when it answered.                                                  *)
FateTick ==
  /\ Open
  /\ \/ "fulfilled" \in Words /\ row' = "completed" /\ UNCHANGED verdict
     \/ "abandoned" \in Words /\ "true" \in Answers /\ row' = "held" /\ UNCHANGED verdict
     \/ /\ Words = {"absent"}
        /\ verdict = "none" /\ UNCHANGED row
        /\ \/ Claimed /\ verdict' = "settled"
           \/ ~Claimed /\ verdict' = "failed"
           \/ verdict' = "unknown"
  /\ UNCHANGED <<ldk, outcomes, loop, call, ask, restarts>>

(* The answer is applied to the row as it was when the question was asked. *)
(* A try that left since may have the provider say "pending": the row      *)
(* stays, and is asked about again.                                        *)
LspAnswers ==
  /\ verdict # "none" /\ verdict' = "none"
  /\ \/ verdict = "settled" /\ row' = "completed"
     \/ verdict = "failed" /\ row' = "failed"
     \/ verdict = "unknown" /\ \E inFlight \in Answers :
                               row' = IF inFlight = "true" THEN row ELSE "failed"
     \/ InFlight /\ UNCHANGED row
  /\ UNCHANGED <<ldk, outcomes, loop, call, ask, restarts>>

(* lijLedgerReconcile, after a launch: a failed row too moves on LDK's     *)
(* word that the payment was fulfilled; a row that is hours old is held    *)
(* while its HTLC is out.                                                  *)
Reconcile ==
  /\ \E w \in Words :
       row' \in IF w = "fulfilled" THEN {"completed"}
               ELSE IF Open /\ w = "abandoned" THEN {"held"}
               ELSE IF Open /\ w = "pending" THEN {row, "held"}
               ELSE {row}
  /\ UNCHANGED <<ldk, outcomes, loop, call, ask, verdict, restarts>>

(* The page is closed and opened again: the loop, what it waited for and   *)
(* every question are gone; LDK is as it was saved, and a payment whose    *)
(* HTLC is out comes back as pending if it was saved so.                   *)
Restart ==
  /\ restarts > 0 /\ restarts' = restarts - 1
  /\ pay' = [p \in Pays |-> IF p \in unsaved THEN [pay[p] EXCEPT !.st = "pending"] ELSE pay[p]]
  /\ unsaved' = {}
  /\ outcomes' = [p \in Pays |-> "none"]
  /\ loop' = [c \in Calls |-> Idle] /\ ask' = 0 /\ verdict' = "none"
  /\ UNCHANGED <<used, events, call, row>>

LoopStep(c) ==
  \/ Inherited(c) \/ NoTry(c) \/ (\E hold \in BOOLEAN : Dispatch(c, hold))
  \/ WaitDone(c) \/ WaitTimeout(c) \/ ReleaseDone(c) \/ ReleaseTimeout(c)
Resolve(p) == Claim(p) \/ \E permanent \in BOOLEAN : FailBack(p, permanent)

Next ==
  \/ DoSend \/ TryMore \/ Stop
  \/ \E c \in Calls : LoopStep(c)
  \/ \E p \in Pays : Resolve(p) \/ Forget(p)
  \/ HandleEvents \/ Save \/ FateTick \/ LspAnswers \/ Reconcile \/ Restart

Spec == Init /\ [][Next]_vars

-----------------------------------------------------------------------------
Payment == [st : {"pending", "abandoned", "fulfilled", "gone"},
            htlc : {"none", "out", "claimed"}, call : 0..MaxCalls]
Loops == [at : {"idle", "inherit", "route", "wait", "release"},
          try : 0..Tries, pid : 0..MaxPays, hold : BOOLEAN, refused : BOOLEAN]

(* The types; and a loop that waits, waits for a payment that has been     *)
(* made (send_loop).                                                       *)
TypeOK ==
  /\ pay \in [Pays -> Payment] /\ used \in 0..MaxPays /\ unsaved \subseteq Pays
  /\ events \in [Pays -> {"none", "sent", "exhausted", "final"}]
  /\ outcomes \in [Pays -> {"none", "sent", "path", "terminal"}]
  /\ loop \in [Calls -> Loops]
  /\ \A c \in Calls : loop[c].at \in {"wait", "release"} => loop[c].pid \in 1..used
  /\ call \in 0..MaxCalls
  /\ row \in {"none", "pending", "held", "completed", "failed"}
  /\ ask \in 0..call
  /\ verdict \in {"none", "settled", "failed", "unknown"}
  /\ restarts \in 0..MaxRestarts

(* One send, its "Try more" included, never has two HTLCs out: send_loop   *)
(* retries only when the try before has come back, whatever was silent,    *)
(* late or abandoned (6a), and whatever other sends do.                    *)
OneTryAtATime ==
  \A p, q \in Pays : Out(p) /\ Out(q) /\ pay[p].call = pay[q].call => p = q

(* "Your sats have not left": while the question of a send is up, no HTLC  *)
(* of that send is out, even if the engine was too busy to be asked.       *)
AskedSendIsBack == ask # 0 => \A p \in Pays : Out(p) => pay[p].call # ask

(* An HTLC leaves past a payment that LDK lists as pending only while the  *)
(* call that made that payment still waits for it: what a closed page or   *)
(* an ended call left behind is found by the probe, though the route is    *)
(* asked for, and other calls run, between the probe and the dispatch.     *)
OvertakesOnlyRunning ==
  [][used' > used =>
       \A p \in Pays : pay[p].st = "pending" =>
         \E c \in Calls : loop[c].at = "wait" /\ loop[c].pid = p]_vars

(* "A new dispatch would create a same-hash duplicate": at most one HTLC   *)
(* of the invoice is out (node.rs, pending_payment_for_bolt11).            *)
OneInFlight == \A p, q \in Pays : Out(p) /\ Out(q) => p = q
=============================================================================
