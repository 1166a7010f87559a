----------------------------- MODULE MCSendLoop -----------------------------
(* SendLoop for TLC: the page is open, every wait ends, and every HTLC is  *)
(* settled or comes back.                                                  *)
EXTENDS SendLoop

FairSpec ==
  /\ Spec
  /\ \A c \in Calls : WF_vars(LoopStep(c))
  /\ WF_vars(HandleEvents)
  /\ WF_vars(\E p \in Pays : Resolve(p))
  /\ WF_vars(FateTick) /\ WF_vars(LspAnswers)

(* A row that is open is closed in the end - by the loop, by LDK's word or *)
(* by the provider's - or its question is up.                              *)
RowSettles == Open ~> ~Open \/ ask # 0
=============================================================================
