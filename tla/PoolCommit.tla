----------------------------- MODULE PoolCommit -----------------------------
(***************************************************************************)
(* What a pool promises its honest members, without messages, phases or    *)
(* records: each member binds itself to one view of the pool at most (its  *)
(* partial signatures on the exits of that view), and puts its coin in     *)
(* only when every honest member of that view is bound to it; a member     *)
(* that has quit puts nothing in.                                          *)
(*                                                                         *)
(* A view v is a record; the members of its pool are DOMAIN v.regs.        *)
(***************************************************************************)
CONSTANT Honest

VARIABLES
  bound,   \* bound[p]: the view p signed the exits of, {} or one view
  funded,  \* funded[p]: the view p put its coin into, {} or one view
  quit     \* the members that told the pool they stopped

cvars == <<bound, funded, quit>>

CInit ==
  /\ bound = [p \in Honest |-> {}]
  /\ funded = [p \in Honest |-> {}]
  /\ quit = {}

Bind(p) ==
  /\ \E v \in bound'[p] :
       /\ bound[p] = {} /\ p \notin quit
       /\ bound' = [bound EXCEPT ![p] = {v}]
  /\ UNCHANGED <<funded, quit>>

Fund(p) ==
  /\ \E v \in funded'[p] :
       /\ funded[p] = {} /\ p \notin quit
       /\ \A q \in Honest \cap DOMAIN v.regs : bound[q] = {v}
       /\ p \in DOMAIN v.regs
       /\ funded' = [funded EXCEPT ![p] = {v}]
  /\ UNCHANGED <<bound, quit>>

Quit(p) ==
  /\ p \in quit' \ quit /\ funded[p] = {}
  /\ quit' = quit \cup {p}
  /\ UNCHANGED <<bound, funded>>

CNext == \E p \in Honest : Bind(p) \/ Fund(p) \/ Quit(p)

CSpec == CInit /\ [][CNext]_cvars
=============================================================================
