----------------------------- MODULE BsDecision -----------------------------
(***************************************************************************)
(* What an authorization promises (20_api.inc, bs_authorize): the verdict  *)
(* is what the world means, or there is an error and no verdict.           *)
(***************************************************************************)
EXTENDS BsMeaning

VARIABLES world,    \* what is asked about
          verdict,  \* what the host reads
          status    \* "idle", "asked", "decided" or "failed"

vars == <<world, verdict, status>>

NoVerdict == [kind |-> "none", policy |-> 0, failed |-> <<>>]

Init == verdict = NoVerdict /\ status = "idle"

\* A host may ask again.
Ask == /\ status # "asked"
       /\ status' = "asked" /\ verdict' = NoVerdict
       /\ UNCHANGED world

Decide == /\ status = "asked"
          /\ status' = "decided" /\ verdict' = Decision(world)
          /\ UNCHANGED world

Fail == /\ status = "asked"
        /\ status' = "failed"
        /\ UNCHANGED <<world, verdict>>

Next == Ask \/ Decide \/ Fail

\* Every question is answered.
Spec == Init /\ [][Next]_vars /\ WF_vars(Fail \/ Decide)
=============================================================================
