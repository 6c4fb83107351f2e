----------------------------- MODULE BsMeaning -----------------------------
(***************************************************************************)
(* What a world means, computed without the engine: the least set of facts *)
(* that holds the loaded ones and every consequence of the rules           *)
(* (BsDatalog, IsMeaning), and what the checks and the policies ask of     *)
(* that set.  The runs compare the engine and the authorization with it.   *)
(***************************************************************************)
EXTENDS BsDatalog, SequencesExt

RECURSIVE Closure(_, _, _)
Closure(w, K, T) ==
  LET new == Follows(w, K, T)
  IN  IF new \subseteq K THEN K ELSE Closure(w, K \cup new, T)

Meaning(w, T) == Closure(w, StatedBy(w, T), T)

-----------------------------------------------------------------------------
(* The decision (145_authorize.inc, 20_api.inc: bs_authorize).             *)

\* The positions of the checks that fail, in their order.
Unmet(w, K) == SetToSortSeq({i \in DOMAIN w.checks : ~CheckMet(w, w.checks[i], Indexed(K))}, <)

Matched(w, K) == {i \in DOMAIN w.policies : PolicyMatched(w, w.policies[i], Indexed(K))}

\* The first policy that matches decides; an allow only allows when no check
\* failed.
Decision(w) ==
  LET K == Meaning(w, Everyone)
      m == Matched(w, K)
      u == Unmet(w, K)
  IN  IF m = {} THEN [kind |-> "none", policy |-> 0, failed |-> u]
      ELSE LET i == CHOOSE j \in m : \A k \in m : j <= k
           IN  [kind |-> IF w.policies[i].kind = "allow" /\ u = <<>>
                         THEN "allow" ELSE "deny",
                policy |-> i, failed |-> u]

=============================================================================
