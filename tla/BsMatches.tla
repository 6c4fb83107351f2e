----------------------------- MODULE BsMatches -----------------------------
(***************************************************************************)
(* What the solver promises its callers (the comment above struct          *)
(* bs_solver in 130_engine.inc: "which combinations of facts match this    *)
(* body ... One machine yields the answers"): every match of the body      *)
(* exactly once, in the order nested loops would visit them, and the end   *)
(* only when there is none left -- or that it gave up.                     *)
(***************************************************************************)
EXTENDS BsDatalog

CONSTANTS GivenRules, GivenFacts

VARIABLES rule, facts,
          given,    \* the answers so far
          status    \* "open", "done" or "limit"

vars == <<rule, facts, given, status>>

Left == {t \in Matches(rule, facts) : \A k \in DOMAIN given : given[k] # t}

Init == /\ rule \in GivenRules
        /\ facts \in GivenFacts
        /\ given = <<>>
        /\ status = "open"

\* The next answer is the earliest of those left.
Yield == /\ status = "open"
         /\ \E t \in Left : /\ \A u \in Left \ {t} : Before(t, u)
                            /\ given' = Append(given, t)
         /\ UNCHANGED <<rule, facts, status>>

Finish == /\ status = "open"
          /\ Left = {}
          /\ status' = "done"
          /\ UNCHANGED <<rule, facts, given>>

GiveUp == /\ status = "open"
          /\ status' = "limit"
          /\ UNCHANGED <<rule, facts, given>>

Next == Yield \/ Finish \/ GiveUp

\* That an end comes is the walk's own promise (WalkEnds in BsWalk): any
\* state but an end has a step to take.
Spec == Init /\ [][Next]_vars
=============================================================================
