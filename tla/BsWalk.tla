------------------------------- MODULE BsWalk -------------------------------
(***************************************************************************)
(* The solver alone: one walk of one body, by a caller that keeps asking   *)
(* until there is nothing left, as bs_rule_apply and bs_query_all do when  *)
(* every answer satisfies its expressions (130_engine.inc, 145_authorize). *)
(***************************************************************************)
EXTENDS BsSolver

CONSTANTS Rules,      \* the bodies walked,
          FactBases,  \* the facts they are walked over,
          Budgets,    \* the steps a walk may spend,
          MaxArity    \* and the most terms a body predicate has

ASSUME WalkAssumption == /\ Rules \subseteq Rule
                         /\ FactBases \subseteq Seq(Fact)
                         /\ Budgets \subseteq Nat
                         /\ MaxArity \in Nat

NarrowBody(r) == \A i \in DOMAIN r.body : Len(r.body[i].terms) <= MaxArity

ASSUME ArityAssumption == \A r \in Rules : NarrowBody(r)

WalkInit ==
  /\ rule \in Rules
  /\ Len(rule.body) <= MaxBody
  /\ facts \in FactBases
  /\ steps \in Budgets
  /\ base = Len(facts)
  /\ level = 0
  /\ frames = [l \in 0 .. MaxBody-1 |->
                 IF l = 0 THEN [fact |-> 1, bind_mark |-> 0, origin |-> RuleOrigin]
                          ELSE NoFrame]
  /\ binds = <<>>
  /\ mark = 0
  /\ arg = 1
  /\ answers = <<>>
  /\ pc = "walk"

Resume == pc = "found" /\ AskAgain

WalkOver == pc \in {"done", "limit"} /\ UNCHANGED walkVars

WalkNext == SolverStep \/ Resume \/ WalkOver

\* Nothing else runs while bs_solver_next does: the C code takes its next
\* step as long as there is one.
WalkSpec == /\ WalkInit /\ [][WalkNext]_walkVars
            /\ WF_walkVars(SolverStep \/ Resume)

-----------------------------------------------------------------------------

\* Every variable of the walk has its type.
WalkTypeOK == SolverTypeOK /\ pc \in WalkPlaces

\* When the solver stops on an answer, its frames name facts the rule trusts
\* whole, its bindings turn the body into exactly those facts and bind every
\* variable of it, and the origin it reports is the rule's block and all
\* the blocks those facts came from (130_engine.inc:9-15).
AnswerHolds == pc = "found" => AnswerSound

\* Turns that can follow for free from a place of the walk, at level l with
\* n arguments still to look at.
FreeTurns(place, l, n) == CASE place = "walk"  -> 2 * l + 2
                            [] place = "unify" -> 2 * l + 5 + n
                            [] place = "found" -> 2 * l + 1
                            [] OTHER           -> 0

\* All the work the walk can still do.  A step of the budget pays for one
\* candidate: its arguments, the level it opens and the way back.
WorkLeft == (MaxArity + 4) * steps
              + FreeTurns(pc, level, Len(Goal.terms) + 1 - arg)

\* max_steps bounds the walk, not only the candidates it counts: every turn
\* of every loop uses up some of the work the budget left, even the turns
\* that charge nothing (20_api.inc, max_steps).
BudgetBoundsWalk == [][WorkLeft' < WorkLeft]_walkVars

\* Every walk ends.
WalkEnds == <>(pc \in {"done", "limit"})

\* Of a rule whose variables have slots, the answers are at every moment
\* exactly the matches the walk has passed, and none is missing when it is
\* done.
AnswersExact ==
  FewVariables(rule) => /\ pc \in {"walk", "unify"} => AnswersPassed(FALSE)
                        /\ pc = "found" => AnswersPassed(TRUE)
                        /\ pc = "done" => AnswersAll

\* What the walk knows at every moment: every level below the current one has
\* its fact and its bindings, marks nest, no variable is bound twice, no
\* binding outlives the choice that made it, and the answers are exact
\* (130_engine.inc, bs_unify and bs_solver_next).
WalkKnows == WalkInv /\ BindsSourced /\ AnswersExact

-----------------------------------------------------------------------------
(* The walk and what it promises.                                          *)

M == INSTANCE BsMatches WITH
       GivenRules <- {r \in Rules : Len(r.body) <= MaxBody},
       GivenFacts <- FactBases,
       given <- answers,
       status <- IF pc \in {"done", "limit"} THEN pc ELSE "open"

\* The walk yields every match of the body once, in the order of nested
\* loops, and says it is done only when none is left (130_engine.inc:4,
\* "every combination of facts it can match").
YieldsEveryMatch == M!Spec
=============================================================================
