------------------------- MODULE BsAuthorizeProofs -------------------------
(***************************************************************************)
(* Runs of the rules and the authorizations that stand on them, proved for *)
(* every world, every pool and every budget.                               *)
(*                                                                         *)
(* What a run derives follows from what it knew, is new, and carries the   *)
(* origin of exactly what it followed from; so a block adds nothing to     *)
(* what others state.  The argument rests on the walk's invariant: at an   *)
(* answer the solver's bindings explain the chosen facts                   *)
(* (FullLevelsSound), the expressions that let the answer pass hold under  *)
(* the same bindings, so the head's instance is a consequence; the scan    *)
(* shows it is not yet known.                                              *)
(*                                                                         *)
(* A verdict is the one the world calls for, and a report says where its   *)
(* check is.  A run that ends OK leaves facts to which the rules have      *)
(* nothing to add, and a query does not touch them.  Its walk misses no    *)
(* match, and the bindings of an answer are the only ones that explain its *)
(* facts; so what the expressions say of an answer they say of every       *)
(* substitution behind it, and a query that runs out of answers has been   *)
(* asked of all.                                                           *)
(***************************************************************************)
EXTENDS BsAuthorize, BsSolverProofs, WellFoundedInduction

USE DatalogAssumption, SolverAssumption, EngineAssumption

-----------------------------------------------------------------------------
(* The walk among the steps of a run.                                      *)

\* What a run does between two turns of the walk leaves its invariant.
LEMMA WalkKept ==
  ASSUME SolverTypeOK, WalkInv, UNCHANGED solverVars,
         Len(facts') \in Nat, Len(facts) <= Len(facts'),
         \A k \in 1 .. Len(facts) : facts'[k] = facts[k],
         pc' \notin {"walk", "unify", "found"}
  PROVE  WalkInv'
<1>1. UNCHANGED <<rule, base, level, frames, binds, mark, arg, answers>>
  BY DEF solverVars
<1>2. base <= Len(facts) /\ base \in Nat /\ Len(facts) \in Nat /\ level \in Nat
  BY LenProperties DEF WalkInv, WithinBounds, SolverTypeOK
<1>3. \A k \in 1 .. base : facts'[k] = facts[k]
  BY <1>2
<1>4. ASSUME NEW m \in 0 .. level - 1 PROVE LevelFits(m)'
  <2>1. LevelFits(m) /\ m \in Nat
    BY <1>2 DEF WalkInv
  <2>2. BindsAfter(m)' = BindsAfter(m)
    BY <1>1 DEF BindsAfter
  <2>3. \A k \in 0 .. m : frames[k].fact \in 1 .. base
    BY <1>2, ChosenBelow
  <2>4. QED
    BY <1>1, <1>3, <2>1, <2>2, <2>3, LevelKept
<1>5. WithinBounds'
  <2>1. base <= Len(facts')
    BY <1>2
  <2>2. QED
    BY <1>1, <2>1 DEF WalkInv, WithinBounds
<1>6. QED
  BY <1>1, <1>4, <1>5 DEF WalkInv, MarksNest, BindsDistinct, UnifyFits

\* A walk begins with its invariant, whatever the last one left.
LEMMA WalkBegun ==
  ASSUME SolverTypeOK, NEW r \in Rule, Len(r.body) <= MaxBody, BeginWalk(r),
         UNCHANGED <<facts, steps>>
  PROVE  SolverTypeOK' /\ WalkInv' /\ pc' = "walk" /\ rule' = r
<1>1. /\ pc' = "walk" /\ rule' = r /\ base' = Len(facts) /\ level' = 0
      /\ binds' = <<>> /\ mark' = 0 /\ arg' = 1 /\ answers' = <<>>
      /\ frames' = [frames EXCEPT ![0] =
                      [fact |-> 1, bind_mark |-> 0, origin |-> {r.block}]]
  <2>1. Len(r.body) \in Nat
    BY LenProperties DEF Rule
  <2>2. ~(Len(r.body) > MaxBody)
    BY <2>1
  <2>3. QED
    BY <2>2 DEF BeginWalk
<1>2. /\ [fact |-> 1, bind_mark |-> 0, origin |-> {r.block}] \in Frame
      /\ Len(facts) \in Nat /\ Len(r.body) \in Nat
  BY LenProperties DEF Frame, Origin, Rule, SolverTypeOK
<1>3. /\ frames' \in [0 .. MaxBody-1 -> Frame]
      /\ frames'[0].fact = 1 /\ frames'[0].bind_mark = 0
  BY <1>1, <1>2 DEF SolverTypeOK
<1>4. binds' \in Seq(Binding) /\ Len(binds') = 0 /\ answers' \in Seq(Seq(Nat))
  BY <1>1, EmptySeq
<1>5. SolverTypeOK'
  BY <1>1, <1>2, <1>3, <1>4 DEF SolverTypeOK
<1>6. WithinBounds'
  <2>1. /\ Len(rule'.body) <= MaxBody /\ level' <= Len(rule'.body)
        /\ base' <= Len(facts') /\ Len(binds') <= MaxBindings
    BY <1>1, <1>2, <1>4
  <2>2. frames'[level'].fact \in 1 .. base' + 1
    BY <1>1, <1>2, <1>3
  <2>3. QED
    BY <2>1, <2>2 DEF WithinBounds
<1>7. MarksNest'
  <2>1. \A l \in 0 .. level' : frames'[l].bind_mark = 0
    BY <1>1, <1>3
  <2>2. QED
    BY <1>1, <1>3, <1>4, <2>1 DEF MarksNest
<1>8. BindsDistinct'
  BY <1>4, LenProperties DEF BindsDistinct
<1>9. QED
  BY <1>1, <1>5, <1>6, <1>7, <1>8 DEF WalkInv, UnifyFits

-----------------------------------------------------------------------------
(* What an answer means.                                                   *)

\* A bound variable's value is a term.
LEMMA ValueTyped ==
  ASSUME SolverTypeOK, WalkInv, NEW v \in Var, IsBound(v, binds)
  PROVE  ValueOf(v, binds) \in Term
<1>1. PICK k \in DOMAIN binds : binds[k].sym = v
  BY DEF IsBound
<1>2. \A i, j \in DOMAIN binds : binds[i].sym = binds[j].sym => i = j
  BY DEF WalkInv, BindsDistinct
<1>3. ValueOf(binds[k].sym, binds) = binds[k].value
  BY <1>1, <1>2, ValueOfBinding DEF SolverTypeOK
<1>4. binds[k] \in Binding
  BY <1>1, LenProperties, ElementOfSeq DEF SolverTypeOK
<1>5. QED
  BY <1>1, <1>3, <1>4 DEF Binding

\* The bindings are a substitution, and a term that is not missing one has
\* its value under it.
LEMMA SubstitutionTyped ==
  ASSUME SolverTypeOK, WalkInv
  PROVE  /\ Substitution \in [Var -> Term]
         /\ \A t \in Term : ~Missing(t) => /\ Resolved(t) \in Term
                                          /\ Resolved(t) = Under(t, Substitution)
<1>1. ASSUME NEW v \in Var PROVE Substitution[v] \in Term
  <2>1. CASE IsBound(v, binds)
    BY <2>1, ValueTyped DEF Substitution
  <2>2. CASE ~IsBound(v, binds)
    BY <2>2 DEF Substitution, Term
  <2>3. QED
    BY <2>1, <2>2
<1>2. Substitution \in [Var -> Term]
  BY <1>1 DEF Substitution
<1>3. ASSUME NEW t \in Term, ~Missing(t)
      PROVE  Resolved(t) \in Term /\ Resolved(t) = Under(t, Substitution)
  <2>1. CASE t \in Var
    <3>1. IsBound(t, binds)
      BY <1>3, <2>1 DEF Missing
    <3>2. QED
      BY <2>1, <3>1, ValueTyped DEF Resolved, Under, Substitution
  <2>2. CASE t \notin Var
    BY <2>2 DEF Resolved, Under
  <2>3. QED
    BY <2>1, <2>2
<1>4. QED
  BY <1>2, <1>3

\* An expression that passes holds under the answer's bindings.
LEMMA PassingHolds ==
  ASSUME SolverTypeOK, WalkInv, NEW e \in Test, ~Breaks(e), Passes(e)
  PROVE  Holds(e, Substitution)
<1>1. /\ e.left \in Term /\ e.right \in Term
      /\ e.op \in {"equal", "unequal", "overflow"}
  BY DEF Test
<1>2. ~Missing(e.left) /\ ~Missing(e.right) /\ e.op # "overflow"
  BY DEF Breaks, Evaluable, Clashes
<1>3. /\ Resolved(e.left) = Under(e.left, Substitution)
      /\ Resolved(e.right) = Under(e.right, Substitution)
  BY <1>1, <1>2, SubstitutionTyped
<1>4. QED
  BY <1>1, <1>2, <1>3 DEF Passes, Holds

\* The head's instance at an answer is a fact.
LEMMA InstanceTyped ==
  ASSUME SolverTypeOK, WalkInv, level = Len(rule.body), ~Hole
  PROVE  /\ Instance \in Fact
         /\ Len(Instance.terms) = Len(rule.head.terms)
         /\ Instance.terms = Ground(rule.head.terms, Substitution)
<1>1. rule.head.terms \in Seq(Term) /\ rule.head.name \in Name
  BY DEF SolverTypeOK, Rule, Predicate
<1>2. PICK n \in Nat : n = Len(rule.head.terms) /\ DOMAIN rule.head.terms = 1 .. n
  BY <1>1, LenProperties
<1>3. ASSUME NEW i \in DOMAIN rule.head.terms
      PROVE  /\ Resolved(rule.head.terms[i]) \in Term
             /\ Resolved(rule.head.terms[i]) = Under(rule.head.terms[i], Substitution)
  <2>1. rule.head.terms[i] \in Term
    BY <1>1, <1>3, ElementOfSeq, LenProperties
  <2>2. ~Missing(rule.head.terms[i])
    BY <1>3 DEF Hole
  <2>3. QED
    BY <2>1, <2>2, SubstitutionTyped
<1>4. /\ Instance.terms \in Seq(Term)
      /\ Len(Instance.terms) = n
  <2>1. Instance.terms = [i \in 1 .. n |-> Resolved(rule.head.terms[i])]
    BY <1>2 DEF Instance
  <2>2. QED
    BY <1>2, <1>3, <2>1, IsASeq
<1>5. SolverOrigin \in Origin
  <2>1. rule.block \in 0 .. MaxBlocks /\ rule.body \in Seq(Predicate)
    BY DEF SolverTypeOK, Rule
  <2>2. CASE Len(rule.body) = 0
    BY <2>1, <2>2 DEF SolverOrigin, RuleOrigin, Origin
  <2>3. CASE Len(rule.body) # 0
    <3>1. Len(rule.body) - 1 \in 0 .. MaxBody-1
      BY <2>1, <2>3, LenProperties DEF WalkInv, WithinBounds, SolverTypeOK
    <3>2. frames[Len(rule.body) - 1] \in Frame
      BY <3>1 DEF SolverTypeOK
    <3>3. QED
      BY <2>3, <3>2 DEF SolverOrigin, Frame
  <2>4. QED
    BY <2>2, <2>3
<1>6. Instance.terms = Ground(rule.head.terms, Substitution)
  BY <1>3 DEF Instance, Ground
<1>7. QED
  BY <1>1, <1>2, <1>4, <1>5, <1>6 DEF Instance, Fact

\* It is what the rule concludes from the facts, when the expressions hold.
LEMMA InstanceConcluded ==
  ASSUME SolverTypeOK, WalkInv, level = Len(rule.body), ~Hole,
         \A k \in DOMAIN rule.expr : Holds(rule.expr[k], Substitution)
  PROVE  Instance \in Consequences(rule, facts)
<1>1. /\ Explains(rule, facts, Choice, Substitution)
      /\ SolverOrigin = OriginOf(rule, facts, Choice)
  BY FullLevelsSound DEF AnswerSound
<1>2. Choice \in Tuples(rule, facts)
  <2>1. /\ DOMAIN rule.body = 1 .. level /\ DOMAIN facts = 1 .. Len(facts)
        /\ level \in Nat /\ base <= Len(facts) /\ base \in Nat /\ Len(facts) \in Nat
    BY LenProperties DEF SolverTypeOK, Rule, WalkInv, WithinBounds
  <2>2. ASSUME NEW i \in DOMAIN rule.body PROVE frames[i - 1].fact \in DOMAIN facts
    <3>1. i - 1 \in 0 .. level - 1
      BY <2>1
    <3>2. frames[i - 1].fact \in 1 .. base
      BY <3>1, ChosenBelow
    <3>3. QED
      BY <2>1, <3>2
  <2>3. QED
    BY <2>2 DEF Choice, Tuples
<1>3. Instance = Concludes(rule, facts, Choice, Substitution)
  BY <1>1, InstanceTyped DEF Concludes, Instance
<1>4. QED
  BY <1>1, <1>2, <1>3, SubstitutionTyped DEF Consequences

-----------------------------------------------------------------------------
(* Types.                                                                  *)

LEMMA SolverUnmoved ==
  ASSUME SolverTypeOK, UNCHANGED <<facts, solverVars>>, steps' \in Nat
  PROVE  SolverTypeOK'
BY DEF SolverTypeOK, solverVars

LEMMA SpendTyped ==
  ASSUME steps \in Nat, NEW n \in Nat
  PROVE  Spend(n) \in Nat
BY DEF Spend

LEMMA CostTyped ==
  ASSUME NEW e
  PROVE  TestCost(e) \in Nat
BY DEF TestCost

\* How far the comparison of two facts went.
LEMMA ComparedTyped ==
  ASSUME NEW f \in Fact, NEW g \in Fact
  PROVE  1 + Compared(f, g) \in Nat
<1>1. /\ f.terms \in Seq(Term) /\ g.terms \in Seq(Term)
      /\ f.terms = [i \in DOMAIN f.terms |-> f.terms[i]]
      /\ g.terms = [i \in DOMAIN g.terms |-> g.terms[i]]
  BY LenProperties DEF Fact
<1>2. PICK n \in Nat : n = Len(f.terms) /\ DOMAIN f.terms = 1 .. n
  BY <1>1, LenProperties
<1>3. CASE ~SameShape(f, g) \/ f.origin # g.origin
  BY <1>3 DEF Compared
<1>4. CASE SameShape(f, g) /\ f.origin = g.origin /\ f.terms = g.terms
  BY <1>2, <1>4 DEF Compared
<1>5. CASE SameShape(f, g) /\ f.origin = g.origin /\ f.terms # g.terms
  <2> DEFINE D == {i \in 1 .. n : f.terms[i] # g.terms[i]}
  <2>1. DOMAIN g.terms = 1 .. n
    BY <1>1, <1>2, <1>5, LenProperties DEF SameShape
  <2>2. D # {} /\ D \in SUBSET Nat
    BY <1>1, <1>2, <1>5, <2>1
  <2>3. PICK i \in D : \A j \in D : i <= j
    <3> HIDE DEF D
    <3>1. QED
      BY <2>2, LeastOf
  <2>4. \A j \in 1 .. i-1 : f.terms[j] = g.terms[j]
    <3> TAKE j \in 1 .. i-1
    <3>1. j \in 1 .. n /\ ~(i <= j)
      BY <2>3
    <3>2. QED
      BY <2>3, <3>1
  <2>5. \E k \in DOMAIN f.terms : /\ f.terms[k] # g.terms[k]
                                  /\ \A j \in 1 .. k-1 : f.terms[j] = g.terms[j]
    BY <1>2, <2>3, <2>4
  <2>6. FirstDifference(f, g) \in 1 .. n
    BY <1>2, <2>5 DEF FirstDifference
  <2>7. QED
    BY <1>5, <2>6 DEF Compared
<1>6. QED
  BY <1>3, <1>4, <1>5

\* The types a run adds to the walk's.
RunTypes == pc \in EnginePlaces /\ RunTypeOK

\* Where a turn of the walk can lead.
LEMMA WalkPlacesKept ==
  ASSUME SolverStep \/ AskAgain
  PROVE  /\ pc' \in WalkPlaces
         /\ rule' = rule /\ facts' = facts
         /\ SolverStep => pc \in {"walk", "unify"}
<1>1. CASE Answer
  BY <1>1 DEF Answer, WalkPlaces
<1>2. CASE AskAgain
  <2>1. UNCHANGED <<facts, rule>> /\ pc' \in {"done", "walk"}
    BY <1>2 DEF AskAgain
  <2>2. SolverStep => pc \in {"walk", "unify"}
    BY DEF SolverStep, Answer, Backtrack, OutOfSteps, PassOver, Try, ArgumentAgrees,
           BindVariable, UnifyFails, Choose, Searching, Unifying
  <2>3. QED
    BY <2>1, <2>2 DEF WalkPlaces
<1>3. CASE Backtrack
  BY <1>3 DEF Backtrack, Searching, WalkPlaces
<1>4. CASE OutOfSteps \/ PassOver \/ Try
  BY <1>4 DEF OutOfSteps, PassOver, Try, Searching, WalkPlaces, solverVars
<1>5. CASE ArgumentAgrees \/ BindVariable \/ UnifyFails
  BY <1>5 DEF ArgumentAgrees, BindVariable, UnifyFails, Unifying, WalkPlaces
<1>6. CASE Choose
  BY <1>6 DEF Choose, WalkPlaces
<1>7. QED
  BY <1>1, <1>2, <1>3, <1>4, <1>5, <1>6 DEF SolverStep

\* The rule a run is about to apply is one.
LEMMA NextRuleTyped ==
  ASSUME world \in World, next \in Nat \ {0}, next <= Len(world.rules)
  PROVE  world.rules[next] \in Rule /\ next \in DOMAIN world.rules
<1>1. world.rules \in Seq(Rule)
  BY DEF World
<1>2. next \in 1 .. Len(world.rules)
  BY <1>1, LenProperties
<1>3. QED
  BY <1>1, <1>2, ElementOfSeq, LenProperties

\* Every step of a run keeps the solver's types.
LEMMA EngineSolverTyped ==
  ASSUME EngineTypeOK, WalkInv, Run \/ RunStep
  PROVE  SolverTypeOK'
<1> USE DEF EngineTypeOK, RunTypeOK
<1>0. steps \in Nat
  BY DEF SolverTypeOK
<1>1. CASE Run \/ SkipQuery \/ RuleDone \/ EndRound \/ WalkLimit \/ Consider
  BY <1>0, <1>1, SolverUnmoved
  DEF Run, SkipQuery, RuleDone, EndRound, WalkLimit, Consider, walkVars
<1>2. CASE ApplyRule
  <2>1. world.rules[next] \in Rule
    BY <1>2, NextRuleTyped DEF ApplyRule
  <2>2. CASE Len(world.rules[next].body) <= MaxBody
    BY <1>2, <2>1, <2>2, WalkBegun DEF ApplyRule
  <2>3. CASE ~(Len(world.rules[next].body) <= MaxBody)
    <3>1. Len(world.rules[next].body) > MaxBody
      BY <2>1, <2>3, LenProperties DEF Rule
    <3>2. UNCHANGED solverVars
      BY <1>2, <3>1 DEF ApplyRule, BeginWalk
    <3>3. QED
      BY <1>0, <1>2, <3>2, SolverUnmoved DEF ApplyRule
  <2>4. QED
    BY <2>2, <2>3
<1>3. CASE WalkOn \/ NextAnswer
  BY <1>3, StepTyped DEF WalkOn, NextAnswer
<1>4. CASE TestLimit \/ NoTermLeft \/ HeadUnbound \/ Instantiate \/ CannotLearn
  BY <1>0, <1>4, SolverUnmoved
  DEF TestLimit, NoTermLeft, HeadUnbound, Instantiate, CannotLearn
<1>5. CASE TestBreaks \/ TestDecides
  <2>1. /\ steps' = Spend(TestCost(rule.expr[test]))
        /\ UNCHANGED <<facts, solverVars>>
    BY <1>5 DEF TestBreaks, TestDecides
  <2>2. steps' \in Nat
    BY <1>0, <2>1, CostTyped, SpendTyped
  <2>3. QED
    BY <2>1, <2>2, SolverUnmoved
<1>6. CASE ScanOn \/ Known
  <2>1. /\ steps' = Spend(1 + Compared(facts[scan], candidate))
        /\ UNCHANGED <<facts, solverVars>> /\ scan <= Len(facts)
    BY <1>6 DEF ScanOn, Known, Scanning
  <2>2. facts[scan] \in Fact
    BY <2>1, ElementOfSeq, LenProperties DEF SolverTypeOK
  <2>3. 1 + Compared(facts[scan], candidate) \in Nat
    BY <2>2, ComparedTyped
  <2>4. steps' \in Nat
    BY <1>0, <2>1, <2>3, SpendTyped
  <2>5. QED
    BY <2>1, <2>4, SolverUnmoved
<1>7. CASE Learn
  <2>1. facts' \in Seq(Fact)
    BY <1>7, AppendProperties DEF Learn, SolverTypeOK
  <2>2. UNCHANGED <<steps, solverVars>>
    BY <1>7 DEF Learn
  <2>3. QED
    BY <2>1, <2>2 DEF SolverTypeOK, solverVars
<1>8. QED
  BY <1>1, <1>2, <1>3, <1>4, <1>5, <1>6, <1>7 DEF RunStep

\* And its own.
LEMMA EngineRunTyped ==
  ASSUME EngineTypeOK, EngineInv, Run \/ RunStep
  PROVE  RunTypes'
<1> USE DEF EngineTypeOK, RunTypeOK, RunTypes, EnginePlaces, Stop, runVars, answerVars
<1>1. CASE Run
  BY <1>1 DEF Run
<1>2. CASE SkipQuery \/ RuleDone \/ EndRound \/ WalkLimit \/ Consider
  BY <1>2 DEF SkipQuery, RuleDone, EndRound, WalkLimit, Consider, walkVars
<1>3. CASE ApplyRule
  <2>1. pc' \in {"limit", "walk"}
    BY <1>3 DEF ApplyRule, BeginWalk
  <2>2. QED
    BY <1>3, <2>1 DEF ApplyRule, WalkPlaces
<1>4. CASE WalkOn \/ NextAnswer
  <2>1. pc' \in WalkPlaces /\ UNCHANGED <<world, terms, runVars, answerVars, status>>
    BY <1>4, WalkPlacesKept DEF WalkOn, NextAnswer
  <2>2. QED
    BY <2>1
<1>5. CASE TestLimit \/ TestBreaks \/ TestDecides \/ NoTermLeft \/ CannotLearn
  BY <1>5 DEF TestLimit, TestBreaks, TestDecides, NoTermLeft, CannotLearn
<1>6. CASE Instantiate
  <2>1. level = Len(rule.body) /\ SolverTypeOK /\ WalkInv
    BY <1>6 DEF Instantiate, Instantiating, EngineInv, Applying, AtAnswer
  <2>2. candidate' = Instance
    BY <1>6 DEF Instantiate, Instance
  <2>3. candidate' \in Fact
    BY <1>6, <2>1, <2>2, InstanceTyped DEF Instantiate
  <2>4. PICK n \in Nat : n = Len(rule.head.terms)
    BY LenProperties DEF SolverTypeOK, Rule, Predicate
  <2>5. terms' = terms + n /\ terms + n <= TermCap
    BY <1>6, <2>4 DEF Instantiate, Room
  <2>6. terms' \in 0 .. TermCap
    BY <2>5
  <2>7. QED
    BY <1>6, <2>3, <2>6 DEF Instantiate
<1>7. CASE HeadUnbound
  <2>1. PICK n \in Nat : n = Len(rule.head.terms)
    BY LenProperties DEF SolverTypeOK, Rule, Predicate
  <2>2. terms' = terms + n /\ terms + n <= TermCap
    BY <1>7, <2>1 DEF HeadUnbound, Room
  <2>3. terms' \in 0 .. TermCap
    BY <2>2
  <2>4. QED
    BY <1>7, <2>3 DEF HeadUnbound
<1>8. CASE ScanOn \/ Learn
  <2>1. CASE ScanOn
    BY <2>1 DEF ScanOn
  <2>2. CASE Learn
    BY <2>2 DEF Learn
  <2>3. QED
    BY <1>8, <2>1, <2>2
<1>9. CASE Known
  <2>1. PICK n \in Nat : n = Len(candidate.terms)
    BY LenProperties DEF Fact
  <2>2. n <= terms
    BY <1>9, <2>1 DEF Known, Scanning, EngineInv, Candidacy
  <2>3. terms' \in 0 .. TermCap
    <3>1. terms' = terms \/ terms' = terms - n
      BY <1>9, <2>1 DEF Known
    <3>2. QED
      BY <2>2, <3>1
  <2>4. QED
    BY <1>9, <2>3 DEF Known
<1>10. QED
  BY <1>1, <1>2, <1>3, <1>4, <1>5, <1>6, <1>7, <1>8, <1>9 DEF RunStep

-----------------------------------------------------------------------------
(* The invariant.                                                          *)

\* The facts never change but at their end.
LEMMA FactsAppend ==
  ASSUME EngineTypeOK, Run \/ RunStep
  PROVE  /\ Len(facts) \in Nat /\ Len(facts') \in Nat
         /\ Len(facts) <= Len(facts')
         /\ \A k \in 1 .. Len(facts) : facts'[k] = facts[k]
         /\ world' = world
         /\ ~Learn => facts' = facts
<1>1. facts \in Seq(Fact) /\ candidate \in Fact /\ Len(facts) \in Nat
  BY LenProperties DEF EngineTypeOK, RunTypeOK, SolverTypeOK
<1>2. CASE Learn
  <2>1. facts' = Append(facts, candidate) /\ world' = world
    BY <1>2 DEF Learn
  <2>2. QED
    BY <1>1, <1>2, <2>1, AppendProperties
<1>3. CASE ~Learn
  <2>1. CASE WalkOn \/ NextAnswer
    BY <1>1, <1>3, <2>1, WalkPlacesKept DEF WalkOn, NextAnswer
  <2>2. CASE ~(WalkOn \/ NextAnswer)
    <3>1. UNCHANGED <<facts, world>>
      BY <1>3, <2>2
      DEF RunStep, Run, SkipQuery, ApplyRule, RuleDone, EndRound, WalkLimit, Consider,
          TestLimit, TestBreaks, TestDecides, Instantiate, NoTermLeft,
          HeadUnbound, ScanOn, Known, CannotLearn, walkVars
    <3>2. QED
      BY <1>1, <1>3, <3>1
  <2>3. QED
    BY <2>1, <2>2
<1>4. QED
  BY <1>2, <1>3

\* Every step of a run keeps the walk's invariant.
LEMMA EngineWalkInv ==
  ASSUME EngineTypeOK, WalkInv, Run \/ RunStep
  PROVE  WalkInv'
<1>0. SolverTypeOK /\ WalkInv
  BY DEF EngineTypeOK
<1>1. CASE WalkOn \/ NextAnswer
  <2>1. SolverStep \/ AskAgain
    BY <1>1 DEF WalkOn, NextAnswer
  <2>2. QED
    BY <1>0, <2>1, StepInv
<1>2. CASE ApplyRule /\ Len(world.rules[next].body) <= MaxBody
  <2>1. world.rules[next] \in Rule
    BY <1>2, NextRuleTyped DEF ApplyRule, EngineTypeOK, RunTypeOK
  <2>2. QED
    BY <1>0, <1>2, <2>1, WalkBegun DEF ApplyRule
<1>3. CASE /\ ~(WalkOn \/ NextAnswer)
           /\ ~(ApplyRule /\ Len(world.rules[next].body) <= MaxBody)
  <2>1. CASE ApplyRule
    <3>1. world.rules[next] \in Rule
      BY <2>1, NextRuleTyped DEF ApplyRule, EngineTypeOK, RunTypeOK
    <3>2. Len(world.rules[next].body) > MaxBody
      BY <1>3, <2>1, <3>1, LenProperties DEF Rule
    <3>3. UNCHANGED solverVars /\ pc' = "limit"
      BY <2>1, <3>2 DEF ApplyRule, BeginWalk
    <3>4. QED
      BY <1>0, <3>3, FactsAppend, WalkKept
  <2>2. CASE ~ApplyRule
    <3>1. UNCHANGED solverVars
      BY <1>3, <2>2
      DEF RunStep, Run, SkipQuery, RuleDone, EndRound, WalkLimit, Consider,
          TestLimit, TestBreaks, TestDecides, Instantiate, NoTermLeft,
          HeadUnbound, ScanOn, Known, Learn, CannotLearn, walkVars
    <3>2. pc' \notin {"walk", "unify", "found"}
      <4>1. CASE Run \/ SkipQuery \/ RuleDone \/ EndRound \/ WalkLimit \/ Consider
        BY <4>1 DEF Run, SkipQuery, RuleDone, EndRound, WalkLimit, Consider, Stop,
            walkVars
      <4>2. CASE TestLimit \/ TestBreaks \/ TestDecides \/ Instantiate \/ NoTermLeft
        BY <4>2 DEF TestLimit, TestBreaks, TestDecides, Instantiate, NoTermLeft,
                    Stop, Testing
      <4>3. CASE HeadUnbound \/ ScanOn \/ Known \/ Learn \/ CannotLearn
        BY <4>3 DEF HeadUnbound, ScanOn, Known, Learn, CannotLearn, Stop, Scanning
      <4>4. QED
        BY <1>3, <2>2, <4>1, <4>2, <4>3 DEF RunStep
    <3>3. QED
      BY <1>0, <3>1, <3>2, FactsAppend, WalkKept
  <2>3. QED
    BY <2>1, <2>2
<1>4. QED
  BY <1>1, <1>2, <1>3

\* Every step of a run keeps what it knows of the rule it applies.
LEMMA EngineApplying ==
  ASSUME EngineTypeOK, EngineInv, Run \/ RunStep
  PROVE  Applying'
<1>0. SolverTypeOK /\ WalkInv /\ Applying
  BY DEF EngineTypeOK, RunTypeOK, EngineInv
<1>1. CASE Run \/ SkipQuery \/ RuleDone \/ EndRound \/ WalkLimit
  <2>1. pc' \in {"ran", "next"}
    BY <1>1 DEF Run, SkipQuery, RuleDone, EndRound, WalkLimit, Stop, walkVars
  <2>2. QED
    BY <2>1 DEF Applying, AtAnswer
<1>2. CASE ApplyRule
  <2>1. CASE Len(world.rules[next].body) > MaxBody
    BY <1>2, <2>1 DEF ApplyRule, BeginWalk, Applying, AtAnswer
  <2>2. CASE ~(Len(world.rules[next].body) > MaxBody)
    <3>1. pc' = "walk" /\ rule' = world.rules[next] /\ world' = world
          /\ ~rule'.is_query
      BY <1>2, <2>2 DEF ApplyRule, BeginWalk
    <3>2. next \in DOMAIN world.rules
      BY <1>2, NextRuleTyped DEF ApplyRule, EngineTypeOK, RunTypeOK
    <3>3. QED
      BY <3>1, <3>2 DEF Applying, AtAnswer
  <2>3. QED
    BY <2>1, <2>2
<1>3. CASE WalkOn \/ NextAnswer
  <2>1. /\ pc' \in WalkPlaces /\ rule' = rule /\ world' = world
        /\ pc \in {"walk", "unify", "again"}
    BY <1>3, WalkPlacesKept DEF WalkOn, NextAnswer
  <2>2. \E n \in DOMAIN world.rules : rule = world.rules[n] /\ ~rule.is_query
    BY <1>0, <2>1 DEF Applying, AtAnswer
  <2>3. pc' = "found" => level' = Len(rule'.body)
    BY EngineWalkInv DEF WalkInv, EngineInv
  <2>4. QED
    BY <2>1, <2>2, <2>3 DEF Applying, AtAnswer, WalkPlaces
<1>4. CASE TestLimit \/ TestBreaks \/ NoTermLeft \/ HeadUnbound \/ CannotLearn
  <2>1. pc' = "ran"
    BY <1>4 DEF TestLimit, TestBreaks, NoTermLeft, HeadUnbound, CannotLearn, Stop
  <2>2. QED
    BY <2>1 DEF Applying, AtAnswer
<1>5. CASE Consider \/ Instantiate \/ ScanOn \/ Known \/ Learn
  <2>1. /\ AtAnswer
        /\ pc' \in {"test", "dup", "again", "ran"}
        /\ UNCHANGED <<rule, level, world>>
        /\ pc' = "test" => test' = 1
    BY <1>5 DEF Consider, Instantiate, Instantiating, ScanOn, Known, Scanning,
                Learn, Scanned, AtAnswer, solverVars, Stop
  <2>2. /\ \E n \in DOMAIN world.rules : rule = world.rules[n] /\ ~rule.is_query
        /\ level = Len(rule.body)
    BY <1>0, <2>1 DEF Applying
  <2>3. QED
    BY <2>1, <2>2 DEF Applying
<1>6. CASE TestDecides
  <2>1. /\ pc = "test" /\ test <= Len(rule.expr)
        /\ \/ pc' = "test" /\ test' = test + 1 /\ Passes(rule.expr[test])
           \/ pc' = "again"
        /\ ~Breaks(rule.expr[test])
        /\ UNCHANGED <<solverVars, world>>
    BY <1>6 DEF TestDecides, Testing
  <2>2. /\ \E n \in DOMAIN world.rules : rule = world.rules[n] /\ ~rule.is_query
        /\ level = Len(rule.body)
        /\ \A k \in 1 .. test - 1 :
             k <= Len(rule.expr) /\ Holds(rule.expr[k], Substitution)
    BY <1>0, <2>1 DEF Applying, AtAnswer
  <2>3. UNCHANGED <<rule, level, binds>>
    BY <2>1 DEF solverVars
  <2>4. Substitution' = Substitution
    BY <2>3 DEF Substitution
  <2>5. CASE pc' = "again"
    BY <2>1, <2>2, <2>3, <2>5 DEF Applying
  <2>6. CASE pc' = "test" /\ test' = test + 1 /\ Passes(rule.expr[test])
    <3>1. rule.expr[test] \in Test /\ test \in Nat \ {0}
      BY <2>1, ElementOfSeq, LenProperties DEF EngineTypeOK, RunTypeOK, SolverTypeOK, Rule
    <3>2. Holds(rule.expr[test], Substitution)
      BY <1>0, <2>1, <2>6, <3>1, PassingHolds
    <3>3. \A k \in 1 .. test' - 1 :
            k <= Len(rule.expr) /\ Holds(rule.expr[k], Substitution)
      <4> TAKE k \in 1 .. test' - 1
      <4>1. k \in 1 .. test - 1 \/ k = test
        BY <2>6, <3>1
      <4>2. QED
        BY <2>1, <2>2, <3>2, <4>1
    <3>4. \A k \in 1 .. test' - 1 :
            k <= Len(rule'.expr) /\ Holds(rule'.expr[k], Substitution')
      BY <2>3, <2>4, <3>3
    <3>5. \A k \in 1 .. test' - 1 :
            k <= Len(rule'.expr) /\ Holds(rule.expr[k], Substitution)'
      BY <2>3, <2>4, <3>3 DEF Holds, Under
    <3>6. QED
      BY <2>1, <2>2, <2>3, <2>6, <3>5 DEF Applying
  <2>7. QED
    BY <2>1, <2>5, <2>6
<1>7. QED
  BY <1>1, <1>2, <1>3, <1>4, <1>5, <1>6 DEF RunStep

\* And of the fact it is about to add.
LEMMA EngineCandidacy ==
  ASSUME EngineTypeOK, EngineInv, Run \/ RunStep
  PROVE  Candidacy'
<1>1. CASE Instantiate
  <2>1. /\ level = Len(rule.body) /\ SolverTypeOK /\ WalkInv
        /\ \A k \in 1 .. test - 1 :
             k <= Len(rule.expr) /\ Holds(rule.expr[k], Substitution)
        /\ test > Len(rule.expr) /\ ~Hole /\ test \in Nat
    BY <1>1 DEF Instantiate, Instantiating, EngineTypeOK, RunTypeOK, EngineInv, Applying, AtAnswer
  <2>2. \A k \in DOMAIN rule.expr : Holds(rule.expr[k], Substitution)
    <3> TAKE k \in DOMAIN rule.expr
    <3>1. k \in 1 .. Len(rule.expr) /\ Len(rule.expr) \in Nat
      BY <2>1, LenProperties DEF SolverTypeOK, Rule
    <3>2. QED
      BY <2>1, <3>1
  <2>3. Instance \in Consequences(rule, facts)
    BY <2>1, <2>2, InstanceConcluded
  <2>4. PICK n \in DOMAIN world.rules : rule = world.rules[n] /\ ~rule.is_query
    BY <1>1 DEF Instantiate, Instantiating, EngineInv, Applying, AtAnswer
  <2>5. /\ candidate' = Instance /\ facts' = facts /\ world' = world /\ scan' = 1
        /\ terms' = terms + Len(rule.head.terms)
    BY <1>1 DEF Instantiate, Instance
  <2>6. Concluded(candidate, facts)'
    <3>1. candidate' \in Consequences(world.rules[n], facts)
      BY <2>3, <2>4, <2>5
    <3>2. Consequences(world.rules[n], facts)' = Consequences(world.rules[n], facts)
      BY <2>5
    <3>3. QED
      BY <2>4, <2>5, <3>1, <3>2 DEF Concluded
  <2>7. Len(candidate'.terms) <= terms'
    <3>1. PICK d \in Nat : d = Len(rule.head.terms)
      BY <2>1, LenProperties DEF SolverTypeOK, Rule, Predicate
    <3>2. Len(Instance.terms) = d
      BY <2>1, <3>1, InstanceTyped
    <3>3. QED
      BY <2>5, <3>1, <3>2 DEF EngineTypeOK, RunTypeOK
  <2>8. Len(facts) \in Nat
    BY <2>1, LenProperties DEF SolverTypeOK
  <2>9. QED
    BY <2>5, <2>6, <2>7, <2>8 DEF Candidacy
<1>2. CASE ScanOn
  <2>1. /\ pc = "dup" /\ scan <= Len(facts) /\ facts[scan] # candidate
        /\ UNCHANGED <<facts, world, candidate, terms>> /\ scan' = scan + 1
    BY <1>2 DEF ScanOn, Scanning, Same
  <2>2. /\ Concluded(candidate, facts)
        /\ \A k \in 1 .. scan - 1 : facts[k] # candidate
        /\ Len(candidate.terms) <= terms
    BY <2>1 DEF EngineInv, Candidacy
  <2>3. Concluded(candidate, facts)'
    BY <2>1, <2>2 DEF Concluded
  <2>4. scan \in Nat \ {0} /\ Len(facts) \in Nat
    BY LenProperties DEF EngineTypeOK, RunTypeOK, SolverTypeOK
  <2>5. \A k \in 1 .. scan' - 1 : facts[k] # candidate
    <3> TAKE k \in 1 .. scan' - 1
    <3>1. k \in 1 .. scan - 1 \/ k = scan
      BY <2>1, <2>4
    <3>2. QED
      BY <2>1, <2>2, <3>1
  <2>6. QED
    BY <2>1, <2>2, <2>3, <2>4, <2>5 DEF Candidacy
<1>3. CASE ~Instantiate /\ ~ScanOn
  <2>1. pc' # "dup"
    <3>1. CASE Run \/ SkipQuery \/ RuleDone \/ EndRound \/ WalkLimit \/ Consider
      BY <3>1 DEF Run, SkipQuery, RuleDone, EndRound, WalkLimit, Consider, Stop,
                  walkVars
    <3>2. CASE ApplyRule
      BY <3>2 DEF ApplyRule, BeginWalk
    <3>3. CASE WalkOn \/ NextAnswer
      <4>1. pc' \in WalkPlaces
        BY <3>3, WalkPlacesKept DEF WalkOn, NextAnswer
      <4>2. QED
        BY <4>1 DEF WalkPlaces
    <3>4. CASE TestLimit \/ TestBreaks \/ TestDecides \/ NoTermLeft \/ HeadUnbound
      BY <3>4 DEF TestLimit, TestBreaks, TestDecides, NoTermLeft, HeadUnbound,
                  Stop, Testing
    <3>5. CASE Known \/ Learn \/ CannotLearn
      BY <3>5 DEF Known, Learn, CannotLearn, Stop
    <3>6. QED
      BY <1>3, <3>1, <3>2, <3>3, <3>4, <3>5 DEF RunStep
  <2>2. QED
    BY <2>1 DEF Candidacy
<1>4. QED
  BY <1>1, <1>2, <1>3

-----------------------------------------------------------------------------
(* The invariant of every run.                                             *)

LEMMA EngineInitially ==
  ASSUME EngineInit
  PROVE  EngineTypeOK /\ EngineInv
<1>1. /\ world \in World /\ facts = world.facts /\ steps = world.steps
      /\ rule = NoRule /\ base = 0 /\ level = 0 /\ binds = <<>>
      /\ frames = [l \in 0 .. MaxBody-1 |-> NoFrame]
      /\ mark = 0 /\ arg = 1 /\ answers = <<>>
  BY DEF EngineInit, EngineStart
<1>2. NoPredicate \in Predicate /\ NoPredicate.name \in Name
  <2>1. (CHOOSE n \in Name : TRUE) \in Name
    OBVIOUS
  <2>2. <<>> \in Seq(Term)
    BY EmptySeq
  <2>3. QED
    BY <2>1, <2>2 DEF NoPredicate, Predicate
<1>3. NoRule \in Rule /\ NoRule.body = <<>>
  BY <1>2, EmptySeq DEF NoRule, Rule, Origin
<1>4. NoFact \in Fact
  BY <1>2, EmptySeq DEF NoFact, Fact, Origin
<1>5. /\ facts \in Seq(Fact) /\ steps \in Nat /\ Len(facts) \in Nat
  BY <1>1, LenProperties DEF World
<1>6. SolverTypeOK
  <2>1. NoFrame \in Frame
    BY DEF NoFrame, Frame, Origin
  <2>2. binds \in Seq(Binding) /\ answers \in Seq(Seq(Nat))
    BY <1>1, EmptySeq
  <2>3. QED
    BY <1>1, <1>3, <1>5, <2>1, <2>2 DEF SolverTypeOK
<1>7. EngineTypeOK
  BY <1>1, <1>4, <1>6 DEF EngineInit, EngineStart, EngineTypeOK, RunTypeOK, EnginePlaces
<1>8. WalkInv
  <2>1. Len(rule.body) = 0 /\ Len(binds) = 0 /\ pc = "ran" /\ 0 .. level - 1 = {}
    BY <1>1, <1>3, EmptySeq DEF EngineInit
  <2>2. WithinBounds
    BY <1>1, <1>5, <2>1 DEF WithinBounds
  <2>3. MarksNest
    BY <1>1, <2>1 DEF MarksNest
  <2>4. BindsDistinct
    BY <1>1 DEF BindsDistinct
  <2>5. QED
    BY <2>1, <2>2, <2>3, <2>4 DEF WalkInv, UnifyFits
<1>9. FactsGrow
  BY <1>1, <1>5 DEF FactsGrow, Loaded
<1>10. QED
  BY <1>7, <1>8, <1>9 DEF EngineInit, EngineInv, Applying, Candidacy, AtAnswer

LEMMA WalkUnmoved ==
  ASSUME SolverTypeOK, WalkInv,
         UNCHANGED <<facts, rule, base, level, frames, binds, mark, arg, pc>>
  PROVE  WalkInv'
<1>1. level \in Nat
  BY DEF SolverTypeOK
<1>2. \A m \in 0 .. level' - 1 : LevelFits(m)'
  BY <1>1, LevelsUnmoved
<1>3. QED
  BY <1>2 DEF WalkInv, WithinBounds, MarksNest, BindsDistinct, UnifyFits, Chosen, Trusted,
              SameShape, Goal, ArgFits

LEMMA EngineStep ==
  ASSUME EngineTypeOK, EngineInv, [EngineNext]_engineVars
  PROVE  EngineTypeOK' /\ EngineInv'
<1>1. CASE Run \/ RunStep
  <2>1. EngineTypeOK'
    BY <1>1, EngineSolverTyped, EngineRunTyped DEF EngineTypeOK, RunTypes, EngineInv
  <2>2. FactsGrow'
    <3>1. /\ Len(facts) \in Nat /\ Len(facts') \in Nat /\ Len(facts) <= Len(facts')
          /\ \A k \in 1 .. Len(facts) : facts'[k] = facts[k]
          /\ world' = world
      BY <1>1, FactsAppend
    <3>2. PICK n \in Nat : n = Len(world.facts)
      BY LenProperties DEF EngineTypeOK, RunTypeOK, World
    <3>3. n <= Len(facts) /\ \A k \in 1 .. n : facts[k] = world.facts[k]
      BY <3>2 DEF EngineInv, FactsGrow, Loaded
    <3>4. n <= Len(facts') /\ \A k \in 1 .. n : facts'[k] = world.facts[k]
      BY <3>1, <3>3
    <3>5. QED
      BY <3>1, <3>2, <3>4 DEF FactsGrow, Loaded
  <2>3. QED
    BY <1>1, <2>1, <2>2, EngineWalkInv, EngineApplying, EngineCandidacy DEF EngineInv
<1>2. CASE Ran \/ UNCHANGED engineVars
  <2>1. UNCHANGED engineVars
    BY <1>2 DEF Ran
  <2>2. UNCHANGED <<facts, steps, rule, base, level, frames, binds, mark, arg, answers,
                    pc, world, terms, round, next, produced, runs, test, candidate,
                    scan, status>>
    BY <2>1 DEF engineVars, walkVars, solverVars, runVars, answerVars
  <2>3. EngineTypeOK'
    BY <2>2 DEF EngineTypeOK, RunTypeOK, SolverTypeOK
  <2>4. WalkInv'
    BY <2>2, WalkUnmoved DEF EngineTypeOK, EngineInv
  <2>5. FactsGrow' /\ Applying' /\ Candidacy'
    <3>1. FactsGrow'
      BY <2>2 DEF EngineInv, FactsGrow, Loaded
    <3>2. Applying'
      BY <2>2 DEF EngineInv, Applying, AtAnswer, Substitution, Holds, Under
    <3>3. Candidacy'
      BY <2>2 DEF EngineInv, Candidacy, Concluded
    <3>4. QED
      BY <3>1, <3>2, <3>3
  <2>6. QED
    BY <2>3, <2>4, <2>5 DEF EngineInv
<1>3. QED
  BY <1>1, <1>2 DEF EngineNext

\* Whatever the world, the sizes of the pools, the budget and the rounds, a
\* run keeps its types, the walk's invariant, the loaded facts, and at every
\* answer a rule whose expressions so far hold (130_engine.inc:303-406).
THEOREM EngineInvariant == EngineSpec => [](EngineTypeOK /\ EngineInv)
<1>1. EngineInit => EngineTypeOK /\ EngineInv
  BY EngineInitially
<1>2. EngineTypeOK /\ EngineInv /\ [EngineNext]_engineVars => (EngineTypeOK /\ EngineInv)'
  BY EngineStep
<1>3. QED
  BY <1>1, <1>2, PTL DEF EngineSpec

-----------------------------------------------------------------------------
(* Every derived fact follows from the facts before it, and is new.        *)

LEMMA DerivedOnceStep ==
  ASSUME EngineTypeOK, EngineInv, DerivedOnce, [EngineNext]_engineVars
  PROVE  DerivedOnce'
<1>0. facts \in Seq(Fact) /\ candidate \in Fact /\ Len(facts) \in Nat
      /\ Loaded \in Nat /\ scan \in Nat
  BY LenProperties DEF EngineTypeOK, RunTypeOK, SolverTypeOK, World, Loaded
<1>1. CASE Learn
  <2>1. /\ facts' = Append(facts, candidate) /\ world' = world
        /\ pc = "dup" /\ scan > Len(facts)
    BY <1>1 DEF Learn, Scanned
  <2>2. /\ Len(facts') = Len(facts) + 1
        /\ \A k \in 1 .. Len(facts) : facts'[k] = facts[k]
        /\ facts'[Len(facts) + 1] = candidate
        /\ facts' \in Seq(Fact)
    BY <1>0, <2>1, AppendProperties
  <2>3. ASSUME NEW k \in 1 .. Len(facts) + 1
        PROVE  SubSeq(facts', 1, k - 1) = SubSeq(facts, 1, k - 1)
    <3>1. k - 1 \in Nat /\ k - 1 <= Len(facts)
      BY <1>0
    <3>2. \A j \in 1 .. k - 1 : facts'[j] = facts[j]
      BY <1>0, <2>2, <3>1
    <3>3. /\ \A j \in 1 .. k - 1 : facts[j] \in Fact
          /\ \A j \in 1 .. k - 1 : facts'[j] \in Fact
      BY <1>0, <2>2, <3>1, ElementOfSeq
    <3>4. /\ SubSeq(facts, 1, k - 1) \in Seq(Fact)
          /\ Len(SubSeq(facts, 1, k - 1)) = k - 1
          /\ \A j \in 1 .. k - 1 : SubSeq(facts, 1, k - 1)[j] = facts[j]
      BY <3>1, <3>3, SubSeqProperties
    <3>5. /\ SubSeq(facts', 1, k - 1) \in Seq(Fact)
          /\ Len(SubSeq(facts', 1, k - 1)) = k - 1
          /\ \A j \in 1 .. k - 1 : SubSeq(facts', 1, k - 1)[j] = facts'[j]
      BY <3>1, <3>3, SubSeqProperties
    <3>6. QED
      BY <3>1, <3>2, <3>4, <3>5, SeqEqual
  <2>4. /\ Concluded(candidate, facts)
        /\ \A j \in 1 .. Len(facts) : facts[j] # candidate
    BY <1>0, <2>1 DEF EngineInv, Candidacy
  <2>5. SubSeq(facts, 1, Len(facts)) = facts
    BY <1>0, SubSeqFull
  <2>6. ASSUME NEW k \in Loaded + 1 .. Len(facts) + 1
        PROVE  /\ Concluded(facts'[k], SubSeq(facts, 1, k - 1))
               /\ \A j \in 1 .. k - 1 : facts'[j] # facts'[k]
    <3>1. CASE k \in Loaded + 1 .. Len(facts)
      <4>1. \A j \in 1 .. k : facts'[j] = facts[j]
        BY <1>0, <2>2, <3>1
      <4>2. /\ Concluded(facts[k], SubSeq(facts, 1, k - 1))
            /\ \A j \in 1 .. k - 1 : facts[j] # facts[k]
        BY <3>1 DEF DerivedOnce
      <4>3. k \in 1 .. k /\ \A j \in 1 .. k - 1 : j \in 1 .. k
        BY <1>0, <3>1
      <4>4. QED
        BY <4>1, <4>2, <4>3
    <3>2. CASE k = Len(facts) + 1
      <4>1. k - 1 = Len(facts)
        BY <1>0, <3>2
      <4>2. QED
        BY <2>2, <2>4, <2>5, <3>2, <4>1
    <3>3. QED
      BY <1>0, <3>1, <3>2
  <2>7. Loaded' = Loaded
    BY <2>1 DEF Loaded
  <2>8. ASSUME NEW k \in Loaded' + 1 .. Len(facts')
        PROVE  /\ Concluded(facts'[k], SubSeq(facts', 1, k - 1))
               /\ \A j \in 1 .. k - 1 : facts'[j] # facts'[k]
    <3>1. k \in Loaded + 1 .. Len(facts) + 1 /\ k \in 1 .. Len(facts) + 1
      BY <1>0, <2>2, <2>7
    <3>2. QED
      BY <2>3, <2>6, <3>1
  <2>9. QED
    BY <2>1, <2>8 DEF DerivedOnce, Concluded
<1>2. CASE ~Learn
  <2>1. facts' = facts /\ world' = world
    <3>1. CASE Run \/ RunStep
      BY <1>2, <3>1, FactsAppend
    <3>2. CASE Ran \/ UNCHANGED engineVars
      BY <3>2 DEF Ran, engineVars, walkVars
    <3>3. QED
      BY <3>1, <3>2 DEF EngineNext
  <2>2. QED
    BY <2>1 DEF DerivedOnce, Concluded, Loaded
<1>3. QED
  BY <1>1, <1>2

\* Whatever the world and its limits, every fact a run derives is the
\* conclusion of one of its rules from facts that were there before it, with
\* exactly their origin and that rule's block, and is none of those facts
\* (130_engine.inc:9-15, 340-361).
THEOREM EngineDerivesOnce == EngineSpec => []DerivedOnce
<1>1. EngineInit => DerivedOnce
  <2> SUFFICES ASSUME EngineInit PROVE DerivedOnce
    OBVIOUS
  <2>1. facts = world.facts /\ Len(facts) \in Nat
    BY EngineInitially, LenProperties
    DEF EngineInit, EngineStart, EngineTypeOK, RunTypeOK, SolverTypeOK
  <2>2. Loaded + 1 .. Len(facts) = {}
    BY <2>1 DEF Loaded
  <2>3. QED
    BY <2>2 DEF DerivedOnce
<1>2. EngineTypeOK /\ EngineInv /\ DerivedOnce /\ [EngineNext]_engineVars => DerivedOnce'
  BY DerivedOnceStep
<1>3. QED
  BY <1>1, <1>2, EngineInvariant, PTL DEF EngineSpec

-----------------------------------------------------------------------------
(* A rule the loader passed leaves no hole.                                *)

Returned == status # "none" => pc = "ran"

LEMMA BoundHeadFills ==
  ASSUME EngineTypeOK, EngineInv, Instantiating, HeadBound(rule)
  PROVE  ~Hole
<1>1. SolverTypeOK /\ WalkInv /\ level = Len(rule.body)
  BY DEF EngineTypeOK, RunTypeOK, EngineInv, Applying, AtAnswer, Instantiating
<1>2. AnswerSound
  BY <1>1, FullLevelsSound
<1>3. ASSUME NEW i \in DOMAIN rule.head.terms, rule.head.terms[i] \in Var
      PROVE  IsBound(rule.head.terms[i], binds)
  <2>1. PICK j \in DOMAIN rule.body : \E k \in DOMAIN rule.body[j].terms :
           rule.body[j].terms[k] = rule.head.terms[i]
    BY <1>3 DEF HeadBound
  <2>2. QED
    BY <1>2, <1>3, <2>1 DEF AnswerSound
<1>4. QED
  BY <1>3 DEF Hole, Missing

LEMMA BoundRulesStep ==
  ASSUME EngineTypeOK, EngineInv, Returned, BoundRulesFill, [EngineNext]_engineVars
  PROVE  Returned' /\ BoundRulesFill'
<1>1. CASE HeadUnbound
  <2>1. ~HeadBound(rule) /\ rule' = rule /\ pc' = "ran"
    BY <1>1, BoundHeadFills DEF HeadUnbound, solverVars, Stop
  <2>2. QED
    BY <2>1 DEF Returned, BoundRulesFill, HeadBound
<1>2. CASE Ran \/ UNCHANGED engineVars
  <2>1. UNCHANGED <<pc, status, rule>>
    BY <1>2 DEF Ran, engineVars, walkVars, solverVars
  <2>2. QED
    BY <2>1 DEF Returned, BoundRulesFill, HeadBound
<1>3. CASE Run
  BY <1>3 DEF Run, Stop, Returned, BoundRulesFill
<1>4. CASE WalkOn \/ NextAnswer \/ SkipQuery \/ ApplyRule \/ RuleDone \/ Consider
           \/ TestDecides \/ Instantiate \/ ScanOn \/ Learn
  <2>1. status' = status /\ pc # "ran"
    <3>1. CASE WalkOn
      BY <3>1, WalkPlacesKept DEF WalkOn
    <3>2. CASE NextAnswer \/ SkipQuery \/ ApplyRule \/ RuleDone \/ Consider
      BY <3>2 DEF NextAnswer, SkipQuery, ApplyRule, RuleDone, Consider
    <3>3. CASE TestDecides \/ Instantiate \/ ScanOn \/ Learn
      BY <3>3 DEF TestDecides, Testing, Instantiate, Instantiating, ScanOn, Scanning,
                  Learn, Scanned
    <3>4. QED
      BY <1>4, <3>1, <3>2, <3>3
  <2>2. QED
    BY <2>1 DEF Returned, BoundRulesFill
<1>5. CASE EndRound \/ WalkLimit \/ TestLimit \/ TestBreaks \/ NoTermLeft
           \/ Known \/ CannotLearn
  <2>1. pc # "ran" /\ (status' = status \/ (pc' = "ran" /\ status' # "UNBOUND"))
    <3>1. CASE EndRound
      <4>1. /\ pc = "next"
            /\ \/ Stop("OK") \/ Stop("LIMIT") \/ status' = status
        BY <3>1 DEF EndRound
      <4>2. QED
        BY <4>1 DEF Stop
    <3>2. CASE WalkLimit \/ TestLimit \/ TestBreaks
      BY <3>2 DEF WalkLimit, TestLimit, TestBreaks, Testing, Stop
    <3>3. CASE NoTermLeft \/ CannotLearn
      BY <3>3 DEF NoTermLeft, Instantiating, CannotLearn, Scanned, Stop
    <3>4. CASE Known
      <4>1. pc = "dup" /\ (Stop("LIMIT") \/ status' = status)
        BY <3>4 DEF Known, Scanning
      <4>2. QED
        BY <4>1 DEF Stop
    <3>5. QED
      BY <1>5, <3>1, <3>2, <3>3, <3>4
  <2>2. QED
    BY <2>1 DEF Returned, BoundRulesFill
<1>6. QED
  BY <1>1, <1>2, <1>3, <1>4, <1>5 DEF EngineNext, RunStep

\* Whatever the world, a run never fails on a hole in the head of a rule that
\* the load-time test passed (130_engine.inc:126-128, 100_world.inc:111-138).
THEOREM EngineBoundRules == EngineSpec => []BoundRulesFill
<1>1. EngineInit => Returned /\ BoundRulesFill
  <2>1. EngineInit => status = "none"
    BY DEF EngineInit, EngineStart
  <2>2. QED
    BY <2>1 DEF Returned, BoundRulesFill
<1>2. EngineTypeOK /\ EngineInv /\ Returned /\ BoundRulesFill /\ [EngineNext]_engineVars
        => Returned' /\ BoundRulesFill'
  BY BoundRulesStep
<1>3. QED
  BY <1>1, <1>2, EngineInvariant, PTL DEF EngineSpec

-----------------------------------------------------------------------------
(* What the derived facts take up is what the pool has lost.               *)

\* A running total over the facts of fs, from n up to m.
Totals(fs, n, m, t) ==
  t = [k \in n .. m |-> IF k = n THEN 0 ELSE t[k - 1] + Len(fs[k].terms)]

LEMMA TotalsOn ==
  ASSUME NEW fs \in Seq(Fact), NEW n \in Nat, NEW m \in Nat, n <= m, m + 1 <= Len(fs),
         NEW t, Totals(fs, n, m, t)
  PROVE  \E u : Totals(fs, n, m + 1, u)
<1> DEFINE u == [k \in n .. m + 1 |->
                   IF k = m + 1 THEN t[m] + Len(fs[m + 1].terms) ELSE t[k]]
<1>1. ASSUME NEW k \in n .. m + 1
      PROVE  u[k] = IF k = n THEN 0 ELSE u[k - 1] + Len(fs[k].terms)
  <2>1. CASE k = m + 1
    <3>1. u[k] = t[m] + Len(fs[k].terms) /\ u[k - 1] = t[m] /\ k # n
      BY <2>1
    <3>2. QED
      BY <3>1
  <2>2. CASE k # m + 1
    <3>1. k \in n .. m /\ u[k] = t[k]
      BY <2>2
    <3>2. t[k] = IF k = n THEN 0 ELSE t[k - 1] + Len(fs[k].terms)
      BY <3>1 DEF Totals
    <3>3. k # n => k - 1 \in n .. m + 1 /\ k - 1 # m + 1
      BY <3>1
    <3>4. k # n => u[k - 1] = t[k - 1]
      BY <3>3
    <3>5. QED
      BY <3>1, <3>2, <3>4
  <2>3. QED
    BY <2>1, <2>2
<1>2. u = [k \in n .. m + 1 |-> u[k]]
  OBVIOUS
<1> HIDE DEF u
<1>3. u = [k \in n .. m + 1 |-> IF k = n THEN 0 ELSE u[k - 1] + Len(fs[k].terms)]
  BY <1>1, <1>2
<1>4. QED
  BY <1>3 DEF Totals

\* There is one for any part of the facts.
LEMMA TotalsExist ==
  ASSUME NEW fs \in Seq(Fact), NEW n \in 0 .. Len(fs)
  PROVE  \E t : Totals(fs, n, Len(fs), t)
<1>1. Len(fs) \in Nat /\ n \in Nat
  BY LenProperties
<1> DEFINE Lacking == {m \in n .. Len(fs) : ~\E t : Totals(fs, n, m, t)}
<1>0. Lacking \in SUBSET Nat
  BY <1>1
<1>2. Len(fs) \notin Lacking => \E t : Totals(fs, n, Len(fs), t)
  <2>1. Len(fs) \in n .. Len(fs)
    BY <1>1
  <2>2. QED
    BY <2>1
<1>3. ASSUME Lacking # {} PROVE FALSE
  <2>1. PICK m \in Lacking : \A j \in Lacking : m <= j
    BY <1>0, <1>3, LeastOf
  <2>2. CASE m = n
    <3>1. Totals(fs, n, n, [k \in n .. n |-> 0])
      BY <1>1 DEF Totals
    <3>2. QED
      BY <2>1, <2>2, <3>1
  <2>3. CASE m # n
    <3>1. m - 1 \in n .. Len(fs) /\ m - 1 \in Nat /\ n <= m - 1 /\ (m - 1) + 1 = m /\ ~(m <= m - 1)
          /\ m <= Len(fs)
      BY <1>1, <2>1, <2>3
    <3>2. PICK t : Totals(fs, n, m - 1, t)
      BY <2>1, <3>1
    <3>3. \E u : Totals(fs, n, (m - 1) + 1, u)
      BY <1>1, <3>1, <3>2, TotalsOn
    <3>4. QED
      BY <2>1, <3>1, <3>3
  <2>4. QED
    BY <2>2, <2>3
<1>4. QED
  BY <1>2, <1>3

\* And only one, whatever follows in the facts.
LEMMA TotalsAgree ==
  ASSUME NEW fs \in Seq(Fact), NEW gs \in Seq(Fact), NEW n \in Nat, NEW m \in Nat,
         NEW l \in Nat, n <= m, m <= l, m <= Len(fs),
         \A k \in 1 .. m : fs[k] = gs[k],
         NEW t, Totals(fs, n, m, t), NEW u, Totals(gs, n, l, u)
  PROVE  \A k \in n .. m : t[k] = u[k] /\ t[k] \in Nat
<1> DEFINE Off == {k \in n .. m : ~(t[k] = u[k] /\ t[k] \in Nat)}
<1>0. Off \in SUBSET Nat
  OBVIOUS
<1>1. ASSUME Off # {} PROVE FALSE
  <2>1. PICK k \in Off : \A j \in Off : k <= j
    BY <1>0, <1>1, LeastOf
  <2>2. t[k] = (IF k = n THEN 0 ELSE t[k - 1] + Len(fs[k].terms))
    BY <2>1 DEF Totals
  <2>3. u[k] = (IF k = n THEN 0 ELSE u[k - 1] + Len(gs[k].terms))
    <3>1. k \in n .. l
      BY <2>1
    <3>2. QED
      BY <3>1 DEF Totals
  <2>4. CASE k = n
    BY <2>1, <2>2, <2>3, <2>4
  <2>5. CASE k # n
    <3>1. k - 1 \in n .. m /\ ~(k <= k - 1) /\ k \in 1 .. m
      BY <2>1, <2>5
    <3>2. t[k - 1] = u[k - 1] /\ t[k - 1] \in Nat
      BY <2>1, <3>1
    <3>3. fs[k] = gs[k] /\ fs[k] \in Fact
      <4>1. k \in 1 .. Len(fs)
        BY <3>1, LenProperties
      <4>2. QED
        BY <3>1, <4>1, ElementOfSeq
    <3>4. Len(fs[k].terms) \in Nat
      BY <3>3, LenProperties DEF Fact
    <3>5. QED
      BY <2>1, <2>2, <2>3, <2>5, <3>2, <3>3, <3>4
  <2>6. QED
    BY <2>4, <2>5
<1>2. QED
  BY <1>1

\* The room is the last of any running total.
LEMMA RoomIs ==
  ASSUME NEW fs \in Seq(Fact), NEW n \in 0 .. Len(fs)
  PROVE  \E t : Totals(fs, n, Len(fs), t) /\ RoomOf(fs, n) = t[Len(fs)]
<1> DEFINE room == CHOOSE t : t = [k \in n .. Len(fs) |->
                     IF k = n THEN 0 ELSE t[k - 1] + Len(fs[k].terms)]
<1>1. RoomOf(fs, n) = room[Len(fs)]
  BY DEF RoomOf
<1>2. room = CHOOSE t : Totals(fs, n, Len(fs), t)
  BY DEF Totals
<1>3. Totals(fs, n, Len(fs), CHOOSE t : Totals(fs, n, Len(fs), t))
  BY TotalsExist
<1>4. QED
  BY <1>1, <1>2, <1>3

\* None behind the last fact, and one more fact takes up its terms.
LEMMA RoomEmpty ==
  ASSUME NEW fs \in Seq(Fact)
  PROVE  RoomOf(fs, Len(fs)) = 0
<1>1. Len(fs) \in Nat /\ Len(fs) \in 0 .. Len(fs)
  BY LenProperties
<1>2. PICK t : Totals(fs, Len(fs), Len(fs), t) /\ RoomOf(fs, Len(fs)) = t[Len(fs)]
  BY <1>1, RoomIs
<1>3. t[Len(fs)] = 0
  BY <1>1, <1>2 DEF Totals
<1>4. QED
  BY <1>2, <1>3

LEMMA RoomTyped ==
  ASSUME NEW fs \in Seq(Fact), NEW n \in 0 .. Len(fs)
  PROVE  RoomOf(fs, n) \in Nat
<1>1. Len(fs) \in Nat /\ n \in Nat /\ n <= Len(fs) /\ Len(fs) \in n .. Len(fs)
  BY LenProperties
<1>2. PICK t : Totals(fs, n, Len(fs), t) /\ RoomOf(fs, n) = t[Len(fs)]
  BY RoomIs
<1>3. \A k \in n .. Len(fs) : t[k] \in Nat
  <2>1. /\ fs \in Seq(Fact) /\ n \in Nat /\ Len(fs) \in Nat
        /\ n <= Len(fs) /\ Len(fs) <= Len(fs)
        /\ (\A k \in 1 .. Len(fs) : fs[k] = fs[k])
        /\ Totals(fs, n, Len(fs), t)
    BY <1>1, <1>2
  <2>2. QED
    BY <2>1, TotalsAgree, Zenon
<1>4. QED
  BY <1>1, <1>2, <1>3

LEMMA RoomGrows ==
  ASSUME NEW fs \in Seq(Fact), NEW n \in 0 .. Len(fs), NEW f \in Fact
  PROVE  RoomOf(Append(fs, f), n) = RoomOf(fs, n) + Len(f.terms)
<1> DEFINE gs == Append(fs, f)
<1>1. /\ gs \in Seq(Fact) /\ Len(gs) = Len(fs) + 1 /\ gs[Len(fs) + 1] = f
      /\ \A k \in 1 .. Len(fs) : fs[k] = gs[k]
  BY AppendProperties
<1>2. Len(fs) \in Nat /\ n \in Nat /\ n <= Len(fs) /\ Len(fs) <= Len(fs) + 1
      /\ n \in 0 .. Len(fs) + 1 /\ Len(fs) \in n .. Len(fs)
      /\ Len(fs) + 1 \in n .. Len(fs) + 1 /\ Len(fs) + 1 # n /\ (Len(fs) + 1) - 1 = Len(fs)
  BY LenProperties
<1> HIDE DEF gs
<1>3. PICK t : Totals(fs, n, Len(fs), t) /\ RoomOf(fs, n) = t[Len(fs)]
  BY RoomIs
<1>4. PICK u : Totals(gs, n, Len(fs) + 1, u) /\ RoomOf(gs, n) = u[Len(fs) + 1]
  BY <1>1, <1>2, RoomIs
<1>5. t[Len(fs)] = u[Len(fs)]
  <2>1. /\ fs \in Seq(Fact) /\ gs \in Seq(Fact) /\ n \in Nat /\ Len(fs) \in Nat
        /\ Len(fs) + 1 \in Nat /\ n <= Len(fs) /\ Len(fs) <= Len(fs) + 1 /\ Len(fs) <= Len(fs)
        /\ (\A k \in 1 .. Len(fs) : fs[k] = gs[k])
        /\ Totals(fs, n, Len(fs), t) /\ Totals(gs, n, Len(fs) + 1, u)
    BY <1>1, <1>2, <1>3, <1>4
  <2>2. \A k \in n .. Len(fs) : t[k] = u[k] /\ t[k] \in Nat
    BY <2>1, TotalsAgree, SMTT(60)
  <2>3. QED
    BY <1>2, <2>2
<1>6. u[Len(fs) + 1] = u[Len(fs)] + Len(f.terms)
  <2>1. u[Len(fs) + 1] = IF Len(fs) + 1 = n THEN 0
                         ELSE u[(Len(fs) + 1) - 1] + Len(gs[Len(fs) + 1].terms)
    BY <1>2, <1>4 DEF Totals
  <2>2. QED
    BY <1>1, <1>2, <2>1
<1>7. QED
  BY <1>3, <1>4, <1>5, <1>6 DEF gs

\* A host that has not asked for a run has no answer.
Unasked == runs = 0 => status = "none" /\ pc = "ran"
Accounting == Returned /\ Unasked /\ TermsAccounted

\* A turn that leaves the facts alone: what is taken changes with the
\* candidate at hand, and the pool with it, or the run is given up.
LEMMA AccountsKept ==
  ASSUME EngineTypeOK, FactsGrow, FactsGrow', Accounting, facts' = facts, world' = world,
         runs' = runs, pc # "ran", status' # "none" => pc' = "ran", terms' \in Nat,
         NEW d \in Nat, NEW e \in Nat,
         d = (IF pc = "dup" THEN Len(candidate.terms) ELSE 0),
         e = (IF pc' = "dup" THEN Len(candidate.terms)' ELSE 0),
         \/ terms' - e = terms - d
         \/ terms' - e >= terms - d /\ status' \notin {"none", "OK"}
  PROVE  Accounting'
<1>1. RoomOf(facts, Loaded) \in Nat /\ RoomOf(facts, Loaded)' = RoomOf(facts, Loaded)
  <2>1. facts \in Seq(Fact) /\ Loaded \in 0 .. Len(facts)
    BY LenProperties
    DEF EngineTypeOK, SolverTypeOK, RunTypeOK, FactsGrow, Loaded, World
  <2>2. Loaded' = Loaded
    BY DEF Loaded
  <2>3. QED
    BY <2>1, <2>2, RoomTyped
<1>2. terms \in Nat /\ runs \in Nat
  BY DEF EngineTypeOK, RunTypeOK
<1>3. status = "none"
  BY DEF Accounting, Returned
<1>4. Taken = RoomOf(facts, Loaded) + d /\ Taken' = RoomOf(facts, Loaded) + e
  BY <1>1 DEF Taken
<1>5. Taken <= terms /\ (runs <= 1 => Taken = terms)
  BY <1>3 DEF Accounting, TermsAccounted
<1>6. Taken' <= terms' /\ (runs' <= 1 /\ status' \in {"none", "OK"} => Taken' = terms')
  BY <1>1, <1>2, <1>4, <1>5
<1>7. QED
  BY <1>6 DEF Accounting, Returned, Unasked, TermsAccounted

LEMMA AccountsStep ==
  ASSUME EngineTypeOK, EngineInv, EngineTypeOK', EngineInv', Accounting, Run \/ RunStep
  PROVE  Accounting'
<1> DEFINE d == IF pc = "dup" THEN Len(candidate.terms) ELSE 0
           e == IF pc' = "dup" THEN Len(candidate.terms)' ELSE 0
<1>1. FactsGrow /\ FactsGrow' /\ terms \in Nat /\ terms' \in Nat
      /\ facts \in Seq(Fact) /\ Loaded \in 0 .. Len(facts) /\ Loaded \in Nat
      /\ candidate \in Fact /\ candidate' \in Fact
  <2>1. FactsGrow /\ FactsGrow' /\ terms \in 0 .. TermCap /\ terms' \in 0 .. TermCap
        /\ facts \in Seq(Fact) /\ world.facts \in Seq(Fact)
        /\ candidate \in Fact /\ candidate' \in Fact
    BY DEF EngineTypeOK, SolverTypeOK, RunTypeOK, EngineInv, World
  <2>2. QED
    BY <2>1, LenProperties, EngineAssumption DEF FactsGrow, Loaded
<1>2. Len(candidate.terms) \in Nat /\ Len(candidate.terms)' \in Nat
  BY <1>1, LenProperties DEF Fact
<1>3. d \in Nat /\ e \in Nat
  BY <1>2
<1>4. world' = world
  BY FactsAppend
<1>5. CASE Run
  <2>1. UNCHANGED <<facts, world, terms, candidate>> /\ pc = "ran" /\ pc' # "dup"
        /\ runs' = runs + 1 /\ status' \in {"none", "NOMEM"}
        /\ (status' # "none" => pc' = "ran")
    BY <1>5 DEF Run, Stop, answerVars
  <2>2. Taken' = Taken
    BY <2>1 DEF Taken, RoomOf, Loaded
  <2>3. Taken <= terms /\ (runs = 0 => Taken = terms)
    BY DEF Accounting, TermsAccounted, Unasked
  <2>4. runs \in Nat
    BY DEF EngineTypeOK, RunTypeOK
  <2>5. TermsAccounted'
    BY <2>1, <2>2, <2>3, <2>4 DEF TermsAccounted
  <2>6. QED
    BY <2>1, <2>4, <2>5 DEF Accounting, Returned, Unasked
<1>6. CASE Learn
  <2>1. /\ facts' = Append(facts, candidate) /\ pc = "dup" /\ pc' = "again"
        /\ UNCHANGED <<terms, status, runs, candidate>>
    BY <1>6 DEF Learn, Scanned, answerVars
  <2>2. Taken' = Taken
    <3>1. RoomOf(facts, Loaded)' = RoomOf(facts, Loaded) + Len(candidate.terms)
      <4>1. RoomOf(facts', Loaded) = RoomOf(facts, Loaded) + Len(candidate.terms)
        BY <1>1, <2>1, RoomGrows
      <4>2. Loaded' = Loaded
        BY <1>4 DEF Loaded
      <4>3. QED
        BY <4>1, <4>2
    <3>2. RoomOf(facts, Loaded) \in Nat
      BY <1>1, RoomTyped
    <3>3. QED
      BY <1>2, <2>1, <3>1, <3>2 DEF Taken
  <2>3. QED
    BY <2>1, <2>2 DEF Accounting, Returned, Unasked, TermsAccounted
<1>7. CASE WalkOn \/ NextAnswer
  <2>1. UNCHANGED <<facts, terms, status, runs>> /\ pc \notin {"ran", "dup"} /\ pc' # "dup"
    BY <1>7, WalkPlacesKept DEF WalkOn, NextAnswer, WalkPlaces, runVars
  <2>2. status' # "none" => pc' = "ran"
    BY <2>1 DEF Accounting, Returned
  <2>3. d = 0 /\ e = 0 /\ terms' - e = terms - d
    BY <1>1, <2>1
  <2>4. QED
    BY <1>1, <1>3, <1>4, <2>1, <2>2, <2>3, AccountsKept
<1>8. CASE SkipQuery \/ ApplyRule \/ RuleDone \/ EndRound \/ WalkLimit \/ Consider
           \/ TestLimit \/ TestBreaks \/ TestDecides \/ NoTermLeft
  <2>1. UNCHANGED <<facts, terms, runs>> /\ pc \notin {"ran", "dup"} /\ pc' # "dup"
        /\ (status' = status \/ pc' = "ran")
    <3>1. CASE SkipQuery \/ RuleDone \/ EndRound \/ WalkLimit \/ Consider
      BY <3>1 DEF SkipQuery, RuleDone, EndRound, WalkLimit, Consider, Stop, walkVars, runVars
    <3>2. CASE ApplyRule
      BY <3>2 DEF ApplyRule, BeginWalk
    <3>3. CASE TestLimit \/ TestBreaks \/ TestDecides \/ NoTermLeft
      BY <3>3 DEF TestLimit, TestBreaks, TestDecides, NoTermLeft, Testing, Instantiating, Stop,
                  runVars
    <3>4. QED
      BY <1>8, <3>1, <3>2, <3>3
  <2>2. status' # "none" => pc' = "ran"
    BY <2>1 DEF Accounting, Returned
  <2>3. d = 0 /\ e = 0 /\ terms' - e = terms - d
    BY <1>1, <2>1
  <2>4. QED
    BY <1>1, <1>3, <1>4, <2>1, <2>2, <2>3, AccountsKept
<1>9. CASE Instantiate
  <2>1. /\ UNCHANGED <<facts, runs, status>> /\ pc = "test" /\ pc' = "dup"
        /\ terms' = terms + Len(rule.head.terms) /\ candidate' = Instance
    BY <1>9 DEF Instantiate, Instantiating, runVars
  <2>2. Len(candidate'.terms) = Len(rule.head.terms)
    <3>1. SolverTypeOK /\ WalkInv /\ level = Len(rule.body) /\ ~Hole
      BY <1>9 DEF Instantiate, Instantiating, EngineTypeOK, EngineInv, Applying, AtAnswer
    <3>2. QED
      BY <2>1, <3>1, InstanceTyped
  <2>3. d = 0 /\ e = Len(rule.head.terms) /\ terms' - e = terms - d
    BY <1>1, <1>2, <2>1, <2>2
  <2>4. status' # "none" => pc' = "ran"
    BY <2>1 DEF Accounting, Returned
  <2>5. QED
    BY <1>1, <1>3, <1>4, <2>1, <2>3, <2>4, AccountsKept
<1>10. CASE HeadUnbound
  <2>1. /\ UNCHANGED <<facts, runs>> /\ pc = "test" /\ pc' = "ran" /\ status' = "UNBOUND"
        /\ terms' = terms + Len(rule.head.terms)
    BY <1>10 DEF HeadUnbound, Instantiating, Stop, runVars
  <2>2. Len(rule.head.terms) \in Nat
    BY LenProperties DEF EngineTypeOK, SolverTypeOK, Rule, Predicate
  <2>3. d = 0 /\ e = 0 /\ terms' - e >= terms - d
    BY <1>1, <2>1, <2>2
  <2>4. QED
    BY <1>1, <1>3, <1>4, <2>1, <2>3, AccountsKept
<1>11. CASE ScanOn
  <2>1. UNCHANGED <<facts, runs, status, terms, candidate>> /\ pc = "dup" /\ pc' = "dup"
    BY <1>11 DEF ScanOn, Scanning, runVars
  <2>2. d = e /\ terms' - e = terms - d
    BY <1>1, <2>1
  <2>3. status' # "none" => pc' = "ran"
    BY <2>1 DEF Accounting, Returned
  <2>4. QED
    BY <1>1, <1>3, <1>4, <2>1, <2>2, <2>3, AccountsKept
<1>12. CASE Known
  <2>1. /\ UNCHANGED <<facts, runs, candidate>> /\ pc = "dup" /\ pc' \in {"ran", "again"}
        /\ \/ status' = "LIMIT" /\ pc' = "ran" /\ terms' = terms
           \/ status' = status /\ terms' = terms - Len(candidate.terms)
    BY <1>12 DEF Known, Scanning, Stop, runVars, answerVars
  <2>2. d = Len(candidate.terms) /\ e = 0
    BY <2>1
  <2>3. status' # "none" => pc' = "ran"
    BY <2>1 DEF Accounting, Returned
  <2>4. \/ terms' - e = terms - d
        \/ terms' - e >= terms - d /\ status' \notin {"none", "OK"}
    BY <1>1, <1>2, <2>1, <2>2
  <2>5. QED
    BY <1>1, <1>3, <1>4, <2>1, <2>3, <2>4, AccountsKept
<1>13. CASE CannotLearn
  <2>1. /\ UNCHANGED <<facts, runs, terms>> /\ pc = "dup" /\ pc' = "ran"
        /\ status' \in {"LIMIT", "NOMEM"}
    BY <1>13 DEF CannotLearn, Scanned, Stop, runVars
  <2>2. e = 0 /\ terms' - e >= terms - d
    BY <1>1, <1>3, <2>1
  <2>3. QED
    BY <1>1, <1>3, <1>4, <2>1, <2>2, AccountsKept
<1>14. QED
  BY <1>5, <1>6, <1>7, <1>8, <1>9, <1>10, <1>11, <1>12, <1>13 DEF RunStep

\* The terms of a candidate go back whenever it is dropped: whatever the
\* world and however a run ends, every derived fact has terms of its own, and
\* a first run that is not given up keeps none besides, so repeated answers
\* cost a world no memory (130_engine.inc:337-365).
THEOREM EngineAccounts == EngineSpec => []TermsAccounted
<1>1. EngineInit => Accounting
  <2>1. ASSUME EngineInit PROVE Accounting
    <3>1. /\ facts = world.facts /\ terms = 0 /\ pc = "ran" /\ status = "none" /\ runs = 0
          /\ facts \in Seq(Fact)
      BY <2>1, EngineAssumption DEF EngineInit, EngineStart, World
    <3>2. Taken = 0
      BY <3>1, RoomEmpty DEF Taken, Loaded
    <3>3. QED
      BY <3>1, <3>2 DEF Accounting, Returned, Unasked, TermsAccounted
  <2>2. QED
    BY <2>1
<1>2. /\ EngineTypeOK /\ EngineInv /\ EngineTypeOK' /\ EngineInv' /\ Accounting
      /\ [EngineNext]_engineVars
      => Accounting'
  <2>1. ASSUME EngineTypeOK, EngineInv, EngineTypeOK', EngineInv', Accounting,
               Ran \/ UNCHANGED engineVars
        PROVE  Accounting'
    <3>1. UNCHANGED <<facts, world, terms, candidate, pc, status, runs>>
      BY <2>1 DEF Ran, engineVars, walkVars, solverVars, runVars, answerVars
    <3>2. QED
      BY <2>1, <3>1 DEF Accounting, Returned, Unasked, TermsAccounted, Taken, RoomOf, Loaded
  <2>2. QED
    BY <2>1, AccountsStep DEF EngineNext
<1>3. Accounting => TermsAccounted
  BY DEF Accounting
<1>4. QED
  BY <1>1, <1>2, <1>3, EngineInvariant, PTL DEF EngineSpec

-----------------------------------------------------------------------------
(* What stems from some blocks is theirs alone.                            *)

\* C holds what the blocks of T state, and everything their rules conclude
\* from what is in C without another block's help.
ClosedFor(T, C) ==
  /\ \A k \in DOMAIN world.facts : world.facts[k].origin \subseteq T => world.facts[k] \in C
  /\ \A n \in DOMAIN world.rules :
       /\ ~world.rules[n].is_query
       /\ world.rules[n].block \in T
       => \A fs \in Seq(C) : \A f \in Consequences(world.rules[n], fs) :
            f.origin \subseteq T => f \in C

\* The facts that stem from T alone are in C.
StaysIn(T, C) == \A k \in DOMAIN facts : facts[k].origin \subseteq T => facts[k] \in C

\* A conclusion needs no fact but those it came from, and carries the blocks
\* of all of them and of its rule.
LEMMA OnlyMatched ==
  ASSUME NEW r \in Rule, NEW fs \in Seq(Fact), NEW f \in Consequences(r, fs), NEW C,
         \A k \in DOMAIN fs : fs[k].origin \subseteq f.origin => fs[k] \in C
  PROVE  /\ r.block \in f.origin
         /\ \E gs \in Seq(C) : f \in Consequences(r, gs)
<1>1. PICK t \in Tuples(r, fs), s \in [Var -> Term] :
        /\ Explains(r, fs, t, s)
        /\ \A k \in DOMAIN r.expr : Holds(r.expr[k], s)
        /\ f = Concludes(r, fs, t, s)
  BY DEF Consequences
<1>2. PICK n \in Nat : n = Len(r.body) /\ DOMAIN r.body = 1 .. n
  BY LenProperties DEF Rule
<1>3. t \in [1 .. n -> DOMAIN fs] /\ DOMAIN t = 1 .. n
  BY <1>1, <1>2 DEF Tuples
<1>4. f.origin = OriginOf(r, fs, t)
  BY <1>1 DEF Concludes
<1>5. r.block \in f.origin /\ \A i \in 1 .. n : fs[t[i]].origin \subseteq f.origin
  BY <1>3, <1>4 DEF OriginOf
<1> DEFINE gs == [i \in 1 .. n |-> fs[t[i]]]
           u == [i \in 1 .. n |-> i]
<1>6. gs \in Seq(C) /\ DOMAIN gs = 1 .. n
  <2>1. \A i \in 1 .. n : fs[t[i]] \in C
    BY <1>3, <1>5
  <2>2. QED
    BY <1>2, <2>1, IsASeq
<1>7. u \in Tuples(r, gs)
  BY <1>2, <1>6 DEF Tuples
<1>8. \A i \in 1 .. n : gs[u[i]] = fs[t[i]]
  OBVIOUS
<1>9. OriginOf(r, gs, u) = OriginOf(r, fs, t)
  <2>1. {gs[u[i]].origin : i \in DOMAIN u} = {fs[t[i]].origin : i \in DOMAIN t}
    BY <1>3, <1>8
  <2>2. QED
    BY <2>1 DEF OriginOf
<1> HIDE DEF gs, u
<1>10. Explains(r, gs, u, s)
  <2>1. \A i \in DOMAIN r.body : /\ fs[t[i]].origin \ r.trust = {}
                                 /\ States(r.body[i], fs[t[i]], s)
    BY <1>1 DEF Explains
  <2>2. QED
    BY <1>2, <1>8, <2>1 DEF Explains
<1>11. f = Concludes(r, gs, u, s)
  BY <1>1, <1>9 DEF Concludes
<1>12. f \in Consequences(r, gs)
  BY <1>1, <1>7, <1>10, <1>11 DEF Consequences
<1>13. QED
  BY <1>5, <1>6, <1>12

LEMMA StaysInStep ==
  ASSUME NEW T, NEW C, EngineTypeOK, EngineInv,
         ClosedFor(T, C) => StaysIn(T, C), [EngineNext]_engineVars
  PROVE  (ClosedFor(T, C) => StaysIn(T, C))'
<1>0. facts \in Seq(Fact) /\ Len(facts) \in Nat /\ DOMAIN facts = 1 .. Len(facts)
  BY LenProperties DEF EngineTypeOK, RunTypeOK, SolverTypeOK
<1>1. world' = world
  <2>1. CASE Run \/ RunStep
    BY <2>1, FactsAppend
  <2>2. CASE Ran \/ UNCHANGED engineVars
    BY <2>2 DEF Ran, engineVars
  <2>3. QED
    BY <2>1, <2>2 DEF EngineNext
<1>2. ClosedFor(T, C)' <=> ClosedFor(T, C)
  BY <1>1 DEF ClosedFor
<1>3. CASE Learn
  <2> SUFFICES ASSUME ClosedFor(T, C), StaysIn(T, C) PROVE StaysIn(T, C)'
    BY <1>2
  <2>1. /\ facts' = Append(facts, candidate) /\ candidate \in Fact
        /\ Concluded(candidate, facts)
    BY <1>3 DEF Learn, Scanned, EngineInv, Candidacy, EngineTypeOK, RunTypeOK
  <2>2. /\ DOMAIN facts' = 1 .. Len(facts) + 1
        /\ \A k \in 1 .. Len(facts) : facts'[k] = facts[k]
        /\ facts'[Len(facts) + 1] = candidate
    <3>1. /\ facts' \in Seq(Fact) /\ Len(facts') = Len(facts) + 1
          /\ \A k \in 1 .. Len(facts) : facts'[k] = facts[k]
          /\ facts'[Len(facts) + 1] = candidate
      BY <1>0, <2>1, AppendProperties
    <3>2. QED
      BY <3>1, LenProperties
  <2>3. ASSUME candidate.origin \subseteq T PROVE candidate \in C
    <3>1. PICK n \in DOMAIN world.rules :
            /\ ~world.rules[n].is_query
            /\ candidate \in Consequences(world.rules[n], facts)
      BY <2>1 DEF Concluded
    <3>2. world.rules[n] \in Rule
      BY <3>1, ElementOfSeq, LenProperties DEF EngineTypeOK, RunTypeOK, World
    <3>3. \A k \in DOMAIN facts : facts[k].origin \subseteq candidate.origin => facts[k] \in C
      BY <2>3 DEF StaysIn
    <3>4. /\ world.rules[n].block \in candidate.origin
          /\ \E gs \in Seq(C) : candidate \in Consequences(world.rules[n], gs)
      BY <1>0, <3>1, <3>2, <3>3, OnlyMatched
    <3>5. QED
      BY <2>3, <3>1, <3>4 DEF ClosedFor
  <2>4. ASSUME NEW k \in 1 .. Len(facts) + 1, facts'[k].origin \subseteq T
        PROVE  facts'[k] \in C
    <3>1. CASE k \in 1 .. Len(facts)
      BY <1>0, <2>2, <2>4, <3>1 DEF StaysIn
    <3>2. CASE k = Len(facts) + 1
      BY <2>2, <2>3, <2>4, <3>2
    <3>3. QED
      BY <1>0, <3>1, <3>2
  <2>5. QED
    BY <2>2, <2>4 DEF StaysIn
<1>4. CASE ~Learn
  <2>1. facts' = facts
    <3>1. CASE Run \/ RunStep
      BY <1>4, <3>1, FactsAppend
    <3>2. CASE Ran \/ UNCHANGED engineVars
      BY <3>2 DEF Ran, engineVars, walkVars
    <3>3. QED
      BY <3>1, <3>2 DEF EngineNext
  <2>2. QED
    BY <1>2, <2>1 DEF StaysIn
<1>5. QED
  BY <1>3, <1>4

\* No block can add to what stems from others.  Whatever blocks T one looks
\* at, and whatever set C holds their facts and is closed under their rules,
\* a run of the whole world derives nothing from T alone that is not in C:
\* the facts and rules of every other block, an appended one above all, make
\* no difference (130_engine.inc:9-15, "the whole mechanism that stops an
\* appended block from granting itself rights").
THEOREM EngineAttenuation ==
  ASSUME NEW CONSTANT T, NEW CONSTANT C
  PROVE  EngineSpec => [](ClosedFor(T, C) => StaysIn(T, C))
<1>1. EngineInit => (ClosedFor(T, C) => StaysIn(T, C))
  <2>1. EngineInit => facts = world.facts
    BY DEF EngineInit, EngineStart
  <2>2. QED
    BY <2>1 DEF ClosedFor, StaysIn
<1>2. EngineTypeOK /\ EngineInv /\ (ClosedFor(T, C) => StaysIn(T, C)) /\ [EngineNext]_engineVars
        => (ClosedFor(T, C) => StaysIn(T, C))'
  BY StaysInStep
<1>3. QED
  BY <1>1, <1>2, EngineInvariant, PTL DEF EngineSpec

-----------------------------------------------------------------------------
(* What an answer concludes: under any substitution that explains it, one  *)
(* and the same fact.                                                      *)

\* The bindings of an answer are forced: whatever explains its facts gives
\* every bound variable the value it has.
LEMMA ChoiceForces ==
  ASSUME SolverTypeOK, WalkInv, BindsSourced, level = Len(rule.body),
         NEW s, Explains(rule, facts, Choice, s),
         NEW t \in Term, ~Missing(t)
  PROVE  Resolved(t) = Under(t, s)
<1>1. CASE t \notin Var
  BY <1>1 DEF Resolved, Under
<1>2. CASE t \in Var
  <2>1. PICK k \in DOMAIN binds : binds[k].sym = t
    BY <1>2 DEF Missing, IsBound
  <2>2. ValueOf(t, binds) = binds[k].value
    <3>1. \A i, j \in DOMAIN binds : binds[i].sym = binds[j].sym => i = j
      BY DEF WalkInv, BindsDistinct
    <3>2. QED
      BY <2>1, <3>1, ValueOfBinding DEF SolverTypeOK
  <2>3. Choice \in Combinations /\ AgreesBelow(Choice, level) /\ level \in Nat
    <3>1. /\ DOMAIN rule.body = 1 .. level /\ level \in Nat
      BY BodyTyped DEF SolverTypeOK
    <3>2. ASSUME NEW i \in DOMAIN rule.body PROVE frames[i - 1].fact \in 1 .. base
      <4>1. i - 1 \in 0 .. level - 1
        BY <3>1
      <4>2. QED
        BY <4>1, ChosenBelow
    <3>3. Choice \in Combinations
      BY <3>2 DEF Choice, Combinations
    <3>4. QED
      BY <3>1, <3>3, ChoiceAgrees
  <2>4. Sourced(k, level)
    BY DEF BindsSourced
  <2>5. s[binds[k].sym] = binds[k].value
    BY <2>3, <2>4, BindingForced
  <2>6. QED
    BY <1>2, <2>1, <2>2, <2>5 DEF Resolved, Under
<1>3. QED
  BY <1>1, <1>2

\* An expression that is decided against the answer holds under none of them.
LEMMA FailingConcludesNothing ==
  ASSUME SolverTypeOK, WalkInv, BindsSourced, level = Len(rule.body),
         NEW e \in Test, ~Breaks(e), ~Passes(e),
         NEW s, Explains(rule, facts, Choice, s)
  PROVE  ~Holds(e, s)
<1>1. /\ e.left \in Term /\ e.right \in Term
      /\ e.op \in {"equal", "unequal", "overflow"}
  BY DEF Test
<1>2. ~Missing(e.left) /\ ~Missing(e.right) /\ e.op # "overflow"
  BY DEF Breaks, Evaluable, Clashes
<1>3. Resolved(e.left) = Under(e.left, s) /\ Resolved(e.right) = Under(e.right, s)
  BY <1>1, <1>2, ChoiceForces
<1>4. QED
  BY <1>1, <1>2, <1>3 DEF Passes, Holds

\* A head without a hole gives the same fact under all of them.
LEMMA OneConclusion ==
  ASSUME SolverTypeOK, WalkInv, BindsSourced, level = Len(rule.body), ~Hole,
         NEW s, Explains(rule, facts, Choice, s)
  PROVE  Concludes(rule, facts, Choice, s) = Instance
<1>1. SolverOrigin = OriginOf(rule, facts, Choice)
  BY FullLevelsSound DEF AnswerSound
<1>2. rule.head.terms \in Seq(Term)
  BY DEF SolverTypeOK, Rule, Predicate
<1>3. ASSUME NEW i \in DOMAIN rule.head.terms
      PROVE  Resolved(rule.head.terms[i]) = Under(rule.head.terms[i], s)
  <2>1. rule.head.terms[i] \in Term
    BY <1>2, <1>3, ElementOfSeq, LenProperties
  <2>2. ~Missing(rule.head.terms[i])
    BY <1>3 DEF Hole
  <2>3. QED
    BY <2>1, <2>2, ChoiceForces
<1>4. Ground(rule.head.terms, s) = [i \in DOMAIN rule.head.terms |-> Resolved(rule.head.terms[i])]
  BY <1>3 DEF Ground
<1>5. QED
  BY <1>1, <1>4 DEF Concludes, Instance

-----------------------------------------------------------------------------
(* What a round that has added nothing has shown.                          *)

\* When the walk is done, what its answers conclude is all the rule does.
LEMMA WalkShowsRule ==
  ASSUME SolverTypeOK, base = Len(facts), AnswersAll,
         \A t \in Answered : ConclusionsKnown(t)
  PROVE  AllKnown(rule)
<1>1. Combinations = Tuples(rule, facts)
  BY LenProperties DEF Combinations, Tuples, SolverTypeOK
<1>2. SUFFICES ASSUME NEW f \in Consequences(rule, facts)
               PROVE  \E k \in DOMAIN facts : facts[k] = f
  BY DEF AllKnown
<1>3. PICK t \in Tuples(rule, facts), s \in [Var -> Term] :
        /\ Explains(rule, facts, t, s)
        /\ \A k \in DOMAIN rule.expr : Holds(rule.expr[k], s)
        /\ f = Concludes(rule, facts, t, s)
  BY DEF Consequences
<1>4. IsMatch(rule, facts, t)
  BY <1>3 DEF IsMatch
<1>5. t \in Answered
  BY <1>1, <1>3, <1>4 DEF AnswersAll
<1>6. QED
  BY <1>3, <1>5 DEF ConclusionsKnown

\* A rule no fact has been added to stays shown.
LEMMA ShownKept ==
  ASSUME UNCHANGED facts
  PROVE  /\ \A r : AllKnown(r) => AllKnown(r)'
         /\ UNCHANGED rule => \A t : ConclusionsKnown(t) => ConclusionsKnown(t)'
BY DEF AllKnown, ConclusionsKnown

\* What the walk begins with.
AtStart == /\ SolverTypeOK
           /\ level = 0 /\ binds = <<>> /\ answers = <<>>
           /\ frames[0].fact = 1 /\ frames[0].bind_mark = 0
           /\ pc = "walk"

Exact == BindsSourced /\ AnswersPassed(FALSE)

LEMMA StartsExact == AtStart' => Exact'
<1>1. AtStart => Exact
  BY WalkBeginsExact DEF AtStart, Exact
<1>2. QED
  BY <1>1, PTL

LEMMA WalkBegunExact ==
  ASSUME SolverTypeOK, NEW r \in Rule, Len(r.body) <= MaxBody, BeginWalk(r),
         UNCHANGED <<facts, steps>>
  PROVE  /\ pc' = "walk" /\ rule' = r /\ base' = Len(facts) /\ answers' = <<>>
         /\ BindsSourced' /\ AnswersPassed(FALSE)'
<1>1. ~(Len(r.body) > MaxBody)
  BY LenProperties DEF Rule
<1>2. /\ pc' = "walk" /\ rule' = r /\ base' = Len(facts) /\ level' = 0
      /\ binds' = <<>> /\ answers' = <<>>
      /\ frames' = [frames EXCEPT ![0] =
                      [fact |-> 1, bind_mark |-> 0, origin |-> {r.block}]]
  BY <1>1 DEF BeginWalk
<1>3. frames'[0].fact = 1 /\ frames'[0].bind_mark = 0
  BY <1>2 DEF SolverTypeOK
<1>4. SolverTypeOK'
  BY WalkBegun
<1>5. AtStart'
  BY <1>2, <1>3, <1>4 DEF AtStart
<1>6. QED
  BY <1>2, <1>5, StartsExact DEF Exact

-----------------------------------------------------------------------------
(* A round, step by step.                                                  *)

\* As long as a walk goes on, only what it shows can change.
LEMMA RoundKept ==
  ASSUME RoundSoFar, InWalk, InWalk',
         UNCHANGED <<facts, world, next, produced, rule, base>>,
         produced = 0 => /\ BindsSourced' /\ NoneMissed'
                         /\ (\A t \in DealtWith : ConclusionsKnown(t))'
                         /\ (pc = "dup" => ~Hole /\ candidate = Instance)'
  PROVE  RoundSoFar'
<1> SUFFICES ASSUME produced = 0 PROVE RoundSoFar'
  BY DEF RoundSoFar
<1>1. pc \notin {"ran", "limit"}
  BY DEF InWalk, AtAnswer
<1>2. \A n \in 1 .. next' - 1 :
        /\ n \in DOMAIN world'.rules
        /\ ~world'.rules[n].is_query
        /\ FewVariables(world'.rules[n])
        /\ n # next' - 1
        => AllKnown(world.rules[n])'
  <2>1. \A n \in 1 .. next - 1 :
          /\ n \in DOMAIN world.rules
          /\ ~world.rules[n].is_query
          /\ FewVariables(world.rules[n])
          /\ n # next - 1
          => AllKnown(world.rules[n])
    BY <1>1 DEF RoundSoFar
  <2>2. \A n : AllKnown(world.rules[n])' <=> AllKnown(world.rules[n])
    BY DEF AllKnown
  <2>3. QED
    BY <2>1, <2>2
<1>3. next - 1 \in DOMAIN world.rules /\ rule = world.rules[next - 1] /\ base = Len(facts)
  BY <1>1 DEF RoundSoFar
<1>4. QED
  BY <1>2, <1>3 DEF RoundSoFar, FewVariables, VarsOf

\* Without a walk, what the rules have shown is all there is.
LEMMA RoundBetween ==
  ASSUME pc' \notin {"ran", "limit"} => ~InWalk', pc' # "dup",
         produced' = 0 /\ pc' \notin {"ran", "limit"} =>
           \A n \in 1 .. next' - 1 :
             /\ n \in DOMAIN world'.rules
             /\ ~world'.rules[n].is_query
             /\ FewVariables(world'.rules[n])
             => AllKnown(world.rules[n])'
  PROVE  RoundSoFar'
BY DEF RoundSoFar, FewVariables, VarsOf

\* Between rules.
LEMMA RoundOfRules ==
  ASSUME EngineTypeOK, EngineInv, RoundSoFar,
         Run \/ SkipQuery \/ RuleDone \/ EndRound
  PROVE  RoundSoFar'
<1>0. next \in Nat \ {0}
  BY DEF EngineTypeOK, RunTypeOK
<1>1. CASE Run \/ EndRound
  <2>1. pc' = "ran" \/ (pc' = "next" /\ next' = 1)
    BY <1>1 DEF Run, EndRound, Stop
  <2>2. CASE pc' = "ran"
    BY <2>2, RoundBetween
  <2>3. CASE pc' = "next" /\ next' = 1
    <3>1. ~InWalk'
      BY <2>3 DEF InWalk, AtAnswer
    <3>2. 1 .. next' - 1 = {}
      BY <2>3
    <3>3. QED
      BY <2>3, <3>1, <3>2, RoundBetween
  <2>4. QED
    BY <2>1, <2>2, <2>3
<1>2. CASE SkipQuery
  <2>1. /\ pc = "next" /\ pc' = "next" /\ next' = next + 1 /\ produced' = produced
        /\ world.rules[next].is_query /\ UNCHANGED <<facts, world>>
    BY <1>2 DEF SkipQuery, walkVars
  <2>2. ~InWalk /\ ~InWalk'
    BY <2>1 DEF InWalk, AtAnswer
  <2>3. ASSUME produced' = 0, NEW n \in 1 .. next' - 1,
               n \in DOMAIN world'.rules, ~world'.rules[n].is_query,
               FewVariables(world'.rules[n])
        PROVE  AllKnown(world.rules[n])'
    <3>1. n \in 1 .. next - 1
      BY <1>0, <2>1, <2>3
    <3>2. AllKnown(world.rules[n])
      BY <2>1, <2>2, <2>3, <3>1 DEF RoundSoFar
    <3>3. QED
      BY <2>1, <3>2 DEF AllKnown
  <2>4. QED
    BY <2>1, <2>2, <2>3, RoundBetween
<1>3. CASE RuleDone
  <2>1. /\ pc = "done" /\ pc' = "next" /\ next' = next /\ produced' = produced
        /\ UNCHANGED <<facts, world, rule>>
    BY <1>3 DEF RuleDone, solverVars, runVars
  <2>2. InWalk /\ ~InWalk'
    BY <2>1 DEF InWalk, AtAnswer
  <2>3. ASSUME produced = 0, FewVariables(rule)
        PROVE  AllKnown(rule)
    <3>1. /\ base = Len(facts) /\ AnswersAll
          /\ \A t \in Answered : ConclusionsKnown(t)
      BY <2>1, <2>2, <2>3 DEF RoundSoFar, NoneMissed, DealtWith
    <3>2. QED
      BY <3>1, WalkShowsRule DEF EngineTypeOK, RunTypeOK
  <2>4. ASSUME produced' = 0, NEW n \in 1 .. next' - 1,
               n \in DOMAIN world'.rules, ~world'.rules[n].is_query,
               FewVariables(world'.rules[n])
        PROVE  AllKnown(world.rules[n])'
    <3>1. AllKnown(world.rules[n])
      <4>1. CASE n # next - 1
        BY <2>1, <2>2, <2>4, <4>1 DEF RoundSoFar
      <4>2. CASE n = next - 1
        <5>1. rule = world.rules[n]
          BY <2>1, <2>2, <2>4, <4>2 DEF RoundSoFar
        <5>2. QED
          BY <2>1, <2>3, <2>4, <5>1
      <4>3. QED
        BY <4>1, <4>2
    <3>2. QED
      BY <2>1, <3>1 DEF AllKnown
  <2>5. QED
    BY <2>1, <2>2, <2>4, RoundBetween
<1>4. QED
  BY <1>1, <1>2, <1>3

\* A rule's walk begins on the facts the round began with, all of them.
LEMMA RoundApplies ==
  ASSUME EngineTypeOK, EngineInv, RoundSoFar, ApplyRule
  PROVE  RoundSoFar'
<1>1. /\ pc = "next" /\ next' = next + 1 /\ UNCHANGED <<facts, steps, world, produced>>
      /\ next \in Nat \ {0} /\ BeginWalk(world.rules[next]) /\ next <= Len(world.rules)
  BY DEF ApplyRule, EngineTypeOK, RunTypeOK
<1>2. world.rules[next] \in Rule /\ next \in DOMAIN world.rules
  BY <1>1, NextRuleTyped DEF EngineTypeOK, RunTypeOK
<1>3. PICK r \in Rule : r = world.rules[next]
  BY <1>2
<1>4. CASE Len(r.body) > MaxBody
  <2>1. pc' = "limit"
    BY <1>1, <1>3, <1>4 DEF BeginWalk
  <2>2. QED
    BY <2>1 DEF RoundSoFar
<1>5. CASE ~(Len(r.body) > MaxBody)
  <2>1. Len(r.body) <= MaxBody
    BY <1>5, LenProperties DEF Rule
  <2>2. /\ pc' = "walk" /\ rule' = r /\ base' = Len(facts) /\ answers' = <<>>
        /\ BindsSourced' /\ AnswersPassed(FALSE)'
    BY <1>1, <1>3, <2>1, WalkBegunExact DEF EngineTypeOK, RunTypeOK
  <2>3. InWalk' /\ ~InWalk /\ ~AtAnswer'
    BY <1>1, <2>2 DEF InWalk, AtAnswer
  <2>4. NoneMissed'
    BY <2>2, <2>3 DEF NoneMissed
  <2>5. (\A t \in DealtWith : ConclusionsKnown(t))'
    <3>1. Answered' = {}
      BY <2>2 DEF Answered
    <3>2. QED
      BY <3>1 DEF DealtWith
  <2>6. ASSUME produced' = 0, NEW n \in 1 .. next' - 1,
               n \in DOMAIN world'.rules, ~world'.rules[n].is_query,
               FewVariables(world'.rules[n]), n # next' - 1
        PROVE  AllKnown(world.rules[n])'
    <3>1. n \in 1 .. next - 1
      BY <1>1, <2>6
    <3>2. AllKnown(world.rules[n])
      BY <1>1, <2>3, <2>6, <3>1 DEF RoundSoFar
    <3>3. QED
      BY <1>1, <3>2 DEF AllKnown
  <2>7. next' - 1 = next
    BY <1>1
  <2>8. QED
    BY <1>1, <1>2, <1>3, <2>2, <2>3, <2>4, <2>5, <2>6, <2>7
    DEF RoundSoFar, FewVariables, VarsOf
<1>6. QED
  BY <1>4, <1>5

\* A turn of the walk, or the next answer asked for.
\* A walk that misses nothing goes on missing nothing, and each of its turns
\* gives one answer at most, the choice it then sits on.
LEMMA NoneMissedOn ==
  ASSUME SolverTypeOK, WalkInv, BindsSourced, NoneMissed, pc' # "limit",
         SolverStep \/ (AtAnswer /\ level = Len(rule.body) /\ AskAgain)
  PROVE  BindsSourced' /\ NoneMissed'
<1>1. BindsSourced'
  BY StepSourced
<1>2. /\ pc' \in WalkPlaces /\ UNCHANGED <<rule, facts>>
      /\ SolverStep => pc \in {"walk", "unify"}
  BY WalkPlacesKept
<1>3. FewVariables(rule)' <=> FewVariables(rule)
  BY <1>2 DEF FewVariables, VarsOf
<1> SUFFICES ASSUME FewVariables(rule)
             PROVE  /\ pc' \in {"walk", "unify"} => AnswersPassed(FALSE)'
                    /\ pc' = "found" => AnswersPassed(TRUE)'
                    /\ pc' = "done" => AnswersAll'
  BY <1>1, <1>2, <1>3 DEF NoneMissed, AtAnswer, WalkPlaces
<1>4. CASE SolverStep
  <2>1. AnswersPassed(FALSE)
    BY <1>2, <1>4 DEF NoneMissed
  <2>2. QED
    BY <1>4, <2>1, StepExact
<1>5. CASE AtAnswer /\ level = Len(rule.body) /\ AskAgain
  <2>1. AnswersPassed(TRUE)
    BY <1>5 DEF NoneMissed
  <2>2. /\ pc' = "walk" => AnswersPassed(FALSE)'
        /\ pc' = "done" => AnswersAll'
        /\ pc' \in {"walk", "done"}
    BY <1>5, <2>1, AskExact
  <2>3. QED
    BY <2>2
<1>6. QED
  BY <1>4, <1>5

LEMMA OneAnswer ==
  ASSUME SolverTypeOK, WalkInv, SolverStep \/ AskAgain
  PROVE  /\ base' = base
         /\ Answer => pc' = "found" /\ Choice' = Choice /\ Answered' = Answered \cup {Choice}
         /\ ~Answer => pc' # "found" /\ Answered' = Answered
<1>1. CASE Answer
  <2>1. /\ pc' = "found" /\ answers' = Append(answers, Choice)
        /\ UNCHANGED <<rule, frames, base>>
    BY <1>1 DEF Answer, Choice
  <2>2. Choice' = Choice
    BY <2>1 DEF Choice
  <2>3. answers \in Seq(Seq(Nat)) /\ answers' \in Seq(Seq(Nat))
    BY StepTyped DEF SolverTypeOK
  <2>4. /\ DOMAIN answers' = 1 .. Len(answers) + 1 /\ Len(answers) \in Nat
        /\ DOMAIN answers = 1 .. Len(answers)
        /\ answers'[Len(answers) + 1] = Choice
        /\ \A k \in 1 .. Len(answers) : answers'[k] = answers[k]
    BY <2>1, <2>3, LenProperties
  <2>5. ASSUME NEW k \in DOMAIN answers' PROVE answers'[k] \in Answered \cup {Choice}
    BY <2>4 DEF Answered
  <2>6. ASSUME NEW k \in DOMAIN answers PROVE answers[k] \in Answered'
    <3>1. k \in DOMAIN answers' /\ answers'[k] = answers[k]
      BY <2>4
    <3>2. QED
      BY <3>1 DEF Answered
  <2>7. Choice \in Answered'
    <3>1. Len(answers) + 1 \in DOMAIN answers'
      BY <2>4
    <3>2. QED
      BY <2>4, <3>1 DEF Answered
  <2>8. Answered' = Answered \cup {Choice}
    BY <2>5, <2>6, <2>7 DEF Answered
  <2>9. QED
    BY <1>1, <2>1, <2>2, <2>8
<1>2. CASE ~Answer
  BY <1>2 DEF SolverStep, Backtrack, OutOfSteps, PassOver, Try, ArgumentAgrees,
     BindVariable, UnifyFails, Choose, NextCandidate, solverVars, AskAgain, Answered,
     Searching, Unifying
<1>3. QED
  BY <1>1, <1>2

LEMMA NoneMissedKept ==
  ASSUME NoneMissed, AtAnswer, AtAnswer',
         UNCHANGED <<facts, rule, base, level, frames, answers>>
  PROVE  NoneMissed'
<1>1. FewVariables(rule)' <=> FewVariables(rule)
  BY DEF FewVariables, VarsOf
<1>2. AnswersPassed(TRUE) => AnswersPassed(TRUE)'
  <2> SUFFICES ASSUME AnswersPassed(TRUE) PROVE AnswersPassed(TRUE)'
    OBVIOUS
  <2>1. \A t : Passed(t)' <=> Passed(t)
    BY DEF Passed, PassedAt, AgreesBelow
  <2>2. Choice' = Choice
    BY DEF Choice
  <2>3. QED
    BY <2>1, <2>2, AnswersKept
<1>3. pc' \notin {"walk", "unify", "done"}
  BY DEF AtAnswer
<1>4. QED
  BY <1>1, <1>2, <1>3 DEF NoneMissed

LEMMA RoundWalks ==
  ASSUME EngineTypeOK, EngineInv, RoundSoFar, WalkOn \/ NextAnswer
  PROVE  RoundSoFar'
<1>0. SolverTypeOK /\ WalkInv /\ Applying
  BY DEF EngineTypeOK, RunTypeOK, EngineInv
<1>1. /\ pc' \in WalkPlaces /\ UNCHANGED <<rule, facts, world, next, produced>>
      /\ pc \in {"walk", "unify", "again"}
      /\ SolverStep \/ AskAgain
      /\ SolverStep => pc \in {"walk", "unify"}
  BY WalkPlacesKept DEF WalkOn, NextAnswer, runVars
<1>2. /\ base' = base
      /\ Answer => pc' = "found" /\ Choice' = Choice /\ Answered' = Answered \cup {Choice}
      /\ ~Answer => pc' # "found" /\ Answered' = Answered
  BY <1>0, <1>1, OneAnswer
<1>3. CASE pc' = "limit"
  BY <1>3 DEF RoundSoFar
<1>4. CASE pc' # "limit"
  <2>1. InWalk /\ InWalk' /\ pc' # "dup"
    BY <1>1, <1>4 DEF InWalk, AtAnswer, WalkPlaces
  <2>2. ASSUME produced = 0
        PROVE  BindsSourced' /\ NoneMissed' /\ (\A t \in DealtWith : ConclusionsKnown(t))'
    <3>1. BindsSourced /\ NoneMissed /\ \A t \in DealtWith : ConclusionsKnown(t)
      BY <1>1, <2>1, <2>2 DEF RoundSoFar
    <3>2. BindsSourced' /\ NoneMissed'
      <4>1. SolverStep \/ (AtAnswer /\ level = Len(rule.body) /\ AskAgain)
        <5>1. CASE SolverStep
          BY <5>1
        <5>2. CASE NextAnswer
          <6>1. pc = "again" /\ AskAgain
            BY <5>2 DEF NextAnswer
          <6>2. QED
            BY <1>0, <6>1 DEF AtAnswer, Applying
        <5>3. QED
          BY <5>1, <5>2 DEF WalkOn
      <4>2. QED
        BY <1>0, <1>4, <3>1, <4>1, NoneMissedOn
    <3>3. DealtWith' \subseteq Answered
      BY <1>2 DEF DealtWith
    <3>4. Answered \subseteq DealtWith
      BY <1>1 DEF DealtWith
    <3>5. \A t \in DealtWith' : ConclusionsKnown(t)'
      BY <1>1, <3>1, <3>3, <3>4, ShownKept
    <3>6. QED
      BY <3>2, <3>5
  <2>3. QED
    BY <1>1, <1>2, <2>1, <2>2, RoundKept
<1>5. QED
  BY <1>3, <1>4

\* At an answer: what it concludes comes to be known, or it concludes
\* nothing.
LEMMA RoundAnswers ==
  ASSUME EngineTypeOK, EngineInv, RoundSoFar,
         Consider \/ TestDecides \/ Instantiate \/ ScanOn \/ Known
  PROVE  RoundSoFar'
<1>0. SolverTypeOK /\ WalkInv /\ Applying
  BY DEF EngineTypeOK, RunTypeOK, EngineInv
<1>1. /\ pc \in {"found", "test", "dup"} /\ pc' \in {"test", "dup", "again", "ran"}
      /\ UNCHANGED <<facts, world, next, produced, rule, base, level, frames, binds, answers>>
  BY DEF Consider, TestDecides, Testing, Instantiate, Instantiating, ScanOn, Known, Scanning,
         Stop, solverVars, runVars
<1>2. CASE pc' = "ran"
  BY <1>2 DEF RoundSoFar
<1>3. CASE pc' # "ran"
  <2>1. InWalk /\ InWalk' /\ AtAnswer /\ AtAnswer' /\ level = Len(rule.body)
    BY <1>0, <1>1, <1>3 DEF InWalk, AtAnswer, Applying
  <2>2. ASSUME produced = 0
        PROVE  /\ BindsSourced' /\ NoneMissed' /\ (\A t \in DealtWith : ConclusionsKnown(t))'
               /\ (pc = "dup" => ~Hole /\ candidate = Instance)'
    <3>1. BindsSourced /\ NoneMissed /\ \A t \in DealtWith : ConclusionsKnown(t)
      BY <1>1, <2>1, <2>2 DEF RoundSoFar
    <3>2. pc = "dup" => ~Hole /\ candidate = Instance
      BY <1>1, <2>2 DEF RoundSoFar
    <3>3. BindsSourced'
      BY <1>0, <1>1, <3>1, SourcesUnmoved DEF SolverTypeOK
    <3>4. NoneMissed'
      BY <1>1, <2>1, <3>1, NoneMissedKept
    <3>5. Hole' = Hole /\ Instance' = Instance
      BY <1>1 DEF Hole, Missing, IsBound, Instance, Resolved, SolverOrigin, RuleOrigin
    <3>6. pc' = "dup" => ~Hole' /\ candidate' = Instance'
      <4>1. CASE Instantiate
        BY <3>5, <4>1 DEF Instantiate
      <4>2. CASE ScanOn
        BY <3>2, <3>5, <4>2 DEF ScanOn, Scanning
      <4>3. CASE Consider \/ TestDecides \/ Known
        BY <1>3, <4>3 DEF Consider, TestDecides, Testing, Known, Stop
      <4>4. QED
        BY <4>1, <4>2, <4>3
    <3>7. ConclusionsKnown(Choice) \/ pc' \in {"test", "dup"}
      <4>1. CASE TestDecides
        <5>1. CASE Passes(rule.expr[test])
          BY <4>1, <5>1 DEF TestDecides, Testing
        <5>2. CASE ~Passes(rule.expr[test])
          <6>1. rule.expr[test] \in Test /\ test \in DOMAIN rule.expr
            BY <1>0, <4>1, ElementOfSeq, LenProperties
            DEF TestDecides, Testing, EngineTypeOK, RunTypeOK, SolverTypeOK, Rule
          <6>2. PICK e \in Test : e = rule.expr[test]
            BY <6>1
          <6>3. ~Breaks(e) /\ ~Passes(e)
            BY <4>1, <5>2, <6>2 DEF TestDecides
          <6>4. ASSUME NEW s \in [Var -> Term], Explains(rule, facts, Choice, s)
                PROVE  ~Holds(rule.expr[test], s)
            BY <1>0, <2>1, <3>1, <6>2, <6>3, <6>4, FailingConcludesNothing
          <6>5. QED
            BY <6>1, <6>4 DEF ConclusionsKnown
        <5>3. QED
          BY <5>1, <5>2
      <4>2. CASE Known
        <5>1. facts[scan] = candidate /\ scan \in DOMAIN facts /\ pc = "dup"
          BY <1>0, <4>2, LenProperties
          DEF Known, Scanning, Same, EngineTypeOK, RunTypeOK, SolverTypeOK
        <5>2. ASSUME NEW s \in [Var -> Term], Explains(rule, facts, Choice, s)
              PROVE  Concludes(rule, facts, Choice, s) = facts[scan]
          BY <1>0, <2>1, <3>1, <3>2, <5>1, <5>2, OneConclusion
        <5>3. QED
          BY <5>1, <5>2 DEF ConclusionsKnown
      <4>3. CASE Consider \/ Instantiate \/ ScanOn
        BY <4>3 DEF Consider, Instantiate, ScanOn, Scanning
      <4>4. QED
        BY <4>1, <4>2, <4>3
    <3>8. ASSUME NEW t \in DealtWith' PROVE ConclusionsKnown(t)'
      <4>1. t \in Answered /\ (pc' \in {"test", "dup"} => t # Choice)
        BY <1>1, <3>8 DEF DealtWith, Answered, Choice
      <4>2. ConclusionsKnown(t)
        BY <3>1, <3>7, <4>1 DEF DealtWith
      <4>3. QED
        BY <1>1, <4>2, ShownKept
    <3>9. QED
      BY <3>3, <3>4, <3>6, <3>8
  <2>3. QED
    BY <1>1, <2>1, <2>2, RoundKept
<1>4. QED
  BY <1>2, <1>3

\* What a round that has added nothing has shown, it has shown at every
\* step: a fact that is added ends such a round, and so does every stop.
LEMMA RoundStep ==
  ASSUME EngineTypeOK, EngineInv, RoundSoFar, [EngineNext]_engineVars
  PROVE  RoundSoFar'
<1>1. CASE Run \/ SkipQuery \/ RuleDone \/ EndRound
  BY <1>1, RoundOfRules
<1>2. CASE ApplyRule
  BY <1>2, RoundApplies
<1>3. CASE WalkOn \/ NextAnswer
  BY <1>3, RoundWalks
<1>4. CASE Consider \/ TestDecides \/ Instantiate \/ ScanOn \/ Known
  BY <1>4, RoundAnswers
<1>5. CASE Learn
  <2>1. produced' # 0
    BY <1>5 DEF Learn, EngineTypeOK, RunTypeOK
  <2>2. QED
    BY <2>1 DEF RoundSoFar
<1>6. CASE WalkLimit \/ TestLimit \/ TestBreaks \/ NoTermLeft \/ HeadUnbound \/ CannotLearn
  <2>1. pc' = "ran"
    BY <1>6 DEF WalkLimit, TestLimit, TestBreaks, NoTermLeft, HeadUnbound, CannotLearn, Stop
  <2>2. QED
    BY <2>1 DEF RoundSoFar
<1>7. CASE Ran \/ UNCHANGED engineVars
  <2>1. UNCHANGED <<facts, rule, base, level, frames, binds, answers, pc, world, next,
                    produced, candidate>>
    BY <1>7 DEF Ran, engineVars, walkVars, solverVars, runVars, answerVars
  <2>2. CASE InWalk
    <3>1. InWalk'
      BY <2>1, <2>2 DEF InWalk, AtAnswer
    <3>2. ASSUME produced = 0
          PROVE  /\ BindsSourced' /\ NoneMissed' /\ (\A t \in DealtWith : ConclusionsKnown(t))'
                 /\ (pc = "dup" => ~Hole /\ candidate = Instance)'
      <4>1. /\ BindsSourced /\ NoneMissed /\ \A t \in DealtWith : ConclusionsKnown(t)
            /\ pc = "dup" => ~Hole /\ candidate = Instance
        BY <2>2, <3>2 DEF RoundSoFar, InWalk, AtAnswer
      <4>2. BindsSourced'
        BY <2>1, <4>1, SourcesUnmoved DEF EngineTypeOK, RunTypeOK, SolverTypeOK
      <4>3. \A t : Passed(t)' <=> Passed(t)
        BY <2>1 DEF Passed, PassedAt, AgreesBelow
      <4>4. Choice' = Choice
        BY <2>1 DEF Choice
      <4>5. /\ AnswersPassed(FALSE) => AnswersPassed(FALSE)'
            /\ AnswersPassed(TRUE) => AnswersPassed(TRUE)'
        BY <2>1, <4>3, <4>4, AnswersKept
      <4>6. AnswersAll => AnswersAll'
        BY <2>1, AllUnmoved
      <4>7. NoneMissed'
        BY <2>1, <4>1, <4>5, <4>6 DEF NoneMissed, FewVariables, VarsOf, AtAnswer
      <4>8. (\A t \in DealtWith : ConclusionsKnown(t))'
        BY <2>1, <4>1, <4>4, ShownKept DEF DealtWith, Answered
      <4>9. (pc = "dup" => ~Hole /\ candidate = Instance)'
        BY <2>1, <4>1 DEF Hole, Missing, IsBound, Instance, Resolved, SolverOrigin, RuleOrigin
      <4>10. QED
        BY <4>2, <4>7, <4>8, <4>9
    <3>3. QED
      BY <2>1, <2>2, <3>1, <3>2, RoundKept
  <2>3. CASE ~InWalk
    <3>1. ~InWalk' /\ pc' # "dup"
      BY <2>1, <2>3 DEF InWalk, AtAnswer
    <3>2. \A n : AllKnown(world.rules[n])' <=> AllKnown(world.rules[n])
      BY <2>1 DEF AllKnown
    <3>3. ASSUME produced' = 0, pc' \notin {"ran", "limit"}, NEW n \in 1 .. next' - 1,
                 n \in DOMAIN world'.rules, ~world'.rules[n].is_query,
                 FewVariables(world'.rules[n])
          PROVE  AllKnown(world.rules[n])'
      <4>1. AllKnown(world.rules[n])
        BY <2>1, <2>3, <3>3 DEF RoundSoFar
      <4>2. QED
        BY <3>2, <4>1
    <3>4. QED
      BY <3>1, <3>3, RoundBetween
  <2>4. QED
    BY <2>2, <2>3
<1>8. QED
  BY <1>1, <1>2, <1>3, <1>4, <1>5, <1>6, <1>7 DEF EngineNext, RunStep

LEMMA RoundInitially == EngineInit => RoundSoFar
BY DEF EngineInit, RoundSoFar

-----------------------------------------------------------------------------
(* A run that returns OK has come to the fixpoint.                         *)

LEMMA SettledKept ==
  ASSUME Settled, UNCHANGED <<facts, world>>
  PROVE  Settled'
<1> SUFFICES ASSUME NEW n \in DOMAIN world'.rules, ~world'.rules[n].is_query,
                    FewVariables(world'.rules[n])
             PROVE  AllKnown(world.rules[n])'
  BY DEF Settled
<1>1. AllKnown(world.rules[n])
  BY DEF Settled
<1>2. QED
  BY <1>1, ShownKept

\* The round that added nothing has applied every rule.
LEMMA RoundSettles ==
  ASSUME EngineTypeOK, RoundSoFar, pc = "next", next > Len(world.rules), produced = 0
  PROVE  Settled
<1> SUFFICES ASSUME NEW n \in DOMAIN world.rules, ~world.rules[n].is_query,
                    FewVariables(world.rules[n])
             PROVE  AllKnown(world.rules[n])
  BY DEF Settled
<1>1. n \in 1 .. next - 1
  <2>1. n \in 1 .. Len(world.rules) /\ Len(world.rules) \in Nat
    BY LenProperties DEF EngineTypeOK, RunTypeOK, World
  <2>2. QED
    BY <2>1 DEF EngineTypeOK, RunTypeOK
<1>2. ~InWalk
  BY DEF InWalk, AtAnswer
<1>3. QED
  BY <1>1, <1>2 DEF RoundSoFar

\* Where the steps of a run lead.
LEMMA StepLeads ==
  ASSUME RunStep, ~EndRound, ~Learn, EngineTypeOK
  PROVE  /\ pc # "ran" /\ UNCHANGED <<facts, world>>
         /\ pc' # "ran" \/ (pc' = "ran" /\ status' \notin {"none", "OK"})
<1>1. UNCHANGED <<facts, world>>
  BY FactsAppend
<1>2. CASE WalkOn \/ NextAnswer
  BY <1>1, <1>2, WalkPlacesKept DEF WalkOn, NextAnswer, WalkPlaces
<1>3. CASE SkipQuery \/ ApplyRule \/ RuleDone \/ Consider \/ TestDecides \/ Instantiate
           \/ ScanOn
  BY <1>1, <1>3 DEF SkipQuery, ApplyRule, BeginWalk, RuleDone, Consider, TestDecides,
     Testing, Instantiate, Instantiating, ScanOn, Scanning, walkVars
<1>4. CASE WalkLimit \/ TestLimit \/ TestBreaks \/ NoTermLeft \/ HeadUnbound \/ CannotLearn
  BY <1>1, <1>4 DEF WalkLimit, TestLimit, TestBreaks, Testing, NoTermLeft, Instantiating,
     HeadUnbound, CannotLearn, Scanned, Stop
<1>5. CASE Known
  BY <1>1, <1>5 DEF Known, Scanning, Stop
<1>6. QED
  BY <1>2, <1>3, <1>4, <1>5 DEF RunStep

LEMMA FinishedStep ==
  ASSUME EngineTypeOK, RoundSoFar, Finished, [EngineNext]_engineVars
  PROVE  Finished'
<1>1. CASE Run
  <2>1. status' # "OK"
    BY <1>1 DEF Run, Stop
  <2>2. QED
    BY <2>1 DEF Finished
<1>2. CASE EndRound
  <2>1. UNCHANGED <<facts, world>>
    BY <1>2 DEF EndRound
  <2>2. CASE produced = 0
    <3>1. Settled
      BY <1>2, <2>2, RoundSettles DEF EndRound
    <3>2. QED
      BY <2>1, <3>1, SettledKept DEF Finished
  <2>3. CASE produced # 0
    <3>1. pc' # "ran" \/ status' # "OK"
      BY <1>2, <2>3 DEF EndRound, Stop, EngineTypeOK, RunTypeOK
    <3>2. QED
      BY <3>1 DEF Finished
  <2>4. QED
    BY <2>2, <2>3
<1>3. CASE Learn
  <2>1. pc' = "again"
    BY <1>3 DEF Learn
  <2>2. QED
    BY <2>1 DEF Finished
<1>4. CASE RunStep /\ ~EndRound /\ ~Learn
  <2>1. pc' # "ran" \/ status' # "OK"
    BY <1>4, StepLeads
  <2>2. QED
    BY <2>1 DEF Finished
<1>5. CASE Ran \/ UNCHANGED engineVars
  <2>1. UNCHANGED <<facts, world, pc, status>>
    BY <1>5 DEF Ran, engineVars, walkVars
  <2>2. QED
    BY <2>1, SettledKept DEF Finished
<1>6. QED
  BY <1>1, <1>2, <1>3, <1>4, <1>5 DEF EngineNext

LEMMA FinishedInitially == EngineInit => Finished
BY DEF EngineInit, EngineStart, Finished

LEMMA KnowsStep ==
  ASSUME EngineTypeOK, EngineKnows, [EngineNext]_engineVars
  PROVE  EngineTypeOK' /\ EngineKnows'
BY EngineStep, DerivedOnceStep, RoundStep, FinishedStep DEF EngineKnows

\* Whatever the world and its limits, a run that returns OK has come to the
\* fixpoint, every fact it added follows from facts before it and was not
\* among them, and a round that has added nothing has shown of every rule it
\* has applied, and of the answers of the one it is at, that what they
\* conclude is known (130_engine.inc:303-406).
THEOREM EngineKnowsRound == EngineSpec => []EngineKnows
<1>1. EngineInit => RoundSoFar /\ Finished
  BY RoundInitially, FinishedInitially
<1>2. EngineTypeOK /\ EngineInv /\ RoundSoFar /\ Finished /\ [EngineNext]_engineVars
        => RoundSoFar' /\ Finished'
  BY RoundStep, FinishedStep
<1>3. EngineInv /\ RoundSoFar /\ DerivedOnce /\ Finished => EngineKnows
  BY DEF EngineKnows
<1>4. QED
  BY <1>1, <1>2, <1>3, EngineInvariant, EngineDerivesOnce, PTL DEF EngineSpec

-----------------------------------------------------------------------------
(* A run is a run of BsInference.                                          *)

\* Every rule of a loaded world has slots for its variables.
Slots == \A w \in Worlds : \A n \in DOMAIN w.rules :
           ~w.rules[n].is_query => FewVariables(w.rules[n])

LEMMA SameConsequences ==
  ASSUME NEW r, NEW fs
  PROVE  I!Consequences(r, fs) = Consequences(r, fs)
BY DEF I!Consequences, Consequences, I!Tuples, Tuples, I!Explains, Explains, I!States,
       States, I!Ground, Ground, I!Under, Under, I!Holds, Holds, I!Concludes, Concludes,
       I!OriginOf, OriginOf, I!Term, Term

\* What BsInference calls unknown.
LEMMA UnknownIs ==
  ASSUME NEW f
  PROVE  f \in I!Unknown <=> /\ Concluded(f, facts)
                             /\ \A k \in DOMAIN facts : facts[k] # f
BY SameConsequences DEF I!Unknown, I!AllConsequences, Concluded

\* The round that added nothing leaves nothing to infer.
LEMMA RoundLeavesNone ==
  ASSUME EngineTypeOK, RoundSoFar, Slots, world \in Worlds,
         pc = "next", next > Len(world.rules), produced = 0
  PROVE  I!Unknown = {}
<1> SUFFICES ASSUME NEW f \in I!Unknown PROVE FALSE
  OBVIOUS
<1>1. Concluded(f, facts) /\ \A k \in DOMAIN facts : facts[k] # f
  BY UnknownIs
<1>2. PICK n \in DOMAIN world.rules :
        ~world.rules[n].is_query /\ f \in Consequences(world.rules[n], facts)
  BY <1>1 DEF Concluded
<1>3. AllKnown(world.rules[n])
  BY <1>2, RoundSettles DEF Settled, Slots
<1>4. QED
  BY <1>1, <1>2, <1>3 DEF AllKnown

LEMMA StandingIs ==
  /\ pc # "ran" => Standing = "open"
  /\ pc = "ran" /\ status = "OK" => Standing = "closed"
  /\ pc = "ran" /\ status \notin {"none", "OK"} => Standing = "given up"
  /\ pc = "ran" => Standing # "open"
BY DEF Standing

\* Every step of a run is a step of BsInference or none at all.
LEMMA EngineImplements ==
  ASSUME EngineTypeOK, EngineInv, RoundSoFar, Slots, world \in Worlds,
         [EngineNext]_engineVars
  PROVE  [I!Next]_(I!vars)
<1>0. /\ I!vars = <<world, facts, Standing>>
      /\ I!vars' = <<world', facts', Standing'>>
  BY DEF I!vars
<1>1. /\ pc' # "ran" => Standing' = "open"
      /\ pc' = "ran" /\ status' = "OK" => Standing' = "closed"
      /\ pc' = "ran" /\ status' \notin {"none", "OK"} => Standing' = "given up"
  BY DEF Standing
<1>2. CASE Run
  <2>1. Standing # "open" /\ UNCHANGED <<facts, world>>
        /\ (Standing' = "open" \/ Standing' = "given up")
    BY <1>1, <1>2, StandingIs DEF Run, Stop
  <2>2. I!Begin \/ I!Refuse
    BY <2>1 DEF I!Begin, I!Refuse
  <2>3. QED
    BY <2>2 DEF I!Next
<1>3. CASE Learn
  <2>1. /\ pc = "dup" /\ pc' = "again" /\ world' = world
        /\ facts' = Append(facts, candidate) /\ scan > Len(facts)
    BY <1>3 DEF Learn, Scanned
  <2>2. candidate \in I!Unknown
    <3>1. DOMAIN facts = 1 .. Len(facts) /\ Len(facts) \in Nat /\ scan \in Nat
      BY LenProperties DEF EngineTypeOK, RunTypeOK, SolverTypeOK
    <3>2. Concluded(candidate, facts) /\ \A k \in 1 .. scan - 1 : facts[k] # candidate
      BY <2>1 DEF EngineInv, Candidacy
    <3>3. QED
      BY <2>1, <3>1, <3>2, UnknownIs
  <2>3. Standing = "open" /\ Standing' = "open"
    BY <1>1, <2>1, StandingIs
  <2>4. I!Infer
    BY <2>1, <2>2, <2>3 DEF I!Infer
  <2>5. QED
    BY <2>4 DEF I!Next
<1>4. CASE EndRound
  <2>1. /\ pc = "next" /\ next > Len(world.rules) /\ UNCHANGED <<facts, world>>
        /\ \/ produced = 0 /\ pc' = "ran" /\ status' = "OK"
           \/ pc' = "ran" /\ status' = "LIMIT"
           \/ pc' = pc
    BY <1>4 DEF EndRound, Stop
  <2>2. Standing = "open"
    BY <2>1, StandingIs
  <2>3. CASE produced = 0 /\ pc' = "ran" /\ status' = "OK"
    <3>1. I!Unknown = {}
      BY <2>1, <2>3, RoundLeavesNone
    <3>2. I!Close
      BY <1>1, <2>1, <2>2, <2>3, <3>1 DEF I!Close
    <3>3. QED
      BY <3>2 DEF I!Next
  <2>4. CASE pc' = "ran" /\ status' = "LIMIT"
    <3>1. I!GiveUp
      BY <1>1, <2>1, <2>2, <2>4 DEF I!GiveUp
    <3>2. QED
      BY <3>1 DEF I!Next
  <2>5. CASE pc' = pc
    <3>1. UNCHANGED <<world, facts, Standing>>
      BY <1>1, <2>1, <2>2, <2>5
    <3>2. QED
      BY <1>0, <3>1
  <2>6. QED
    BY <2>1, <2>3, <2>4, <2>5
<1>5. CASE RunStep /\ ~EndRound /\ ~Learn
  <2>1. /\ pc # "ran" /\ UNCHANGED <<facts, world>>
        /\ pc' # "ran" \/ (pc' = "ran" /\ status' \notin {"none", "OK"})
    BY <1>5, StepLeads
  <2>2. Standing = "open"
    BY <2>1, StandingIs
  <2>3. CASE pc' # "ran"
    BY <1>0, <1>1, <2>1, <2>2, <2>3
  <2>4. CASE pc' = "ran" /\ status' \notin {"none", "OK"}
    <3>1. I!GiveUp
      BY <1>1, <2>1, <2>2, <2>4 DEF I!GiveUp
    <3>2. QED
      BY <3>1 DEF I!Next
  <2>5. QED
    BY <2>1, <2>3, <2>4
<1>6. CASE Ran \/ UNCHANGED engineVars
  <2>1. UNCHANGED <<world, facts, pc, status>>
    BY <1>6 DEF Ran, engineVars, walkVars
  <2>2. QED
    BY <1>0, <2>1 DEF Standing
<1>7. QED
  BY <1>2, <1>3, <1>4, <1>5, <1>6 DEF EngineNext

FromWorlds == world \in Worlds

LEMMA WorldStays == EngineSpec => []FromWorlds
<1>1. EngineInit => FromWorlds
  BY DEF EngineInit, EngineStart, FromWorlds
<1>2. EngineTypeOK /\ FromWorlds /\ [EngineNext]_engineVars => FromWorlds'
  <2> SUFFICES ASSUME EngineTypeOK, world \in Worlds, [EngineNext]_engineVars
               PROVE  world' \in Worlds
    BY DEF FromWorlds
  <2>1. CASE Run \/ RunStep
    BY <2>1, FactsAppend
  <2>2. CASE Ran \/ UNCHANGED engineVars
    BY <2>2 DEF Ran, engineVars
  <2>3. QED
    BY <2>1, <2>2 DEF EngineNext
<1>3. QED
  BY <1>1, <1>2, EngineInvariant, PTL DEF EngineSpec

\* For every set of worlds whose rules have slots for their variables, and
\* whatever the pools, the budget and the rounds: a run adds consequences of
\* what is known, none twice, and says OK only when every consequence of the
\* rules is known (130_engine.inc, "apply every rule to every combination of
\* facts it can match, until a round produces nothing new").
THEOREM EngineInfersConsequences ==
  ASSUME Slots
  PROVE  EngineSpec => InfersConsequences
<1>1. EngineInit => I!Init
  <2> SUFFICES ASSUME EngineInit PROVE I!Init
    OBVIOUS
  <2>1. /\ world \in Worlds /\ facts = world.facts /\ status = "none" /\ pc = "ran"
    BY DEF EngineInit, EngineStart
  <2>2. world.facts \in Seq(Fact) /\ world.rules \in Seq(Rule)
    BY <2>1 DEF World
  <2>3. I!Fact = Fact
    BY DEF I!Fact, Fact, I!Term, Term, I!Origin, Origin
  <2>4. I!Rule = Rule
    BY DEF I!Rule, Rule, I!Predicate, Predicate, I!Test, Test, I!Term, Term, I!Origin, Origin
  <2>5. Standing = "idle"
    BY <2>1 DEF Standing
  <2>6. QED
    BY <2>1, <2>2, <2>3, <2>4, <2>5 DEF I!Init
<1>2. EngineTypeOK /\ EngineInv /\ RoundSoFar /\ FromWorlds /\ [EngineNext]_engineVars
        => [I!Next]_(I!vars)
  BY EngineImplements DEF FromWorlds
<1>3. EngineKnows => RoundSoFar
  BY DEF EngineKnows
<1>4. QED
  BY <1>1, <1>2, <1>3, EngineInvariant, EngineKnowsRound, WorldStays, PTL
  DEF EngineSpec, InfersConsequences, I!Spec

-----------------------------------------------------------------------------
(* What the facts are: what the blocks mean.                               *)

\* Matching looks at the facts a tuple chooses and not at where they stand.
LEMMA SameMatch ==
  ASSUME NEW r, NEW fs, NEW gs, NEW t \in Tuples(r, fs), NEW u \in Tuples(r, gs),
         \A i \in DOMAIN r.body : gs[u[i]] = fs[t[i]], NEW s
  PROVE  /\ Explains(r, fs, t, s) <=> Explains(r, gs, u, s)
         /\ Concludes(r, fs, t, s) = Concludes(r, gs, u, s)
<1>1. DOMAIN t = DOMAIN r.body /\ DOMAIN u = DOMAIN r.body
  BY DEF Tuples
<1>2. OriginOf(r, fs, t) = OriginOf(r, gs, u)
  <2>1. {fs[t[i]].origin : i \in DOMAIN t} = {gs[u[i]].origin : i \in DOMAIN u}
    BY <1>1
  <2>2. QED
    BY <2>1 DEF OriginOf
<1>3. QED
  BY <1>2 DEF Explains, Concludes

\* Every fact of T's is in any set T's facts and rules do not lead out of: the
\* first that were not would be loaded, or concluded from T's facts before it.
LEMMA FactsReached ==
  ASSUME facts \in Seq(Fact), world \in World, FactsGrow, DerivedOnce, NEW T, NEW J,
         Closed(world, J, T)
  PROVE  FactsOf(T) \subseteq J
<1> DEFINE Stray == {k \in DOMAIN facts : facts[k].origin \subseteq T /\ facts[k] \notin J}
<1>1. /\ DOMAIN facts = 1 .. Len(facts) /\ Len(facts) \in Nat /\ Loaded \in Nat
      /\ DOMAIN world.facts = 1 .. Loaded
  BY LenProperties DEF World, Loaded
<1>2. ASSUME Stray # {} PROVE FALSE
  <2>1. PICK k \in Stray : \A j \in Stray : k <= j
    <3>1. Stray \subseteq Nat
      BY <1>1
    <3>2. QED
      BY ONLY <1>2, <3>1, LeastOf
  <2>2. k \in DOMAIN facts /\ facts[k].origin \subseteq T /\ facts[k] \notin J
    OBVIOUS
  <2>3. k > Loaded
    <3>1. SUFFICES ASSUME k <= Loaded PROVE FALSE
      BY <1>1, <2>2
    <3>2. k \in DOMAIN world.facts /\ facts[k] = world.facts[k]
      BY <1>1, <2>2, <3>1 DEF FactsGrow
    <3>3. QED
      BY <2>2, <3>2 DEF Closed, StatedBy
  <2>4. PICK fs : fs = SubSeq(facts, 1, k - 1)
    OBVIOUS
  <2>5. DOMAIN fs = 1 .. k - 1 /\ \A i \in 1 .. k - 1 : fs[i] = facts[i]
    BY <1>1, <2>2, <2>4, SubSeqProperties
  <2>6. Concluded(facts[k], fs)
    BY <1>1, <2>2, <2>3, <2>4 DEF DerivedOnce
  <2>7. PICK n \in DOMAIN world.rules :
          ~world.rules[n].is_query /\ facts[k] \in Consequences(world.rules[n], fs)
    BY <2>6 DEF Concluded
  <2>8. PICK r : r = world.rules[n]
    OBVIOUS
  <2>9. PICK t \in Tuples(r, fs), s \in [Var -> Term] :
          /\ Explains(r, fs, t, s) /\ \A i \in DOMAIN r.expr : Holds(r.expr[i], s)
          /\ facts[k] = Concludes(r, fs, t, s)
    BY <2>7, <2>8 DEF Consequences
  <2>10. OriginOf(r, fs, t) \subseteq T /\ DOMAIN t = DOMAIN r.body
    BY <2>2, <2>9 DEF Concludes, Tuples
  <2>11. ASSUME NEW i \in DOMAIN r.body PROVE fs[t[i]] \in J
    <3>1. t[i] \in 1 .. k - 1 /\ t[i] \in DOMAIN facts /\ fs[t[i]] = facts[t[i]]
      BY <1>1, <2>2, <2>5, <2>9, <2>11 DEF Tuples
    <3>2. fs[t[i]].origin \subseteq T
      BY <2>10, <2>11 DEF OriginOf
    <3>3. t[i] \notin Stray
      BY <1>1, <2>1, <2>2, <3>1
    <3>4. QED
      BY <3>1, <3>2, <3>3
  <2>12. PICK u : u = [i \in DOMAIN r.body |-> fs[t[i]]]
    OBVIOUS
  <2>13. /\ u \in Tuples(r, Indexed(J))
         /\ \A i \in DOMAIN r.body : Indexed(J)[u[i]] = fs[t[i]]
    BY <2>11, <2>12 DEF Tuples, Indexed
  <2>14. facts[k] \in Consequences(r, Indexed(J))
    <3>1. Explains(r, Indexed(J), u, s) /\ facts[k] = Concludes(r, Indexed(J), u, s)
      BY <2>9, <2>13, SameMatch
    <3>2. QED
      BY <2>9, <2>13, <3>1 DEF Consequences
  <2>15. r \in RulesBy(world, T)
    BY <2>7, <2>8, <2>10 DEF RulesBy, OriginOf
  <2>16. QED
    BY <2>2, <2>14, <2>15 DEF Closed, Follows
<1>3. QED
  BY <1>2 DEF FactsOf

\* The facts of T's are such a set once the rules have nothing to add.
LEMMA FactsClosed ==
  ASSUME facts \in Seq(Fact), world \in World, FactsGrow, Settled, NEW T,
         \A n \in DOMAIN world.rules :
           ~world.rules[n].is_query => FewVariables(world.rules[n])
  PROVE  Closed(world, FactsOf(T), T)
<1>1. /\ DOMAIN facts = 1 .. Len(facts) /\ Len(facts) \in Nat /\ Loaded \in Nat
      /\ DOMAIN world.facts = 1 .. Loaded
  BY LenProperties DEF World, Loaded
<1>2. StatedBy(world, T) \subseteq FactsOf(T)
  BY <1>1 DEF StatedBy, FactsOf, FactsGrow
<1>3. ASSUME NEW f \in Follows(world, FactsOf(T), T) PROVE f \in FactsOf(T)
  <2>1. PICK n \in DOMAIN world.rules :
          /\ ~world.rules[n].is_query
          /\ f \in Consequences(world.rules[n], Indexed(FactsOf(T)))
    BY DEF Follows, RulesBy
  <2>2. PICK r, K : r = world.rules[n] /\ K = FactsOf(T)
    OBVIOUS
  <2>3. PICK u \in Tuples(r, Indexed(K)), s \in [Var -> Term] :
          /\ Explains(r, Indexed(K), u, s) /\ \A i \in DOMAIN r.expr : Holds(r.expr[i], s)
          /\ f = Concludes(r, Indexed(K), u, s)
    BY <2>1, <2>2 DEF Consequences
  <2>4. ASSUME NEW i \in DOMAIN r.body
        PROVE  u[i] \in K /\ Indexed(K)[u[i]] = u[i] /\ \E k \in DOMAIN facts : facts[k] = u[i]
    <3>1. u[i] \in K
      BY <2>3, <2>4 DEF Tuples, Indexed
    <3>2. QED
      BY <2>2, <3>1 DEF Indexed, FactsOf
  <2>5. PICK t : t = [i \in DOMAIN r.body |-> CHOOSE k \in DOMAIN facts : facts[k] = u[i]]
    OBVIOUS
  <2>6. t \in Tuples(r, facts) /\ \A i \in DOMAIN r.body : facts[t[i]] = Indexed(K)[u[i]]
    BY <2>4, <2>5 DEF Tuples
  <2>7. Explains(r, facts, t, s) /\ f = Concludes(r, facts, t, s)
    BY <2>3, <2>6, SameMatch
  <2>8. f \in Consequences(r, facts)
    BY <2>3, <2>6, <2>7 DEF Consequences
  <2>9. AllKnown(r)
    BY <2>1, <2>2 DEF Settled
  <2>10. \E k \in DOMAIN facts : facts[k] = f
    BY <2>8, <2>9 DEF AllKnown
  <2>11. QED
    BY <2>10 DEF Follows, FactsOf
<1>4. QED
  BY <1>2, <1>3 DEF Closed

\* So they are what the blocks in T mean.
LEMMA FactsMean ==
  ASSUME facts \in Seq(Fact), world \in World, FactsGrow, DerivedOnce, Settled, NEW T,
         \A n \in DOMAIN world.rules :
           ~world.rules[n].is_query => FewVariables(world.rules[n])
  PROVE  IsMeaning(world, FactsOf(T), T)
<1>1. \A J \in SUBSET FactsOf(T) : Closed(world, J, T) => FactsOf(T) \subseteq J
  BY FactsReached
<1>2. QED
  BY <1>1, FactsClosed DEF IsMeaning

\* The facts of the blocks in T are in every set that holds what those blocks
\* state and is closed under their rules.
NoOthersFacts == \A T : \A J : Closed(world, J, T) => FactsOf(T) \subseteq J

\* Whatever the world, at every moment of a run and however it ends, and
\* whatever set of blocks one looks at: a fact that stems from them is one
\* their own facts and rules lead to.  No other block can add to what stems
\* from them (130_engine.inc:9-15).
THEOREM EngineFromOwnBlocks == EngineSpec => []NoOthersFacts
<1>1. EngineTypeOK /\ EngineInv /\ DerivedOnce => NoOthersFacts
  BY FactsReached DEF EngineTypeOK, SolverTypeOK, RunTypeOK, EngineInv, NoOthersFacts
<1>2. QED
  BY <1>1, EngineInvariant, EngineDerivesOnce, PTL

\* Whatever the world, as long as its rules have a slot for each of their
\* variables: when a run says OK the facts are, for any set of blocks, the
\* least that holds what they state and what their rules conclude.  No other
\* block can add to it, and none can take from it (130_engine.inc:9-15).
THEOREM EngineNoEscalation == ASSUME Slots PROVE EngineSpec => []NoEscalation
<1>1. EngineTypeOK /\ EngineKnows /\ FromWorlds => NoEscalation
  <2> SUFFICES ASSUME EngineTypeOK, EngineKnows, FromWorlds, pc = "ran", status = "OK", NEW T
               PROVE  IsMeaning(world, FactsOf(T), T)
    BY DEF NoEscalation
  <2>1. QED
    BY FactsMean
    DEF EngineTypeOK, SolverTypeOK, RunTypeOK, EngineKnows, EngineInv, Finished, Slots, FromWorlds
<1>2. QED
  BY <1>1, EngineInvariant, EngineKnowsRound, WorldStays, PTL

-----------------------------------------------------------------------------
(* The world without a block.                                              *)

\* Where a block is not there, the others' facts and rules are.
LEMMA WithoutStates ==
  ASSUME world \in World, NEW b, b \in Everyone
  PROVE  /\ StatedBy(Without(world, b), Everyone) = StatedBy(world, Everyone \ {b})
         /\ RulesBy(Without(world, b), Everyone) = RulesBy(world, Everyone \ {b})
<1>1. /\ \A k \in DOMAIN world.facts : world.facts[k].origin \subseteq Everyone
      /\ \A n \in DOMAIN world.rules : world.rules[n] \in Rule
  <2>1. world.facts \in Seq(Fact) /\ world.rules \in Seq(Rule)
    BY DEF World
  <2>2. \A k \in DOMAIN world.facts : world.facts[k] \in Fact
    BY <2>1, ElementOfSeq, LenProperties
  <2>3. \A n \in DOMAIN world.rules : world.rules[n] \in Rule
    BY <2>1, ElementOfSeq, LenProperties
  <2>4. QED
    BY <2>2, <2>3 DEF Fact, Origin, Everyone
<1>2. PICK v : v = Without(world, b)
  OBVIOUS
<1>3. /\ v.facts = [k \in {n \in DOMAIN world.facts : b \notin world.facts[n].origin}
                     |-> world.facts[k]]
      /\ v.rules = [n \in DOMAIN world.rules |->
                      IF world.rules[n].block = b
                      THEN [world.rules[n] EXCEPT !.is_query = TRUE]
                      ELSE world.rules[n]]
  BY <1>2 DEF Without, World
<1>4. StatedBy(v, Everyone) = StatedBy(world, Everyone \ {b})
  BY <1>1, <1>3 DEF StatedBy
<1>5. RulesBy(v, Everyone) = RulesBy(world, Everyone \ {b})
  <2>1. \A n \in DOMAIN world.rules : world.rules[n].block \in Everyone
    BY <1>1 DEF Rule, Everyone
  <2>2. \A n \in DOMAIN world.rules : world.rules[n].block = b => v.rules[n].is_query
    BY <1>1, <1>3 DEF Rule
  <2>3. \A n \in DOMAIN world.rules : world.rules[n].block # b => v.rules[n] = world.rules[n]
    BY <1>3
  <2>4. DOMAIN v.rules = DOMAIN world.rules
    BY <1>3
  <2>5. ASSUME NEW r \in RulesBy(v, Everyone) PROVE r \in RulesBy(world, Everyone \ {b})
    BY <2>1, <2>2, <2>3, <2>4 DEF RulesBy
  <2>6. ASSUME NEW r \in RulesBy(world, Everyone \ {b}) PROVE r \in RulesBy(v, Everyone)
    BY <2>3, <2>4 DEF RulesBy
  <2>7. QED
    BY <2>5, <2>6
<1>6. QED
  BY <1>2, <1>4, <1>5

\* So the facts that do not stem from a block are what the world means without
\* it.
LEMMA WithoutMeans ==
  ASSUME facts \in Seq(Fact), world \in World, FactsGrow, DerivedOnce, Settled,
         \A n \in DOMAIN world.rules :
           ~world.rules[n].is_query => FewVariables(world.rules[n]),
         NEW b, b \in Everyone
  PROVE  IsMeaning(Without(world, b), FactsOf(Everyone \ {b}), Everyone)
<1> DEFINE T == Everyone \ {b}
<1>1. PICK v, K : v = Without(world, b) /\ K = FactsOf(T)
  OBVIOUS
<1>2. StatedBy(v, Everyone) = StatedBy(world, T) /\ RulesBy(v, Everyone) = RulesBy(world, T)
  BY <1>1, WithoutStates
<1>3. Closed(world, K, T) /\ \A J : Closed(world, J, T) => K \subseteq J
  BY <1>1, FactsClosed, FactsReached
<1>4. Follows(v, K, Everyone) \subseteq Follows(world, K, T)
  <2>1. SUFFICES ASSUME NEW f \in Follows(v, K, Everyone) PROVE f.origin \subseteq T
    BY <1>2 DEF Follows
  <2>2. PICK r \in RulesBy(world, T) : f \in Consequences(r, Indexed(K))
    BY <1>2 DEF Follows
  <2>3. PICK u \in Tuples(r, Indexed(K)), s \in [Var -> Term] : f = Concludes(r, Indexed(K), u, s)
    BY <2>2 DEF Consequences
  <2>4. r.block \in T
    BY DEF RulesBy
  <2>5. \A i \in DOMAIN u : Indexed(K)[u[i]].origin \subseteq T
    BY <1>1, <2>3 DEF Tuples, Indexed, FactsOf
  <2>6. QED
    BY <2>3, <2>4, <2>5 DEF Concludes, OriginOf
<1>5. Closed(v, K, Everyone)
  BY <1>2, <1>3, <1>4 DEF Closed
<1>6. ASSUME NEW J, Closed(v, J, Everyone) PROVE Closed(world, J, T)
  <2>1. Follows(world, J, T) \subseteq Follows(v, J, Everyone)
    BY <1>2 DEF Follows
  <2>2. QED
    BY <1>2, <1>6, <2>1 DEF Closed
<1>7. IsMeaning(v, K, Everyone)
  BY <1>3, <1>5, <1>6 DEF IsMeaning
<1>8. QED
  BY <1>1, <1>7


-----------------------------------------------------------------------------
(* Types, and where an authorization stands.                               *)

LEMMA PoolTyped ==
  ASSUME NEW rs \in Seq(Rule), NEW from \in Nat, NEW n \in Nat, from + n <= Len(rs),
         NEW i \in 1 .. n
  PROVE  from + i \in DOMAIN rs /\ rs[from + i] \in Rule
<1>1. from + i \in 1 .. Len(rs)
  BY LenProperties
<1>2. QED
  BY <1>1, LenProperties, ElementOfSeq

\* The queries of what is being asked are rules of the world.
LEMMA AskedTyped ==
  ASSUME AuthTypeOK, AskPlaced, FromWorlds, Asking, pc \notin {"ran", "open"},
         phase = "policy" => ask <= Len(world.policies)
  PROVE  /\ phase = "check" => ask \in DOMAIN world.checks /\ Asked = world.checks[ask]
                               /\ Asked \in Check
         /\ phase = "policy" => ask \in DOMAIN world.policies /\ Asked = world.policies[ask]
                                /\ Asked \in Policy
         /\ Asked.query_at \in Nat /\ Asked.query_count \in Nat
         /\ \A i \in 1 .. Asked.query_count :
              /\ Asked.query_at + i \in DOMAIN world.rules
              /\ world.rules[Asked.query_at + i] \in Rule
<1>1. /\ world.checks \in Seq(Check) /\ world.policies \in Seq(Policy)
      /\ world.rules \in Seq(Rule) /\ ask \in Nat \ {0}
  BY DEF AuthTypeOK, RunTypeOK, World
<1>2. CASE phase = "check"
  <2>1. ask \in DOMAIN world.checks /\ Asked = world.checks[ask]
    BY <1>1, <1>2, LenProperties DEF AskPlaced, Asked
  <2>2. Asked \in Check
    BY <1>1, <2>1, LenProperties, ElementOfSeq
  <2>3. Asked.query_at + Asked.query_count <= Len(world.rules)
    BY <2>1, AuthAssumption DEF FromWorlds
  <2>4. Asked.query_at \in Nat /\ Asked.query_count \in Nat
    BY <2>2 DEF Check
  <2>5. QED
    BY <1>1, <1>2, <2>1, <2>2, <2>3, <2>4, PoolTyped
<1>3. CASE phase = "policy"
  <2>1. ask \in DOMAIN world.policies /\ Asked = world.policies[ask]
    BY <1>1, <1>3, LenProperties DEF Asked
  <2>2. Asked \in Policy
    BY <1>1, <2>1, LenProperties, ElementOfSeq
  <2>3. Asked.query_at + Asked.query_count <= Len(world.rules)
    BY <2>1, AuthAssumption DEF FromWorlds
  <2>4. Asked.query_at \in Nat /\ Asked.query_count \in Nat
    BY <2>2 DEF Policy
  <2>5. QED
    BY <1>1, <1>3, <2>1, <2>2, <2>3, <2>4, PoolTyped
<1>4. QED
  BY <1>2, <1>3 DEF Asking

\* When no walk and no round is going on, a run knows what an authorization
\* does.
LEMMA RestKnows ==
  ASSUME AuthTypeOK, AuthInv, pc = "ran" \/ phase = "run"
  PROVE  EngineTypeOK /\ EngineKnows
<1>1. CASE phase = "run"
  BY <1>1 DEF AuthTypeOK, AuthInv, EngineTypeOK
<1>2. CASE pc = "ran"
  BY <1>2 DEF AuthTypeOK, AuthInv, EngineTypeOK, EngineKnows, EngineInv, Applying, AtAnswer,
              Candidacy, RoundSoFar, EnginePlaces
<1>3. QED
  BY <1>1, <1>2

\* The run of the rules, begun and gone on with.
LEMMA RunningStep ==
  ASSUME AuthTypeOK, AuthInv, Authorize \/ RunOn
  PROVE  AuthTypeOK' /\ AuthInv' /\ world' = world
<1>1. /\ Run \/ RunStep
      /\ phase' = "run" /\ UNCHANGED askVars /\ out' = Cleared
  BY DEF Authorize, RunOn, decisionVars, AuthInv
<1>2. EngineTypeOK /\ EngineKnows
  BY RestKnows DEF Authorize, RunOn, Run
<1>3. EngineTypeOK' /\ EngineKnows'
  BY <1>1, <1>2, KnowsStep DEF EngineNext
<1>4. world' = world /\ Len(facts) <= Len(facts')
      /\ \A k \in 1 .. Len(facts) : facts'[k] = facts[k]
  BY <1>1, <1>2, FactsAppend
<1>5. out' \in VerdictOf
  BY <1>1 DEF VerdictOf, Cleared
<1>6. AuthTypeOK'
  BY <1>1, <1>3, <1>5
  DEF AuthTypeOK, EngineTypeOK, AuthPlaces, askVars
<1>7. AuthInv'
  BY <1>1, <1>3 DEF AuthInv, EngineKnows, EngineInv, EngineTypeOK, AskPlaced, Asking
<1>8. QED
  BY <1>4, <1>6, <1>7

\* A fact no rule has been applied to.
LEMMA FixpointKept ==
  ASSUME AuthInv, UNCHANGED <<facts, world>>
  PROVE  FactsGrow' /\ DerivedOnce' /\ (Settled => Settled')
<1>1. FactsGrow'
  BY DEF AuthInv, FactsGrow, Loaded
<1>2. DerivedOnce'
  BY DEF AuthInv, DerivedOnce, Loaded, Concluded
<1>3. QED
  BY <1>1, <1>2, SettledKept

\* What an authorization does between two turns of a walk.
LEMMA BetweenKeeps ==
  ASSUME AuthTypeOK, AuthInv,
         UNCHANGED <<facts, steps, solverVars, world, terms, runVars, answerVars>>,
         pc' \in {"open", "pick", "ran"}
  PROVE  /\ SolverTypeOK' /\ WalkInv' /\ FactsGrow' /\ DerivedOnce' /\ pc' \in AuthPlaces
         /\ Settled => Settled'
         /\ status' \in {"none", "OK", "LIMIT", "NOMEM", "ERROR", "UNBOUND"} => RunTypeOK'
<1>1. SolverTypeOK'
  BY SolverUnmoved DEF AuthTypeOK, SolverTypeOK
<1>2. WalkInv'
  BY WalkKept, LenProperties DEF AuthTypeOK, AuthInv, SolverTypeOK
<1>3. pc' \in AuthPlaces
  BY DEF AuthPlaces, EnginePlaces
<1>4. status' \in {"none", "OK", "LIMIT", "NOMEM", "ERROR", "UNBOUND"} => RunTypeOK'
  BY DEF AuthTypeOK, RunTypeOK, runVars, answerVars
<1>5. QED
  BY <1>1, <1>2, <1>3, <1>4, FixpointKept

\* A report of a check that is there.
LEMMA ReportTyped ==
  ASSUME AuthTypeOK, AskPlaced, FromWorlds, phase = "check", pc \notin {"ran", "open"},
         NEW holds \in BOOLEAN, CheckSettled(holds)
  PROVE  failed' \in Seq(ReportOf)
<1>1. Asked \in Check
  BY AskedTyped DEF Asking
<1>2. Report \in ReportOf
  BY <1>1 DEF Report, ReportOf, Check, AuthTypeOK
<1>3. QED
  BY <1>2, AppendProperties DEF CheckSettled, AuthTypeOK

LEMMA IdleInv ==
  ASSUME WalkInv', FactsGrow', DerivedOnce', Finished', phase' = "idle", pc' = "ran",
         status' # "OK" => out' = Cleared
  PROVE  AuthInv'
<1>1. AskPlaced'
  BY DEF AskPlaced
<1>2. QED
  BY <1>1 DEF AuthInv, Asking

LEMMA AskingInv ==
  ASSUME WalkInv', FactsGrow', DerivedOnce', Settled', AskPlaced',
         phase' \in {"check", "policy"}, pc' # "dup",
         pc' = "ran" => status' # "OK", out' = Cleared
  PROVE  AuthInv'
<1>1. Finished'
  BY DEF Finished
<1>2. QED
  BY <1>1 DEF AuthInv, Asking

LEMMA StopsTyped ==
  ASSUME AuthTypeOK, AuthInv, Failed \/ NoPolicy \/ RunDone
  PROVE  AuthTypeOK' /\ AuthInv'
<1>1. /\ UNCHANGED <<facts, steps, solverVars, world, terms, runVars, answerVars>>
      /\ pc' \in {"open", "ran"} /\ phase # "idle"
      /\ status' \in {"none", "OK", "NOMEM", status}
      /\ phase' \in {"idle", "check"}
  BY DEF Failed, NoPolicy, RunDone, Return, Stop, engineVars, walkVars, authVars
<1>2. /\ SolverTypeOK' /\ WalkInv' /\ FactsGrow' /\ DerivedOnce' /\ pc' \in AuthPlaces
      /\ RunTypeOK' /\ (Settled => Settled')
  BY <1>1, BetweenKeeps DEF AuthTypeOK, RunTypeOK
<1>3. AuthTypeOK'
  <2>1. /\ ask' \in Nat \ {0} /\ query' \in Nat \ {0} /\ seen' \in BOOLEAN
        /\ per_block' \in Nat /\ block' \in 0 .. NoBlock /\ failed' \in Seq(ReportOf)
    <3>1. CASE Failed \/ NoPolicy
      BY <3>1 DEF Failed, NoPolicy, askVars, AuthTypeOK
    <3>2. CASE RunDone
      <4>1. <<>> \in Seq(ReportOf) /\ NoBlock \in 0 .. NoBlock
        BY EmptySeq DEF NoBlock
      <4>2. CASE ask' = 1 /\ query' = 1 /\ seen' = FALSE /\ per_block' = 0 /\ block' = NoBlock
                 /\ failed' = <<>>
        <5>1. ask' \in Nat \ {0} /\ query' \in Nat \ {0} /\ per_block' \in Nat
          BY <4>2
        <5>2. seen' \in BOOLEAN
          BY <4>2
        <5>3. failed' \in Seq(ReportOf) /\ block' \in 0 .. NoBlock
          BY <4>1, <4>2
        <5>4. QED
          BY <5>1, <5>2, <5>3
      <4>3. CASE UNCHANGED askVars
        BY <4>3 DEF askVars, AuthTypeOK
      <4>4. QED
        BY <3>2, <4>2, <4>3 DEF RunDone
    <3>3. QED
      BY <3>1, <3>2
  <2>2. out' \in VerdictOf
    BY DEF Failed, NoPolicy, RunDone, AuthTypeOK, VerdictOf
  <2>3. QED
    BY <1>1, <1>2, <2>1, <2>2 DEF AuthTypeOK
<1>4. CASE Failed
  <2>1. Finished' /\ phase' = "idle" /\ pc' = "ran" /\ out' = out
    BY <1>4 DEF Failed, engineVars, walkVars, Finished
  <2>2. out = Cleared
    BY <1>1 DEF AuthInv
  <2>3. QED
    BY <1>3, <1>2, <2>1, <2>2, IdleInv
<1>5. CASE NoPolicy
  <2>1. phase' = "idle" /\ pc' = "ran" /\ status' = "OK" /\ phase = "policy"
    BY <1>5 DEF NoPolicy, Return, Stop
  <2>2. Settled
    BY <2>1 DEF AuthInv, Asking
  <2>3. Finished'
    BY <1>2, <2>2 DEF Finished
  <2>4. QED
    BY <1>3, <1>2, <2>1, <2>3, IdleInv
<1>6. CASE RunDone
  <2>1. Settled /\ out' = Cleared
    BY <1>6 DEF RunDone, AuthInv, Finished
  <2>2. CASE phase' = "check" /\ pc' = "open" /\ status' = "none" /\ ask' = 1
    <3>1. AskPlaced'
      <4>1. Len(world.checks)' \in Nat
        BY <1>2, LenProperties DEF RunTypeOK, World
      <4>2. QED
        BY <2>2, <4>1 DEF AskPlaced
    <3>2. QED
      BY <1>3, <1>2, <2>1, <2>2, <3>1, AskingInv
  <2>3. CASE phase' = "idle" /\ pc' = "ran" /\ status' = "NOMEM"
    <3>1. Finished'
      BY <2>3 DEF Finished
    <3>2. QED
      BY <1>3, <1>2, <2>1, <2>3, <3>1, IdleInv
  <2>4. QED
    BY <1>6, <2>2, <2>3 DEF RunDone, Return, Stop
<1>7. QED
  BY <1>3, <1>4, <1>5, <1>6

\* A check or a policy opened or settled, a query passed over.
LEMMA SettlesTyped ==
  ASSUME AuthTypeOK, AuthInv, FromWorlds,
         OpenCheck \/ QueryYes \/ QueryNo \/ NoQueryMatched \/ ChecksDone
  PROVE  AuthTypeOK' /\ AuthInv'
<1>1. /\ UNCHANGED <<facts, steps, solverVars, world, terms, runVars, answerVars>>
      /\ Asking /\ phase \in {"check", "policy"} /\ pc # "ran"
  BY DEF OpenCheck, QueryYes, QueryNo, NoQueryMatched, ChecksDone, Judging, Asking,
         Accepted, Rejected, Exhausted
<1>2. \/ pc' \in {"open", "pick"} /\ status' = status /\ phase' \in {"check", "policy"}
         /\ out' = out
      \/ QueryYes /\ phase = "policy" /\ PolicyDecides
  BY <1>1 DEF OpenCheck, QueryYes, QueryNo, NoQueryMatched, ChecksDone, CheckSettled
<1>3. pc' \in {"open", "pick", "ran"} /\ status' \in {status, "OK"}
  BY <1>2 DEF PolicyDecides, Return, Stop
<1>4. /\ SolverTypeOK' /\ WalkInv' /\ FactsGrow' /\ DerivedOnce' /\ pc' \in AuthPlaces
      /\ RunTypeOK' /\ Settled'
  BY <1>1, <1>3, BetweenKeeps DEF AuthTypeOK, RunTypeOK, AuthInv
<1>5. /\ world.checks \in Seq(Check) /\ world.policies \in Seq(Policy)
      /\ Len(world.checks) \in Nat /\ Len(world.policies) \in Nat
      /\ ask \in Nat \ {0} /\ query \in Nat \ {0} /\ seen \in BOOLEAN
      /\ per_block \in Nat /\ block \in 0 .. NoBlock /\ failed \in Seq(ReportOf)
      /\ out \in VerdictOf /\ AskPlaced /\ out = Cleared
  BY <1>1, LenProperties DEF AuthTypeOK, AuthInv, RunTypeOK, World
<1>6. CASE OpenCheck
  <2>1. /\ pc' = "pick" /\ phase' = phase /\ phase = "check" /\ out' = out
        /\ query' = 1 /\ ask' = ask /\ seen' = seen /\ failed' = failed
        /\ block' = world.checks[ask].block /\ per_block' \in {0, per_block}
        /\ ask <= Len(world.checks)
    BY <1>6 DEF OpenCheck
  <2>2. block' \in 0 .. NoBlock
    <3>1. ask \in DOMAIN world.checks
      BY <1>5, <2>1, LenProperties
    <3>2. world.checks[ask] \in Check
      BY <1>5, <3>1, ElementOfSeq, LenProperties
    <3>3. block' \in 0 .. MaxBlocks
      BY <2>1, <3>2 DEF Check
    <3>4. QED
      BY <3>3 DEF NoBlock
  <2>3. AuthTypeOK'
    BY <1>4, <1>5, <2>1, <2>2 DEF AuthTypeOK
  <2>4. AskPlaced'
    BY <1>1, <1>5, <2>1 DEF AskPlaced
  <2>5. QED
    BY <1>4, <1>5, <2>1, <2>3, <2>4, AskingInv
<1>7. ASSUME NEW holds \in BOOLEAN, CheckSettled(holds), phase = "check", pc # "open"
      PROVE  AuthTypeOK' /\ AuthInv'
  <2>1. /\ pc' = "open" /\ phase' = "check" /\ out' = out
        /\ query' = query /\ ask' = ask + 1 /\ seen' = seen
        /\ per_block' = per_block + 1 /\ block' = block
    BY <1>7 DEF CheckSettled
  <2>2. failed' \in Seq(ReportOf)
    BY <1>1, <1>5, <1>7, ReportTyped
  <2>3. ask' \in Nat \ {0} /\ per_block' \in Nat
    BY <1>5, <2>1
  <2>4. AuthTypeOK'
    BY <1>4, <1>5, <2>1, <2>2, <2>3 DEF AuthTypeOK
  <2>5. AskPlaced'
    <3>1. ask <= Len(world.checks)
      BY <1>1, <1>5, <1>7 DEF AskPlaced
    <3>2. QED
      BY <1>1, <1>5, <2>1, <3>1 DEF AskPlaced
  <2>6. QED
    BY <1>4, <1>5, <2>1, <2>4, <2>5, AskingInv
<1>8. CASE QueryYes
  <2>1. CASE phase = "check"
    <3>1. PICK holds \in BOOLEAN : CheckSettled(holds)
      BY <1>8, <2>1 DEF QueryYes
    <3>2. pc # "open"
      BY <1>8 DEF QueryYes, Judging, Accepted, Rejected, Exhausted
    <3>3. QED
      BY <1>7, <2>1, <3>1, <3>2
  <2>2. CASE phase = "policy"
    <3>1. PolicyDecides
      BY <1>8, <2>2 DEF QueryYes
    <3>2. /\ out' = [kind |-> Verdict, policy |-> ask, failed |-> failed]
          /\ phase' = "idle" /\ pc' = "ran" /\ status' = "OK" /\ UNCHANGED askVars
      BY <3>1 DEF PolicyDecides, Return, Stop
    <3>3. out' \in VerdictOf
      BY <1>5, <3>2 DEF VerdictOf, Verdict
    <3>4. AuthTypeOK'
      BY <1>4, <1>5, <3>2, <3>3 DEF AuthTypeOK, askVars
    <3>5. Finished'
      BY <1>4 DEF Finished
    <3>6. QED
      BY <1>4, <3>2, <3>4, <3>5, IdleInv
  <2>3. QED
    BY <1>1, <2>1, <2>2
<1>9. CASE QueryNo
  <2>1. /\ pc' = "pick" /\ phase' = phase /\ out' = out
        /\ query' = query + 1 /\ ask' = ask /\ seen' = seen /\ failed' = failed
        /\ block' = block /\ per_block' = per_block /\ pc \in {"test", "again", "done"}
    BY <1>9 DEF QueryNo, Judging, Accepted, Rejected, Exhausted
  <2>2. query' \in Nat \ {0}
    BY <1>5, <2>1
  <2>3. AuthTypeOK'
    BY <1>1, <1>4, <1>5, <2>1, <2>2 DEF AuthTypeOK
  <2>4. AskPlaced'
    BY <1>1, <1>5, <2>1 DEF AskPlaced
  <2>5. QED
    BY <1>1, <1>4, <1>5, <2>1, <2>3, <2>4, AskingInv
<1>10. CASE NoQueryMatched
  <2>1. CASE phase = "check"
    <3>1. PICK holds \in BOOLEAN : CheckSettled(holds)
      BY <1>10, <2>1 DEF NoQueryMatched
    <3>2. pc # "open"
      BY <1>10 DEF NoQueryMatched
    <3>3. QED
      BY <1>7, <2>1, <3>1, <3>2
  <2>2. CASE phase = "policy"
    <3>1. /\ pc' = "pick" /\ phase' = "policy" /\ out' = out
          /\ query' = 1 /\ ask' = ask + 1 /\ seen' = seen /\ failed' = failed
          /\ block' = block /\ per_block' = per_block /\ ask <= Len(world.policies)
      BY <1>10, <2>2 DEF NoQueryMatched
    <3>2. query' \in Nat \ {0} /\ ask' \in Nat \ {0}
      BY <1>5, <3>1
    <3>3. AuthTypeOK'
      BY <1>4, <1>5, <3>1, <3>2 DEF AuthTypeOK
    <3>4. AskPlaced'
      BY <1>1, <1>5, <3>1 DEF AskPlaced
    <3>5. QED
      BY <1>4, <1>5, <3>1, <3>3, <3>4, AskingInv
  <2>3. QED
    BY <1>1, <2>1, <2>2
<1>11. CASE ChecksDone
  <2>1. /\ pc' = "pick" /\ phase' = "policy" /\ out' = out
        /\ query' = 1 /\ ask' = 1 /\ seen' = seen /\ failed' = failed
        /\ block' = block /\ per_block' = per_block
    BY <1>11 DEF ChecksDone
  <2>2. AuthTypeOK'
    BY <1>4, <1>5, <2>1 DEF AuthTypeOK
  <2>3. AskPlaced'
    BY <1>1, <1>5, <2>1 DEF AskPlaced
  <2>4. QED
    BY <1>4, <1>5, <2>1, <2>2, <2>3, AskingInv
<1>12. QED
  BY <1>6, <1>8, <1>9, <1>10, <1>11

\* The limits and failures a walk can meet while a query is asked.
Breaking == WalkLimit \/ TestLimit \/ TestBreaks

\* A turn of a query's walk, and what is made of its answers.
Walking == QueryOn \/ AnswerFound \/ NextMatch

LEMMA WalkingMoves ==
  ASSUME AuthTypeOK, AuthInv, Walking
  PROVE  /\ Asking /\ (InWalk \/ pc = "limit")
         /\ UNCHANGED <<facts, rule, world, phase, ask, query, per_block, block, failed, out>>
         /\ pc \in WalkPlaces \cup {"test", "again"}
         /\ \/ Breaking /\ pc' = "ran" /\ status' \in {"LIMIT", "ERROR"}
            \/ pc' \in WalkPlaces \cup {"test", "again"} /\ status' = status
<1>1. CASE Breaking /\ Asking /\ UNCHANGED decisionVars
  BY <1>1 DEF Breaking, WalkLimit, TestLimit, TestBreaks, Testing, Stop, solverVars,
              decisionVars, askVars, InWalk, AtAnswer, WalkPlaces
<1>2. CASE TestDecides /\ Asking /\ UNCHANGED decisionVars
  BY <1>2 DEF TestDecides, Testing, solverVars, decisionVars, askVars, InWalk, AtAnswer
<1>3. CASE WalkOn /\ Asking /\ UNCHANGED decisionVars
  BY <1>3, WalkPlacesKept DEF WalkOn, decisionVars, askVars, InWalk, WalkPlaces
<1>4. CASE AnswerFound
  BY <1>4 DEF AnswerFound, Consider, solverVars, InWalk, AtAnswer, WalkPlaces
<1>5. CASE NextMatch
  <2>1. /\ pc \in {"test", "again"} /\ AskAgain /\ Asking
        /\ UNCHANGED <<world, status, decisionVars>>
    BY <1>5 DEF NextMatch, Judging, Accepted, Rejected, Exhausted
  <2>2. QED
    BY <2>1, WalkPlacesKept DEF decisionVars, askVars, InWalk, AtAnswer
<1>6. QED
  BY <1>1, <1>2, <1>3, <1>4, <1>5 DEF Walking, QueryOn, Breaking

\* A step that leaves the world alone keeps the run's types.
LEMMA WalkingTyped ==
  ASSUME AuthTypeOK, AuthInv, Walking
  PROVE  AuthTypeOK' /\ AuthInv'
<1>1. /\ Asking /\ pc \in WalkPlaces \cup {"test", "again"}
      /\ UNCHANGED <<facts, rule, world, phase, ask, query, per_block, block, failed, out>>
      /\ \/ Breaking /\ pc' = "ran" /\ status' \in {"LIMIT", "ERROR"}
         \/ pc' \in WalkPlaces \cup {"test", "again"} /\ status' = status
  BY WalkingMoves
<1>2. EngineTypeOK /\ SolverTypeOK /\ WalkInv
  BY <1>1 DEF AuthTypeOK, AuthInv, EngineTypeOK, EnginePlaces
<1>3. SolverTypeOK' /\ WalkInv'
  <2>1. CASE QueryOn \/ AnswerFound
    <3>1. RunStep
      BY <2>1 DEF QueryOn, AnswerFound, RunStep
    <3>2. QED
      BY <1>2, <3>1, EngineSolverTyped, EngineWalkInv
  <2>2. CASE NextMatch
    BY <1>2, <2>2, StepTyped, StepInv DEF NextMatch
  <2>3. QED
    BY <2>1, <2>2 DEF Walking
<1>4. RunTypeOK'
  <2>1. UNCHANGED <<terms, runVars, candidate, scan>> /\ test' \in Nat \ {0}
    <3>1. test \in Nat \ {0}
      BY DEF AuthTypeOK, RunTypeOK
    <3>2. CASE QueryOn
      BY <3>1, <3>2 DEF QueryOn, WalkOn, WalkLimit, TestLimit, TestBreaks, TestDecides, answerVars
    <3>3. CASE AnswerFound
      BY <3>3 DEF AnswerFound, Consider
    <3>4. CASE NextMatch
      BY <3>1, <3>4 DEF NextMatch, answerVars
    <3>5. QED
      BY <3>2, <3>3, <3>4 DEF Walking
  <2>2. status' \in {"none", "OK", "LIMIT", "NOMEM", "ERROR", "UNBOUND"}
    BY <1>1 DEF AuthTypeOK, RunTypeOK
  <2>3. QED
    BY <1>1, <2>1, <2>2 DEF AuthTypeOK, RunTypeOK, runVars
<1>5. seen' \in BOOLEAN
  <2>1. seen' = seen \/ seen' = TRUE
    BY DEF Walking, QueryOn, AnswerFound, NextMatch, decisionVars, askVars
  <2>2. QED
    BY <2>1 DEF AuthTypeOK
<1>6. pc' \in AuthPlaces /\ pc' # "open"
  BY <1>1 DEF AuthPlaces, EnginePlaces, WalkPlaces
<1>7. AuthTypeOK'
  BY <1>1, <1>3, <1>4, <1>5, <1>6 DEF AuthTypeOK
<1>8. AskPlaced'
  <2>1. AskPlaced /\ pc \notin {"ran", "open", "pick"}
    BY <1>1 DEF AuthInv, WalkPlaces
  <2>2. QED
    BY <1>1, <1>6, <2>1 DEF AskPlaced
<1>9. Settled /\ out = Cleared /\ phase \in {"check", "policy"}
  BY <1>1 DEF AuthInv, Asking
<1>10. FactsGrow' /\ DerivedOnce' /\ Settled'
  BY <1>1, <1>9, FixpointKept
<1>11. pc' # "dup" /\ (pc' = "ran" => status' # "OK")
  BY <1>1 DEF WalkPlaces
<1>12. QED
  BY <1>1, <1>3, <1>7, <1>8, <1>9, <1>10, <1>11, AskingInv

\* A query is asked: its body is one, and the walk begins.
LEMMA AskTyped ==
  ASSUME AuthTypeOK, AuthInv, FromWorlds, AskQuery
  PROVE  /\ AuthTypeOK' /\ AuthInv'
         /\ Query \in Rule /\ Query' = Query /\ UNCHANGED <<facts, world>>
<1>1. /\ Asking /\ pc = "pick" /\ QueriesLeft /\ BeginWalk(Query)
      /\ phase = "policy" => ask <= Len(world.policies)
      /\ seen' = FALSE
      /\ UNCHANGED <<facts, steps, world, terms, runVars, answerVars, status,
                     phase, ask, query, per_block, block, failed, out>>
  BY DEF AskQuery
<1>2. Query \in Rule
  <2>1. query \in 1 .. Asked.query_count
    BY <1>1, AskedTyped DEF QueriesLeft, AuthTypeOK, AuthInv
  <2>2. QED
    BY <1>1, <2>1, AskedTyped DEF Query, AuthInv
<1>3. Query' = Query
  BY <1>1 DEF Query, Asked
<1>4. SolverTypeOK' /\ WalkInv' /\ pc' \in {"walk", "limit"}
  <2>1. CASE Len(Query.body) <= MaxBody
    BY <1>1, <1>2, <2>1, WalkBegun DEF AuthTypeOK
  <2>2. CASE ~(Len(Query.body) <= MaxBody)
    <3>1. Len(Query.body) > MaxBody
      BY <1>2, <2>2, LenProperties DEF Rule
    <3>2. UNCHANGED solverVars /\ pc' = "limit"
      BY <1>1, <3>1 DEF BeginWalk
    <3>3. QED
      BY <1>1, <3>2, SolverUnmoved, WalkKept, LenProperties DEF AuthTypeOK, AuthInv, SolverTypeOK
  <2>3. QED
    BY <2>1, <2>2
<1>5. RunTypeOK' /\ pc' \in AuthPlaces
  BY <1>1, <1>4 DEF AuthTypeOK, RunTypeOK, runVars, answerVars, AuthPlaces, EnginePlaces,
                    WalkPlaces
<1>6. AuthTypeOK'
  BY <1>1, <1>4, <1>5 DEF AuthTypeOK
<1>7. AskPlaced'
  <2>1. AskPlaced
    BY DEF AuthInv
  <2>2. QED
    BY <1>1, <1>4, <2>1 DEF AskPlaced
<1>8. Settled /\ out = Cleared /\ phase \in {"check", "policy"}
  BY <1>1 DEF AuthInv, Asking
<1>9. FactsGrow' /\ DerivedOnce' /\ Settled'
  BY <1>1, <1>8, FixpointKept
<1>10. AuthInv'
  BY <1>1, <1>4, <1>7, <1>8, <1>9, AskingInv
<1>11. QED
  BY <1>1, <1>2, <1>3, <1>6, <1>10

LEMMA AuthStarts ==
  ASSUME AuthInit
  PROVE  AuthTypeOK /\ AuthInv /\ FromWorlds
<1>1. EngineInit /\ phase = "idle" /\ pc = "ran" /\ world \in Worlds /\ status = "none"
  BY DEF AuthInit, EngineInit, EngineStart
<1>2. EngineTypeOK /\ EngineInv
  BY <1>1, EngineInitially
<1>3. DerivedOnce
  <2>1. facts = world.facts /\ Len(facts) \in Nat
    BY <1>1, <1>2, LenProperties DEF EngineInit, EngineStart, EngineTypeOK, SolverTypeOK
  <2>2. QED
    BY <2>1 DEF DerivedOnce, Loaded
<1>4. Finished
  BY <1>1 DEF Finished
<1>5. out \in VerdictOf /\ failed \in Seq(ReportOf) /\ block \in 0 .. NoBlock
  <2>1. <<>> \in Seq(ReportOf)
    BY EmptySeq
  <2>2. out = Cleared /\ failed = <<>> /\ block = NoBlock
    BY DEF AuthInit
  <2>3. QED
    BY <2>1, <2>2 DEF VerdictOf, Cleared, NoBlock
<1>6. AuthTypeOK
  <2>1. ask \in Nat \ {0} /\ query \in Nat \ {0} /\ per_block \in Nat
    BY DEF AuthInit
  <2>2. seen \in BOOLEAN
    BY DEF AuthInit
  <2>3. QED
    BY <1>1, <1>2, <1>5, <2>1, <2>2 DEF AuthTypeOK, EngineTypeOK, AuthPlaces
<1>7. AuthInv
  BY <1>1, <1>2, <1>3, <1>4 DEF AuthInit, AuthInv, EngineInv, AskPlaced, Asking
<1>8. QED
  BY <1>1, <1>6, <1>7 DEF FromWorlds

LEMMA AuthStepTyped ==
  ASSUME AuthTypeOK, AuthInv, FromWorlds, [AuthNext]_authVars
  PROVE  AuthTypeOK' /\ AuthInv' /\ FromWorlds' /\ world' = world
<1>1. CASE Authorize \/ RunOn
  BY <1>1, RunningStep DEF FromWorlds
<1>2. CASE Failed \/ NoPolicy \/ RunDone
  <2>1. world' = world
    BY <1>2 DEF Failed, NoPolicy, RunDone, engineVars
  <2>2. QED
    BY <1>2, <2>1, StopsTyped DEF FromWorlds
<1>3. CASE OpenCheck \/ QueryYes \/ QueryNo \/ NoQueryMatched \/ ChecksDone
  <2>1. world' = world
    BY <1>3 DEF OpenCheck, QueryYes, QueryNo, NoQueryMatched, ChecksDone
  <2>2. QED
    BY <1>3, <2>1, SettlesTyped DEF FromWorlds
<1>4. CASE Walking
  BY <1>4, WalkingTyped, WalkingMoves DEF FromWorlds
<1>5. CASE AskQuery
  BY <1>5, AskTyped DEF FromWorlds
<1>6. CASE UNCHANGED authVars
  <2>1. UNCHANGED <<engineVars, decisionVars>>
    BY <1>6 DEF authVars
  <2>2. UNCHANGED <<facts, steps, solverVars, pc, world, terms, runVars, answerVars, status,
                    phase, ask, query, seen, per_block, block, failed, out>>
    BY <2>1 DEF engineVars, walkVars, decisionVars, askVars
  <2>3. AuthTypeOK' /\ FromWorlds'
    BY <2>2 DEF AuthTypeOK, SolverTypeOK, RunTypeOK, solverVars, runVars, answerVars, FromWorlds
  <2>4. CASE phase = "run"
    <3>1. EngineTypeOK /\ EngineKnows /\ UNCHANGED engineVars
      BY <2>1, <2>4, RestKnows
    <3>2. EngineTypeOK' /\ EngineKnows'
      BY <3>1, KnowsStep
    <3>3. AskPlaced'
      BY <2>2, <2>4 DEF AskPlaced
    <3>4. QED
      BY <2>2, <2>3, <2>4, <3>2, <3>3 DEF AuthInv, EngineKnows, EngineInv, EngineTypeOK, Asking
  <2>5. CASE phase # "run"
    <3>1. WalkInv'
      <4>1. SolverTypeOK /\ WalkInv
        BY DEF AuthTypeOK, AuthInv
      <4>2. QED
        BY <2>2, <4>1, WalkUnmoved DEF solverVars
    <3>2. FactsGrow' /\ DerivedOnce' /\ (Settled => Settled')
      BY <2>2, FixpointKept
    <3>3. Finished' /\ AskPlaced'
      BY <2>2, <3>2 DEF AuthInv, Finished, AskPlaced
    <3>4. QED
      BY <2>2, <2>3, <2>5, <3>1, <3>2, <3>3 DEF AuthInv, Asking
  <2>6. QED
    BY <2>4, <2>5
<1>7. QED
  BY <1>1, <1>2, <1>3, <1>4, <1>5, <1>6 DEF AuthNext, AuthStep, Idle, Walking

\* Whatever is asked of whatever world: a query is asked of the fixpoint,
\* by a walk that keeps its invariant, of a rule that is there; and there is
\* no verdict before the last answer (145_authorize.inc, bs_authorize).
THEOREM AuthInvariant == AuthSpec => [](AuthTypeOK /\ AuthInv /\ FromWorlds)
<1>1. AuthInit => AuthTypeOK /\ AuthInv /\ FromWorlds
  BY AuthStarts
<1>2. AuthTypeOK /\ AuthInv /\ FromWorlds /\ [AuthNext]_authVars
        => AuthTypeOK' /\ AuthInv' /\ FromWorlds'
  BY AuthStepTyped
<1>3. QED
  BY <1>1, <1>2, PTL DEF AuthSpec

-----------------------------------------------------------------------------
(* The report.                                                             *)

LEMMA PlaceKept ==
  ASSUME UNCHANGED world
  PROVE  /\ \A k : PlaceInBlock(k)' = PlaceInBlock(k)
         /\ \A r : Placed(r)' <=> Placed(r)
         /\ ChecksTogether' <=> ChecksTogether
BY DEF PlaceInBlock, Placed, ChecksTogether

\* The checks of a block stand together, so the one after the last of another
\* block is the first of its own, and the next is one more.
LEMMA PlaceOfNext ==
  ASSUME ChecksTogether, world.checks \in Seq(Check), NEW a \in DOMAIN world.checks, a > 1
  PROVE  /\ PlaceInBlock(a - 1) \in Nat
         /\ PlaceInBlock(a) = IF world.checks[a - 1].block = world.checks[a].block
                              THEN PlaceInBlock(a - 1) + 1 ELSE 0
<1> DEFINE cs == world.checks
           S == {j \in 1 .. (a - 1) - 1 : cs[j].block = cs[a - 1].block}
           T == {j \in 1 .. a - 1 : cs[j].block = cs[a].block}
<1>1. /\ a \in Nat /\ a - 1 \in DOMAIN cs /\ a - 1 \in Nat /\ DOMAIN cs = 1 .. Len(cs)
      /\ Len(cs) \in Nat
  BY LenProperties
<1>2. IsFiniteSet(S) /\ Cardinality(S) \in Nat
  <2>1. IsFiniteSet(1 .. (a - 1) - 1)
    BY <1>1, FS_Interval
  <2>2. IsFiniteSet(S)
    BY <2>1, FS_Subset
  <2>3. QED
    BY <2>2, FS_CardinalityType
<1>3. PlaceInBlock(a - 1) = Cardinality(S) /\ PlaceInBlock(a) = Cardinality(T)
  BY DEF PlaceInBlock
<1>4. CASE cs[a - 1].block = cs[a].block
  <2>1. T = S \cup {a - 1}
    BY <1>1, <1>4
  <2>2. a - 1 \notin S
    BY <1>1
  <2>3. Cardinality(T) = Cardinality(S) + 1
    BY <1>2, <2>1, <2>2, FS_AddElement
  <2>4. QED
    BY <1>2, <1>3, <1>4, <2>3
<1>5. CASE cs[a - 1].block # cs[a].block
  <2>1. ASSUME NEW j \in T PROVE FALSE
    <3>1. j \in DOMAIN cs /\ j <= a - 1 /\ cs[j].block = cs[a].block
      BY <1>1
    <3>2. j # a - 1
      BY <1>5, <3>1
    <3>3. j < a - 1 /\ a - 1 < a
      BY <1>1, <3>1, <3>2
    <3>4. cs[a - 1].block = cs[j].block
      BY <1>1, <3>1, <3>3 DEF ChecksTogether
    <3>5. QED
      BY <1>5, <3>1, <3>4
  <2>2. T = {}
    BY <2>1
  <2>3. Cardinality(T) = 0
    BY <2>2, FS_EmptySet
  <2>4. QED
    BY <1>2, <1>3, <1>5, <2>3
<1>6. QED
  BY <1>4, <1>5

LEMMA PlaceOfFirst == PlaceInBlock(1) = 0
<1>1. {j \in 1 .. 1 - 1 : world.checks[j].block = world.checks[1].block} = {}
  OBVIOUS
<1>2. QED
  BY <1>1, FS_EmptySet DEF PlaceInBlock

\* A check that is settled is reported by its block and its place there.
LEMMA SettledPlace ==
  ASSUME AuthTypeOK, AuthInv, FromWorlds, ChecksTogether, ReportsSoFar, UNCHANGED world,
         phase = "check", pc \notin {"open", "ran"}, NEW holds \in BOOLEAN,
         CheckSettled(holds)
  PROVE  CountSoFar' /\ Placed(failed)'
<1>1. /\ failed' = IF holds THEN failed ELSE Append(failed, Report)
      /\ per_block' = per_block + 1 /\ ask' = ask + 1 /\ pc' = "open" /\ block' = block
      /\ phase' = "check"
  BY DEF CheckSettled
<1>2. /\ block = world.checks[ask].block /\ per_block = PlaceInBlock(ask) /\ Placed(failed)
  BY DEF ReportsSoFar, CountSoFar, Asking
<1>3. /\ ask \in DOMAIN world.checks /\ Asked = world.checks[ask]
      /\ ask \in Nat \ {0} /\ failed \in Seq(ReportOf)
  BY AskedTyped DEF Asking, AuthInv, AuthTypeOK
<1>4. CountSoFar'
  <2>1. ask' > 1 /\ ask' - 1 = ask /\ ask' # 1
    BY <1>1, <1>3
  <2>2. PICK k : k = ask
    OBVIOUS
  <2>3. PlaceInBlock(k)' = PlaceInBlock(k)
    BY PlaceKept
  <2>4. per_block' = PlaceInBlock(k)' + 1 /\ block' = world'.checks[k].block
    BY <1>1, <1>2, <2>2, <2>3
  <2>5. QED
    BY <1>1, <2>1, <2>2, <2>4 DEF CountSoFar
<1>5. Placed(failed)'
  <2>1. PICK fs : fs = failed'
    OBVIOUS
  <2>2. \A n \in DOMAIN fs : (n \in DOMAIN failed /\ fs[n] = failed[n]) \/ fs[n] = Report
    BY <1>1, <1>3, <2>1, LenProperties, AppendProperties
  <2>3. /\ Report.check = ask /\ Report.block = world.checks[ask].block
        /\ Report.index = PlaceInBlock(ask)
    BY <1>2, <1>3 DEF Report
  <2>4. Placed(fs)
    BY <1>2, <1>3, <2>2, <2>3 DEF Placed
  <2>5. Placed(fs)'
    BY <2>4, PlaceKept
  <2>6. QED
    BY <2>1, <2>5
<1>6. QED
  BY <1>4, <1>5

\* What settles nothing moves no count and no report.
LEMMA PlacesUnmoved ==
  ASSUME ReportsSoFar, UNCHANGED <<world, ask, per_block, block, failed, phase>>,
         pc \notin {"open", "ran"}, pc' # "open", ReportsPlace'
  PROVE  ReportsSoFar'
<1> SUFFICES ASSUME ChecksTogether PROVE CountSoFar' /\ (Asking' => Placed(failed)')
  BY PlaceKept DEF ReportsSoFar
<1>1. CountSoFar'
  <2>1. PICK k : k = ask
    OBVIOUS
  <2>2. PlaceInBlock(k)' = PlaceInBlock(k)
    BY PlaceKept
  <2>3. phase = "check" => block = world.checks[k].block /\ per_block = PlaceInBlock(k)
    BY <2>1 DEF ReportsSoFar, CountSoFar
  <2>4. phase = "check" => block' = world'.checks[k].block /\ per_block' = PlaceInBlock(k)'
    BY <2>2, <2>3
  <2>5. QED
    BY <2>1, <2>4 DEF CountSoFar
<1>2. Asking' => Placed(failed)'
  <2>1. PICK fs : fs = failed
    OBVIOUS
  <2>2. Asking' => Placed(fs)'
    BY <2>1, PlaceKept DEF Asking, ReportsSoFar
  <2>3. QED
    BY <2>1, <2>2
<1>3. QED
  BY <1>1, <1>2

LEMMA OpenedPlace ==
  ASSUME AuthTypeOK, AuthInv, ReportsSoFar, OpenCheck, ReportsPlace'
  PROVE  ReportsSoFar'
<1>1. /\ pc' = "pick" /\ phase' = "check" /\ pc = "open" /\ phase = "check"
      /\ UNCHANGED <<world, ask, failed>>
      /\ block' = world.checks[ask].block
      /\ per_block' = IF block = block' THEN per_block ELSE 0
      /\ ask <= Len(world.checks)
  BY DEF OpenCheck
<1>2. /\ world.checks \in Seq(Check) /\ ask \in DOMAIN world.checks
      /\ ask \in Nat \ {0} /\ world.checks[ask] \in Check
  <2>1. world.checks \in Seq(Check) /\ ask \in Nat \ {0}
    BY DEF AuthTypeOK, RunTypeOK, World
  <2>2. ask \in DOMAIN world.checks
    BY <1>1, <2>1, LenProperties
  <2>3. QED
    BY <2>1, <2>2, LenProperties, ElementOfSeq
<1> SUFFICES ASSUME ChecksTogether PROVE CountSoFar' /\ (Asking' => Placed(failed)')
  BY <1>1, PlaceKept DEF ReportsSoFar
<1>3. PICK k : k = ask
  OBVIOUS
<1>4. per_block' = PlaceInBlock(k)
  <2>1. CASE k = 1
    <3>1. block = NoBlock /\ block' \in 0 .. MaxBlocks
      BY <1>1, <1>2, <1>3, <2>1 DEF ReportsSoFar, CountSoFar, Check
    <3>2. per_block' = 0
      BY <1>1, <3>1 DEF NoBlock
    <3>3. QED
      BY <2>1, <3>2, PlaceOfFirst
  <2>2. CASE k # 1
    <3>1. k > 1 /\ k \in DOMAIN world.checks
      BY <1>2, <1>3, <2>2
    <3>2. block = world.checks[k - 1].block /\ per_block = PlaceInBlock(k - 1) + 1
      BY <1>1, <1>3, <3>1 DEF ReportsSoFar, CountSoFar
    <3>3. PlaceInBlock(k) = IF world.checks[k - 1].block = world.checks[k].block
                            THEN PlaceInBlock(k - 1) + 1 ELSE 0
      BY <1>2, <3>1, PlaceOfNext
    <3>4. QED
      BY <1>1, <1>3, <3>2, <3>3
  <2>3. QED
    BY <2>1, <2>2
<1>5. CountSoFar'
  <2>1. PlaceInBlock(k)' = PlaceInBlock(k)
    BY <1>1, PlaceKept
  <2>2. per_block' = PlaceInBlock(k)' /\ block' = world'.checks[k].block /\ ask' = k
    BY <1>1, <1>3, <1>4, <2>1
  <2>3. QED
    BY <1>1, <2>2 DEF CountSoFar
<1>6. Asking' => Placed(failed)'
  <2>1. PICK fs : fs = failed
    OBVIOUS
  <2>2. Placed(fs)'
    BY <1>1, <2>1, PlaceKept DEF Asking, ReportsSoFar
  <2>3. QED
    BY <1>1, <2>1, <2>2
<1>7. QED
  BY <1>5, <1>6

LEMMA NothingPlaced ==
  /\ out' = Cleared => ReportsPlace'
  /\ failed' = <<>> => Placed(failed)'
<1>1. \A r : r = <<>> => Placed(r)'
  BY DEF Placed
<1>2. Cleared.failed = <<>>
  BY DEF Cleared
<1>3. QED
  BY <1>1, <1>2 DEF ReportsPlace

LEMMA PlacesStep ==
  ASSUME AuthTypeOK, AuthInv, FromWorlds, ReportsSoFar, [AuthNext]_authVars
  PROVE  ReportsSoFar'
<1>0. AuthTypeOK' /\ AuthInv' /\ world' = world
  BY AuthStepTyped
<1>1. CASE Authorize \/ RunOn
  <2>1. phase' = "run"
    BY <1>1 DEF Authorize, RunOn, decisionVars
  <2>2. out' = Cleared
    BY <1>0, <2>1 DEF AuthInv
  <2>3. QED
    BY <2>1, <2>2, NothingPlaced DEF ReportsSoFar, CountSoFar, Asking
<1>2. CASE RunDone \/ Failed
  <2>1. out' = Cleared
    <3>1. out' = out /\ phase # "idle"
      BY <1>2 DEF RunDone, Failed
    <3>2. QED
      BY <3>1 DEF AuthInv
  <2>2. CASE phase' = "idle"
    BY <2>1, <2>2, NothingPlaced DEF ReportsSoFar, CountSoFar, Asking
  <2>3. CASE phase' # "idle"
    <3>1. /\ pc' = "open" /\ ask' = 1 /\ block' = NoBlock /\ failed' = <<>>
      BY <1>2, <2>3 DEF RunDone, Failed, Return
    <3>2. QED
      BY <2>1, <3>1, NothingPlaced DEF ReportsSoFar, CountSoFar
  <2>4. QED
    BY <2>2, <2>3
<1>3. CASE NoPolicy \/ (QueryYes /\ phase = "policy")
  <2>1. /\ phase' = "idle" /\ out'.failed = failed /\ phase = "policy"
    BY <1>3 DEF NoPolicy, QueryYes, PolicyDecides, Return
  <2>2. ChecksTogether => ReportsPlace'
    <3>1. PICK fs : fs = failed
      OBVIOUS
    <3>2. ChecksTogether => Placed(fs)'
      BY <1>0, <2>1, <3>1, PlaceKept DEF ReportsSoFar, Asking
    <3>3. QED
      BY <2>1, <3>1, <3>2 DEF ReportsPlace
  <2>3. QED
    BY <1>0, <2>1, <2>2, PlaceKept DEF ReportsSoFar, CountSoFar, Asking
<1>4. ASSUME Asking, out' = out PROVE ReportsPlace'
  <2>1. out' = Cleared
    BY <1>4 DEF AuthInv, Asking
  <2>2. QED
    BY <2>1, NothingPlaced
<1>5. CASE OpenCheck
  BY <1>4, <1>5, OpenedPlace DEF OpenCheck, Asking
<1>6. CASE (QueryYes \/ NoQueryMatched) /\ phase = "check"
  <2>1. PICK holds \in BOOLEAN : CheckSettled(holds)
    BY <1>6 DEF QueryYes, NoQueryMatched
  <2>2. pc \notin {"open", "ran"} /\ Asking
    BY <1>6 DEF QueryYes, NoQueryMatched, Judging, Accepted, Rejected, Exhausted, Asking
  <2>3. out' = out
    BY <2>1 DEF CheckSettled
  <2>4. ReportsPlace'
    BY <1>4, <2>2, <2>3
  <2>5. ChecksTogether => CountSoFar' /\ Placed(failed)'
    BY <1>0, <1>6, <2>1, <2>2, SettledPlace
  <2>6. QED
    BY <1>0, <2>4, <2>5, PlaceKept DEF ReportsSoFar
<1>7. CASE ChecksDone \/ (NoQueryMatched /\ phase = "policy")
  <2>1. phase' = "policy" /\ UNCHANGED <<failed, out>> /\ Asking
    BY <1>7 DEF ChecksDone, NoQueryMatched, Asking
  <2>2. ReportsPlace'
    BY <1>4, <2>1
  <2>3. ChecksTogether => Placed(failed)'
    <3>1. PICK fs : fs = failed
      OBVIOUS
    <3>2. ChecksTogether => Placed(fs)'
      BY <1>0, <2>1, <3>1, PlaceKept DEF ReportsSoFar
    <3>3. QED
      BY <2>1, <3>1, <3>2
  <2>4. QED
    BY <1>0, <2>1, <2>2, <2>3, PlaceKept DEF ReportsSoFar, CountSoFar
<1>8. CASE QueryNo \/ Walking \/ AskQuery
  <2>1. /\ UNCHANGED <<world, ask, per_block, block, failed, phase, out>> /\ Asking
        /\ pc \notin {"open", "ran"} /\ pc' # "open"
    <3>1. CASE QueryNo \/ AskQuery
      BY <1>0, <3>1 DEF QueryNo, AskQuery, Judging, Accepted, Rejected, Exhausted, BeginWalk
    <3>2. CASE Walking
      BY <1>0, <3>2, WalkingMoves DEF WalkPlaces
    <3>3. QED
      BY <1>8, <3>1, <3>2
  <2>2. QED
    BY <1>4, <2>1, PlacesUnmoved
<1>9. CASE UNCHANGED authVars
  <2>1. UNCHANGED <<world, ask, per_block, block, failed, phase, pc, out>>
    BY <1>9 DEF authVars, engineVars, walkVars, decisionVars, askVars
  <2>2. CASE ChecksTogether
    <3>1. PICK k, j, fs, os : k = ask /\ j = ask - 1 /\ fs = failed /\ os = out.failed
      OBVIOUS
    <3>2. /\ PlaceInBlock(k)' = PlaceInBlock(k) /\ PlaceInBlock(j)' = PlaceInBlock(j)
          /\ Placed(fs)' <=> Placed(fs)
          /\ Placed(os)' <=> Placed(os)
      BY <2>1, PlaceKept
    <3>3. CountSoFar'
      BY <2>1, <2>2, <3>1, <3>2 DEF ReportsSoFar, CountSoFar
    <3>4. (Asking' => Placed(failed)') /\ ReportsPlace'
      BY <2>1, <2>2, <3>1, <3>2 DEF ReportsSoFar, ReportsPlace, Asking
    <3>5. QED
      BY <3>3, <3>4 DEF ReportsSoFar
  <2>3. CASE ~ChecksTogether
    BY <2>1, <2>3, PlaceKept DEF ReportsSoFar
  <2>4. QED
    BY <2>2, <2>3
<1>10. QED
  <2>1. (QueryYes \/ NoQueryMatched) => phase \in {"check", "policy"}
    BY DEF QueryYes, NoQueryMatched
  <2>2. QED
    BY <1>1, <1>2, <1>3, <1>5, <1>6, <1>7, <1>8, <1>9, <2>1
    DEF AuthNext, AuthStep, Idle, Walking

LEMMA PlacesInitially == AuthInit => ReportsSoFar
<1> SUFFICES ASSUME AuthInit PROVE ReportsSoFar
  OBVIOUS
<1>1. phase = "idle" /\ out.failed = <<>>
  BY DEF AuthInit, Cleared
<1>2. QED
  BY <1>1 DEF ReportsSoFar, CountSoFar, Asking, ReportsPlace, Placed

\* Whatever the world: when the checks of every block stand together, a
\* report's block and number lead to its check (145_authorize.inc, the loop
\* over the checks; 20_api.inc, bs_failed_check.index).
THEOREM AuthReportsPlace == AuthSpec => []ReportsPlaceTogether
<1>1. AuthTypeOK /\ AuthInv /\ FromWorlds /\ ReportsSoFar /\ [AuthNext]_authVars
        => ReportsSoFar'
  BY PlacesStep
<1>2. ReportsSoFar => ReportsPlaceTogether
  BY DEF ReportsSoFar, ReportsPlaceTogether
<1>3. QED
  BY <1>1, <1>2, PlacesInitially, AuthInvariant, PTL DEF AuthSpec

-----------------------------------------------------------------------------
(* One query.                                                              *)

\* An expression decided in favour of an answer holds under every
\* substitution that explains its facts.
LEMMA PassingForced ==
  ASSUME SolverTypeOK, WalkInv, BindsSourced, level = Len(rule.body),
         NEW e \in Test, ~Breaks(e), Passes(e)
  PROVE  HoldsFor(e, Choice)
<1> SUFFICES ASSUME NEW s \in [Var -> Term], Explains(rule, facts, Choice, s)
             PROVE  Holds(e, s)
  BY DEF HoldsFor
<1>1. /\ e.left \in Term /\ e.right \in Term
      /\ e.op \in {"equal", "unequal", "overflow"}
  BY DEF Test
<1>2. ~Missing(e.left) /\ ~Missing(e.right) /\ e.op # "overflow"
  BY DEF Breaks, Evaluable, Clashes
<1>3. Resolved(e.left) = Under(e.left, s) /\ Resolved(e.right) = Under(e.right, s)
  BY <1>1, <1>2, ChoiceForces
<1>4. QED
  BY <1>1, <1>2, <1>3 DEF Passes, Holds

\* What is said of a match stays said while the rule and the facts stay.
LEMMA SaidKept ==
  ASSUME UNCHANGED <<rule, facts>>
  PROVE  /\ \A t : (PassesAlways(t)' <=> PassesAlways(t)) /\ (PassesNever(t)' <=> PassesNever(t))
         /\ \A e, t : HoldsFor(e, t)' <=> HoldsFor(e, t)
BY DEF PassesAlways, PassesNever, HoldsFor

\* All expressions hold once the last one does.
LEMMA AcceptedPasses ==
  ASSUME SolverTypeOK, AnswersSoFar, Accepted, test \in Nat
  PROVE  PassesAlways(Choice)
<1>1. rule.expr \in Seq(Test)
  BY DEF SolverTypeOK, Rule
<1>2. \A k \in DOMAIN rule.expr : HoldsFor(rule.expr[k], Choice)
  BY <1>1, LenProperties DEF AnswersSoFar, Accepted
<1>3. QED
  BY <1>2 DEF PassesAlways, Passing, HoldsFor

\* The query and what is asked of it stay while its walk goes on.
LEMMA QueryKept ==
  ASSUME UNCHANGED <<world, phase, ask, query>>
  PROVE  Query' = Query /\ (QueriesLeft' <=> QueriesLeft) /\ (WantsAll' <=> WantsAll)
         /\ (Asking' <=> Asking)
BY DEF Query, Asked, QueriesLeft, WantsAll, Asking

\* A turn of the walk finds one answer at most.
LEMMA QueryWalks ==
  ASSUME AuthTypeOK, AuthInv, QuerySoFar, Asking, pc' # "limit",
         WalkOn /\ UNCHANGED decisionVars
  PROVE  WalkOfQuery' /\ AnswersSoFar'
<1>1. /\ SolverStep /\ pc \in {"walk", "unify"} /\ pc' \in WalkPlaces
      /\ UNCHANGED <<rule, facts, world, phase, ask, query, seen>>
  BY WalkPlacesKept DEF WalkOn, decisionVars, askVars
<1>2. WalkOfQuery /\ AnswersSoFar /\ SolverTypeOK /\ WalkInv
  BY <1>1 DEF QuerySoFar, InWalk, AuthTypeOK, AuthInv
<1>3. BindsSourced' /\ NoneMissed'
  BY <1>1, <1>2, NoneMissedOn DEF WalkOfQuery
<1>4. /\ base' = base
      /\ Answer => pc' = "found" /\ Choice' = Choice /\ Answered' = Answered \cup {Choice}
      /\ ~Answer => pc' # "found" /\ Answered' = Answered
  BY <1>1, <1>2, OneAnswer
<1>5. pc' = "found" => level' = Len(rule'.body)
  <2>1. WalkInv'
    BY <1>1, <1>2, StepInv
  <2>2. QED
    BY <2>1 DEF WalkInv
<1>6. WalkOfQuery'
  BY <1>1, <1>2, <1>3, <1>4, <1>5, QueryKept DEF WalkOfQuery, AtAnswer, WalkPlaces
<1>7. Judged' \subseteq Judged
  BY <1>1, <1>4 DEF Judged, AtAnswer, WalkPlaces
<1>8. (Answered # {} <=> seen \/ pc = "found")'
  BY <1>1, <1>2, <1>4 DEF AnswersSoFar
<1>9. AnswersSoFar'
  BY <1>1, <1>2, <1>7, <1>8, QueryKept, SaidKept DEF AnswersSoFar, WalkPlaces
<1>10. QED
  BY <1>6, <1>9

\* Asked for another answer, the walk goes on from one that settled nothing.
LEMMA QueryGoesOn ==
  ASSUME AuthTypeOK, AuthInv, QuerySoFar, NextMatch
  PROVE  WalkOfQuery' /\ AnswersSoFar'
<1>1. /\ AskAgain /\ pc \in {"test", "again"} /\ Asking
      /\ IF WantsAll THEN Accepted ELSE Rejected
      /\ UNCHANGED <<world, phase, ask, query, seen>>
  BY DEF NextMatch, Judging, Accepted, Rejected, Exhausted, decisionVars, askVars
<1>2. WalkOfQuery /\ AnswersSoFar /\ SolverTypeOK /\ WalkInv /\ AtAnswer /\ test \in Nat
  BY <1>1 DEF QuerySoFar, InWalk, AtAnswer, AuthTypeOK, RunTypeOK, AuthInv
<1>3. UNCHANGED <<rule, facts>> /\ pc' \in {"walk", "done"} /\ level = Len(rule.body)
  BY <1>1, <1>2, WalkPlacesKept DEF AskAgain, WalkOfQuery
<1>4. BindsSourced' /\ NoneMissed'
  BY <1>1, <1>2, <1>3, NoneMissedOn DEF WalkOfQuery
<1>5. base' = base /\ Answered' = Answered
  <2>1. ~Answer
    BY <1>1 DEF Answer
  <2>2. QED
    BY <1>1, <1>2, <2>1, OneAnswer
<1>6. WalkOfQuery'
  BY <1>1, <1>2, <1>3, <1>4, <1>5, QueryKept DEF WalkOfQuery, AtAnswer
<1>7. Judged' \subseteq Judged \cup {Choice}
  BY <1>5 DEF Judged
<1>8. IF WantsAll THEN PassesAlways(Choice) ELSE PassesNever(Choice)
  BY <1>1, <1>2, AcceptedPasses DEF Rejected, AnswersSoFar
<1>9. AnswersSoFar'
  BY <1>1, <1>2, <1>3, <1>5, <1>7, <1>8, QueryKept, SaidKept DEF AnswersSoFar
<1>10. QED
  BY <1>6, <1>9

\* An expression is decided for every substitution at once.
LEMMA QueryJudges ==
  ASSUME AuthTypeOK, AuthInv, QuerySoFar,
         AnswerFound \/ (Asking /\ TestDecides /\ UNCHANGED decisionVars)
  PROVE  WalkOfQuery' /\ AnswersSoFar'
<1>1. /\ Asking /\ pc \in {"found", "test"} /\ pc' \in {"test", "again"}
      /\ UNCHANGED <<facts, rule, base, level, frames, binds, answers, world, phase, ask, query>>
  BY DEF AnswerFound, Consider, TestDecides, Testing, solverVars, decisionVars, askVars
<1>2. /\ WalkOfQuery /\ AnswersSoFar /\ SolverTypeOK /\ WalkInv /\ AtAnswer /\ AtAnswer'
      /\ test \in Nat /\ level = Len(rule.body) /\ BindsSourced /\ NoneMissed
  BY <1>1 DEF QuerySoFar, InWalk, AtAnswer, AuthTypeOK, RunTypeOK, AuthInv, WalkOfQuery
<1>3. BindsSourced' /\ NoneMissed'
  BY <1>1, <1>2, SourcesUnmoved, NoneMissedKept DEF SolverTypeOK
<1>4. WalkOfQuery'
  BY <1>1, <1>2, <1>3, QueryKept DEF WalkOfQuery
<1>5. Choice' = Choice /\ Answered' = Answered
  BY <1>1 DEF Choice, Answered
<1>6. Judged' = Judged
  BY <1>2, <1>5 DEF Judged
<1>7. CASE AnswerFound
  <2>1. pc = "found" /\ pc' = "test" /\ test' = 1 /\ seen' = TRUE
    BY <1>7 DEF AnswerFound, Consider
  <2>2. QED
    BY <1>1, <1>2, <1>4, <1>5, <1>6, <2>1, QueryKept, SaidKept DEF AnswersSoFar
<1>8. CASE TestDecides /\ UNCHANGED decisionVars
  <2>1. /\ pc = "test" /\ test <= Len(rule.expr) /\ ~Breaks(rule.expr[test]) /\ seen' = seen
        /\ IF Passes(rule.expr[test]) THEN test' = test + 1 /\ pc' = "test"
                                      ELSE pc' = "again" /\ test' = test
    BY <1>8 DEF TestDecides, Testing, decisionVars, askVars
  <2>2. rule.expr[test] \in Test /\ test \in DOMAIN rule.expr
    <3>1. rule.expr \in Seq(Test) /\ test \in Nat \ {0}
      BY DEF AuthTypeOK, SolverTypeOK, RunTypeOK, Rule
    <3>2. QED
      BY <2>1, <3>1, ElementOfSeq, LenProperties
  <2>3. PICK e \in Test : e = rule.expr[test]
    BY <2>2
  <2>4. CASE Passes(e)
    <3>1. HoldsFor(rule.expr[test], Choice)
      BY <1>2, <2>1, <2>3, <2>4, PassingForced
    <3>2. \A k \in 1 .. test : k <= Len(rule.expr) /\ HoldsFor(rule.expr[k], Choice)
      BY <1>2, <2>1, <3>1 DEF AnswersSoFar
    <3>3. pc' = "test" /\ test' - 1 = test
      BY <1>2, <2>1, <2>3, <2>4
    <3>4. QED
      BY <1>1, <1>2, <1>4, <1>5, <1>6, <2>1, <3>2, <3>3, QueryKept, SaidKept DEF AnswersSoFar
  <2>5. CASE ~Passes(e)
    <3>1. ASSUME NEW s \in [Var -> Term], Explains(rule, facts, Choice, s)
          PROVE  ~Passing(rule, s)
      <4>1. ~Holds(rule.expr[test], s)
        BY <1>2, <2>1, <2>3, <2>5, <3>1, FailingConcludesNothing
      <4>2. QED
        BY <2>2, <4>1 DEF Passing
    <3>2. PassesNever(Choice) /\ pc' = "again"
      BY <2>1, <2>3, <2>5, <3>1 DEF PassesNever
    <3>3. QED
      BY <1>1, <1>2, <1>4, <1>5, <1>6, <2>1, <3>2, QueryKept, SaidKept DEF AnswersSoFar
  <2>6. QED
    BY <2>4, <2>5
<1>9. QED
  BY <1>7, <1>8

LEMMA QueryBegins ==
  ASSUME AuthTypeOK, AuthInv, FromWorlds, AskQuery, pc' # "limit"
  PROVE  WalkOfQuery' /\ AnswersSoFar'
<1>1. /\ Query \in Rule /\ BeginWalk(Query) /\ QueriesLeft /\ SolverTypeOK
      /\ UNCHANGED <<facts, steps, world, phase, ask, query>> /\ seen' = FALSE
  BY AskTyped DEF AskQuery, AuthTypeOK
<1>2. Len(Query.body) <= MaxBody
  <2>1. Len(Query.body) \in Nat
    BY <1>1, LenProperties DEF Rule
  <2>2. ~(Len(Query.body) > MaxBody)
    BY <1>1 DEF BeginWalk
  <2>3. QED
    BY <2>1, <2>2
<1>3. /\ pc' = "walk" /\ rule' = Query /\ base' = Len(facts) /\ answers' = <<>>
      /\ BindsSourced' /\ AnswersPassed(FALSE)'
  BY <1>1, <1>2, WalkBegunExact
<1>4. NoneMissed'
  BY <1>3 DEF NoneMissed, AtAnswer
<1>5. WalkOfQuery'
  BY <1>1, <1>3, <1>4, QueryKept DEF WalkOfQuery, AtAnswer
<1>6. Answered' = {}
  BY <1>3 DEF Answered
<1>7. Judged' = {}
  BY <1>6 DEF Judged
<1>8. QED
  BY <1>1, <1>3, <1>5, <1>6, <1>7 DEF AnswersSoFar

LEMMA QueryStep ==
  ASSUME AuthTypeOK, AuthInv, FromWorlds, QuerySoFar, [AuthNext]_authVars
  PROVE  QuerySoFar'
<1>1. CASE Authorize \/ RunOn \/ Failed \/ RunDone \/ NoPolicy
  <2>1. ~Asking' \/ pc' = "open"
    BY <1>1 DEF Authorize, RunOn, Failed, RunDone, NoPolicy, Asking, Return, decisionVars
  <2>2. QED
    BY <2>1 DEF QuerySoFar, InWalk, AtAnswer
<1>2. CASE OpenCheck \/ QueryYes \/ QueryNo \/ NoQueryMatched \/ ChecksDone
  <2>1. pc' \in {"open", "pick", "ran"}
    <3>1. CASE OpenCheck \/ QueryNo \/ ChecksDone
      BY <3>1 DEF OpenCheck, QueryNo, ChecksDone
    <3>2. CASE QueryYes \/ NoQueryMatched
      BY <3>2 DEF QueryYes, NoQueryMatched, CheckSettled, PolicyDecides, Return, Stop
    <3>3. QED
      BY <1>2, <3>1, <3>2
  <2>2. QED
    BY <2>1 DEF QuerySoFar, InWalk, AtAnswer
<1>3. CASE pc' = "limit"
  BY <1>3 DEF QuerySoFar, InWalk, AtAnswer
<1>4. CASE AskQuery /\ pc' # "limit"
  BY <1>4, QueryBegins DEF QuerySoFar
<1>5. CASE Walking /\ pc' # "limit"
  <2>1. CASE QueryOn /\ Breaking
    <3>1. pc' = "ran"
      BY <2>1 DEF Breaking, WalkLimit, TestLimit, TestBreaks, Stop
    <3>2. QED
      BY <3>1 DEF QuerySoFar, InWalk, AtAnswer
  <2>2. CASE QueryOn /\ ~Breaking
    <3>1. Asking /\ (WalkOn \/ TestDecides) /\ UNCHANGED decisionVars
      BY <2>2 DEF QueryOn, Breaking
    <3>2. QED
      BY <1>5, <3>1, QueryWalks, QueryJudges DEF QuerySoFar
  <2>3. CASE AnswerFound
    BY <2>3, QueryJudges DEF QuerySoFar
  <2>4. CASE NextMatch
    BY <2>4, QueryGoesOn DEF QuerySoFar
  <2>5. QED
    BY <1>5, <2>1, <2>2, <2>3, <2>4 DEF Walking
<1>6. CASE UNCHANGED authVars
  <2>1. UNCHANGED <<facts, rule, base, level, frames, binds, answers, pc, world, test,
                    phase, ask, query, seen>>
    BY <1>6 DEF authVars, engineVars, walkVars, solverVars, answerVars, decisionVars, askVars
  <2>2. CASE Asking /\ InWalk
    <3>1. WalkOfQuery /\ AnswersSoFar /\ level \in Nat
      BY <2>2 DEF QuerySoFar, AuthTypeOK, SolverTypeOK
    <3>2. BindsSourced'
      BY <2>1, <3>1, SourcesUnmoved DEF WalkOfQuery
    <3>3. Choice' = Choice /\ Answered' = Answered
      BY <2>1 DEF Choice, Answered
    <3>4. NoneMissed'
      <4>1. \A t : Passed(t)' <=> Passed(t)
        BY <2>1, PassedUnmoved
      <4>2. /\ AnswersPassed(FALSE) => AnswersPassed(FALSE)'
            /\ AnswersPassed(TRUE) => AnswersPassed(TRUE)'
        BY <2>1, <3>3, <4>1, AnswersKept
      <4>3. AnswersAll => AnswersAll'
        BY <2>1, AllUnmoved
      <4>4. FewVariables(rule)' <=> FewVariables(rule)
        BY <2>1 DEF FewVariables, VarsOf
      <4>5. NoneMissed /\ (AtAnswer' <=> AtAnswer) /\ (pc' = pc)
        BY <2>1, <3>1 DEF WalkOfQuery, AtAnswer
      <4>6. QED
        BY ONLY <4>2, <4>3, <4>4, <4>5 DEF NoneMissed
    <3>5. WalkOfQuery'
      BY <2>1, <3>1, <3>2, <3>4, QueryKept DEF WalkOfQuery, AtAnswer
    <3>6. Judged' = Judged
      BY <2>1, <3>3 DEF Judged, AtAnswer
    <3>7. AnswersSoFar'
      BY <2>1, <3>1, <3>3, <3>6, QueryKept, SaidKept DEF AnswersSoFar
    <3>8. QED
      BY <3>5, <3>7 DEF QuerySoFar
  <2>3. CASE ~(Asking /\ InWalk)
    BY <2>1, <2>3, QueryKept DEF QuerySoFar, InWalk, AtAnswer
  <2>4. QED
    BY <2>2, <2>3
<1>7. QED
  BY <1>1, <1>2, <1>3, <1>4, <1>5, <1>6 DEF AuthNext, AuthStep, Idle, Walking

-----------------------------------------------------------------------------
(* What a query's answers amount to.                                       *)

\* Every rule and query of a loaded world has slots for its variables.
AllSlots == \A w \in Worlds : \A n \in DOMAIN w.rules : FewVariables(w.rules[n])

\* The bindings of the answer the solver sits on answer the query.
LEMMA ChoiceAnswers ==
  ASSUME SolverTypeOK, WalkInv, WalkOfQuery, AtAnswer
  PROVE  /\ Substitution \in Answering(rule, facts)
         /\ Explains(rule, facts, Choice, Substitution)
         /\ Substitution \in [Var -> Term]
<1>1. level = Len(rule.body) /\ base = Len(facts)
  BY DEF WalkOfQuery
<1>2. Explains(rule, facts, Choice, Substitution)
  BY <1>1, FullLevelsSound DEF AnswerSound
<1>3. Substitution \in [Var -> Term]
  BY SubstitutionTyped
<1>4. Choice \in Tuples(rule, facts)
  <2>1. DOMAIN rule.body = 1 .. level /\ level \in Nat /\ DOMAIN facts = 1 .. base
    BY <1>1, BodyTyped, LenProperties DEF SolverTypeOK
  <2>2. ASSUME NEW i \in DOMAIN rule.body PROVE frames[i - 1].fact \in 1 .. base
    <3>1. i - 1 \in 0 .. level - 1
      BY <2>1
    <3>2. QED
      BY <3>1, ChosenBelow
  <2>3. QED
    BY <2>1, <2>2 DEF Choice, Tuples
<1>5. QED
  BY <1>2, <1>3, <1>4 DEF Answering

\* When the walk is done, every substitution that answers the query is behind
\* one of its answers.
LEMMA ExhaustedAnswers ==
  ASSUME SolverTypeOK, WalkOfQuery, Exhausted, FewVariables(rule)
  PROVE  /\ \A s \in Answering(rule, facts) :
              \E t \in Judged : s \in [Var -> Term] /\ Explains(rule, facts, t, s)
         /\ Answering(rule, facts) = {} <=> Answered = {}
<1>1. AnswersAll /\ Combinations = Tuples(rule, facts) /\ Judged = Answered
  BY LenProperties
  DEF WalkOfQuery, NoneMissed, Exhausted, Combinations, Tuples, SolverTypeOK, Judged, AtAnswer
<1>2. ASSUME NEW s \in Answering(rule, facts)
      PROVE  \E t \in Judged : s \in [Var -> Term] /\ Explains(rule, facts, t, s)
  BY <1>1, <1>2 DEF Answering, AnswersAll, IsMatch
<1>3. ASSUME NEW t \in Answered PROVE Answering(rule, facts) # {}
  <2>1. t \in Tuples(rule, facts) /\ IsMatch(rule, facts, t)
    BY <1>1, <1>3 DEF AnswersAll
  <2>2. PICK s \in [Var -> Term] : Explains(rule, facts, t, s)
    BY <2>1 DEF IsMatch
  <2>3. s \in Answering(rule, facts)
    BY <2>1, <2>2 DEF Answering
  <2>4. QED
    BY <2>3
<1>4. Answering(rule, facts) = {} <=> Answered = {}
  BY <1>1, <1>2, <1>3
<1>5. QED
  BY <1>2, <1>4

\* A query says yes when it is satisfied, and no when it is not.
LEMMA QueryRight ==
  ASSUME AuthTypeOK, AuthInv, QuerySoFar, Judging, FewVariables(rule)
  PROVE  (Yes => Satisfied(Query)) /\ (No => ~Satisfied(Query)) /\ Query = rule
<1>1. /\ WalkOfQuery /\ AnswersSoFar /\ SolverTypeOK /\ WalkInv /\ test \in Nat
      /\ rule = Query
  BY DEF Judging, Accepted, Rejected, Exhausted, QuerySoFar, InWalk, AtAnswer, AuthTypeOK,
         RunTypeOK, AuthInv, WalkOfQuery
<1>2. CASE Accepted
  <2>1. Some(rule, facts)
    <3>1. AtAnswer
      BY <1>2 DEF Accepted, AtAnswer
    <3>2. PassesAlways(Choice)
      BY <1>1, <1>2, AcceptedPasses
    <3>3. QED
      BY <1>1, <3>1, <3>2, ChoiceAnswers DEF PassesAlways, Some
  <2>2. ~No
    BY <1>2 DEF No, Accepted, Rejected, Exhausted
  <2>3. Yes => ~WantsAll
    BY <1>2 DEF Yes, Accepted, Exhausted
  <2>4. QED
    BY <1>1, <2>1, <2>2, <2>3 DEF Satisfied
<1>3. CASE Rejected
  <2>1. ~All(rule, facts)
    <3>1. AtAnswer /\ PassesNever(Choice)
      BY <1>1, <1>3 DEF Rejected, AtAnswer, AnswersSoFar
    <3>2. QED
      BY <1>1, <3>1, ChoiceAnswers DEF PassesNever, All
  <2>2. ~Yes
    BY <1>3 DEF Yes, Accepted, Rejected, Exhausted
  <2>3. No => WantsAll
    BY <1>3 DEF No, Rejected, Exhausted
  <2>4. QED
    BY <1>1, <2>1, <2>2, <2>3 DEF Satisfied
<1>4. CASE Exhausted
  <2>1. /\ \A s \in Answering(rule, facts) :
             \E t \in Judged : s \in [Var -> Term] /\ Explains(rule, facts, t, s)
        /\ Answering(rule, facts) = {} <=> ~seen
    BY <1>1, <1>4, ExhaustedAnswers DEF AnswersSoFar, Exhausted
  <2>2. CASE WantsAll
    <3>1. All(rule, facts) <=> seen
      BY <1>1, <2>1, <2>2 DEF AnswersSoFar, PassesAlways, All
    <3>2. (Yes <=> seen) /\ (No <=> ~seen)
      BY <1>4, <2>2 DEF Yes, No, Exhausted, Rejected
    <3>3. QED
      BY <1>1, <2>2, <3>1, <3>2 DEF Satisfied
  <2>3. CASE ~WantsAll
    <3>1. ~Some(rule, facts)
      BY <1>1, <2>1, <2>3 DEF AnswersSoFar, PassesNever, Some
    <3>2. ~Yes
      BY <1>4, <2>3 DEF Yes, Exhausted, Accepted
    <3>3. QED
      BY <1>1, <2>3, <3>1, <3>2 DEF Satisfied
  <2>4. QED
    BY <2>2, <2>3
<1>5. QED
  BY <1>2, <1>3, <1>4 DEF Judging

-----------------------------------------------------------------------------
(* What has been asked.                                                    *)

LEMMA FitKept ==
  ASSUME UNCHANGED <<facts, world>>
  PROVE  /\ \A r, n : ReportsFit(r, n)' <=> ReportsFit(r, n)
         /\ \A n : NoneMatched(n)' <=> NoneMatched(n)
BY DEF ReportsFit, NoneMatched

LEMMA AskedKept ==
  ASSUME UNCHANGED <<facts, world, phase, ask>>
  PROVE  Asked' = Asked /\ \A r : Satisfied(r)' <=> Satisfied(r)
BY DEF Asked, Satisfied, WantsAll

\* One more check: it is reported when it fails, after the others.
LEMMA ReportsExtended ==
  ASSUME failed \in Seq(ReportOf), NEW n \in Nat \ {0}, ReportsFit(failed, n - 1),
         NEW rep, rep.check = n
  PROVE  /\ CheckMet(world, world.checks[n], facts) => ReportsFit(failed, n)
         /\ ~CheckMet(world, world.checks[n], facts) => ReportsFit(Append(failed, rep), n)
<1>1. \A i \in 1 .. n : i \in 1 .. n - 1 \/ i = n
  OBVIOUS
<1>2. \A k \in DOMAIN failed : failed[k].check \in 1 .. n - 1
  BY DEF ReportsFit
<1>3. CASE CheckMet(world, world.checks[n], facts)
  <2>1. \A k \in DOMAIN failed : failed[k].check \in 1 .. n /\ failed[k].check # n
    BY <1>2
  <2>2. QED
    BY <1>1, <1>3, <2>1 DEF ReportsFit
<1>4. CASE ~CheckMet(world, world.checks[n], facts)
  <2>1. PICK fs : fs = Append(failed, rep)
    OBVIOUS
  <2>2. PICK m \in Nat : m = Len(failed)
    BY LenProperties
  <2>3. /\ DOMAIN failed = 1 .. m /\ DOMAIN fs = 1 .. m + 1
        /\ \A k \in 1 .. m : fs[k] = failed[k]
        /\ fs[m + 1] = rep
    BY <2>1, <2>2, LenProperties, AppendProperties
  <2>4. \A k \in DOMAIN fs : fs[k].check \in 1 .. n /\ (fs[k].check = n <=> k = m + 1)
    <3>1. \A k \in 1 .. m + 1 : k \in 1 .. m \/ k = m + 1
      OBVIOUS
    <3>2. \A k \in 1 .. m : fs[k].check \in 1 .. n - 1 /\ k # m + 1
      BY <1>2, <2>3
    <3>3. QED
      BY <2>3, <3>1, <3>2
  <2>5. \A j, k \in DOMAIN fs : j < k => fs[j].check < fs[k].check
    <3>1. SUFFICES ASSUME NEW j \in DOMAIN fs, NEW k \in DOMAIN fs, j < k
                   PROVE  fs[j].check < fs[k].check
      OBVIOUS
    <3>2. j \in 1 .. m /\ fs[j].check \in 1 .. n - 1
      BY <1>2, <2>3, <3>1
    <3>3. CASE k = m + 1
      BY <2>3, <3>2, <3>3
    <3>4. CASE k # m + 1
      <4>1. k \in 1 .. m
        BY <2>3, <3>4
      <4>2. QED
        BY <2>3, <3>1, <3>2, <4>1 DEF ReportsFit
    <3>5. QED
      BY <3>3, <3>4
  <2>6. \A i \in 1 .. n - 1 :
          (\E k \in DOMAIN fs : fs[k].check = i) <=> (\E k \in DOMAIN failed : failed[k].check = i)
    <3>1. \A i \in 1 .. n - 1 : i # n
      OBVIOUS
    <3>2. \A k \in DOMAIN fs : k # m + 1 => k \in DOMAIN failed /\ fs[k] = failed[k]
      BY <2>3
    <3>3. \A k \in DOMAIN failed : k \in DOMAIN fs /\ fs[k] = failed[k]
      BY <2>3
    <3>4. QED
      BY <2>4, <3>1, <3>2, <3>3
  <2>7. \E k \in DOMAIN fs : fs[k].check = n
    BY <2>3
  <2>8. ReportsFit(fs, n)
    BY <1>1, <1>4, <2>4, <2>5, <2>6, <2>7 DEF ReportsFit
  <2>9. QED
    BY <1>4, <2>1, <2>8
<1>5. QED
  BY <1>3, <1>4

\* A query that is satisfied settles what is asked; so does the lack of one.
LEMMA AskSettles ==
  ASSUME AuthTypeOK, AuthInv, FromWorlds, AskedSoFar, Asking, pc \notin {"ran", "open"},
         phase = "policy" => ask <= Len(world.policies)
  PROVE  /\ QueriesLeft /\ Satisfied(Query) =>
              /\ phase = "check" => (CheckMet(world, Asked, facts) <=> Asked.kind # "reject")
              /\ phase = "policy" => PolicyMatched(world, Asked, facts)
         /\ ~QueriesLeft =>
              /\ phase = "check" => (CheckMet(world, Asked, facts) <=> Asked.kind = "reject")
              /\ phase = "policy" => ~PolicyMatched(world, Asked, facts)
<1>1. /\ phase = "check" => Asked \in Check
      /\ Asked.query_at \in Nat /\ Asked.query_count \in Nat /\ query \in Nat \ {0}
  BY AskedTyped DEF AuthInv, AuthTypeOK
<1>2. /\ query <= Asked.query_count + 1
      /\ \A i \in 1 .. query - 1 : ~Satisfied(world.rules[Asked.query_at + i])
  BY DEF AskedSoFar
<1>3. phase = "check" => Asked.kind \in {"one", "all", "reject"}
  BY <1>1 DEF Check
<1>4. CASE QueriesLeft /\ Satisfied(Query)
  <2>1. Query \in Queries(world.rules, Asked)
    BY <1>1, <1>4 DEF Queries, Query, QueriesLeft
  <2>2. PICK qs, r : qs = Queries(world.rules, Asked) /\ r = Query
    OBVIOUS
  <2>3. CASE phase = "check"
    <3>1. IF Asked.kind = "all" THEN All(r, facts) ELSE Some(r, facts)
      BY <1>4, <2>2, <2>3 DEF Satisfied, WantsAll
    <3>2. QED
      BY <1>3, <1>4, <2>1, <2>2, <2>3, <3>1 DEF CheckMet
  <2>4. CASE phase = "policy"
    BY <1>4, <2>1, <2>4 DEF Satisfied, WantsAll, PolicyMatched
  <2>5. QED
    BY <1>4, <2>3, <2>4 DEF Asking
<1>5. CASE ~QueriesLeft
  <2>1. \A r \in Queries(world.rules, Asked) : ~Satisfied(r)
    <3>1. query - 1 = Asked.query_count
      BY <1>1, <1>2, <1>5 DEF QueriesLeft
    <3>2. QED
      BY <1>2, <3>1 DEF Queries
  <2>2. PICK qs : qs = Queries(world.rules, Asked)
    OBVIOUS
  <2>3. CASE phase = "check"
    <3>1. \A r \in qs : IF Asked.kind = "all" THEN ~All(r, facts) ELSE ~Some(r, facts)
      BY <2>1, <2>2, <2>3 DEF Satisfied, WantsAll
    <3>2. QED
      BY <1>3, <1>5, <2>2, <2>3, <3>1 DEF CheckMet
  <2>4. CASE phase = "policy"
    BY <1>5, <2>1, <2>4 DEF Satisfied, WantsAll, PolicyMatched
  <2>5. QED
    BY <1>5, <2>3, <2>4 DEF Asking
<1>6. QED
  BY <1>4, <1>5

\* The rule a query walks has a slot for each of its variables.
LEMMA QuerySlots ==
  ASSUME AllSlots, AuthTypeOK, AuthInv, FromWorlds, QuerySoFar, Judging
  PROVE  /\ FewVariables(rule) /\ rule = Query /\ QueriesLeft
         /\ pc \notin {"ran", "open", "pick"}
         /\ phase = "policy" => ask <= Len(world.policies)
<1>1. WalkOfQuery /\ Asking /\ pc \notin {"ran", "open", "pick"}
  BY DEF Judging, Accepted, Rejected, Exhausted, QuerySoFar, InWalk, AtAnswer
<1>2. phase = "policy" => ask <= Len(world.policies)
  BY <1>1 DEF AuthInv, AskPlaced
<1>3. Asked.query_at + query \in DOMAIN world.rules
  <2>1. query \in 1 .. Asked.query_count
    <3>1. Asked.query_count \in Nat /\ query \in Nat \ {0}
      BY <1>1, <1>2, AskedTyped DEF AuthInv, AuthTypeOK
    <3>2. QED
      BY <1>1, <3>1 DEF WalkOfQuery, QueriesLeft
  <2>2. QED
    BY <1>1, <1>2, <2>1, AskedTyped DEF AuthInv
<1>4. QED
  BY <1>1, <1>2, <1>3 DEF WalkOfQuery, AllSlots, FromWorlds, Query

LEMMA AskedMoved ==
  ASSUME AskedSoFar, UNCHANGED <<facts, world, phase, ask, query, failed>>,
         pc' # "ran" => pc # "ran" /\ (pc' # "open" => pc # "open")
  PROVE  AskedSoFar'
<1>1. PICK fs, a, q, n, m, l : /\ fs = failed /\ a = Asked /\ q = query /\ n = ask - 1
                               /\ m = Len(world.checks) /\ l = Len(world.policies)
  OBVIOUS
<1>2. /\ ReportsFit(fs, n)' <=> ReportsFit(fs, n)
      /\ ReportsFit(fs, m)' <=> ReportsFit(fs, m)
      /\ NoneMatched(n)' <=> NoneMatched(n)
  BY FitKept
<1>3. /\ Asked' = Asked /\ (Asking' <=> Asking)
      /\ \A r : Satisfied(r)' <=> Satisfied(r)
  BY AskedKept DEF Asking
<1>4. CASE Asking /\ pc' # "ran"
  <2>1. phase = "check" => ReportsFit(failed, ask - 1)'
    BY <1>1, <1>2, <1>4 DEF AskedSoFar
  <2>2. phase = "policy" => ReportsFit(failed, Len(world.checks))' /\ NoneMatched(ask - 1)'
    BY <1>1, <1>2, <1>4 DEF AskedSoFar
  <2>3. pc' # "open" /\ (phase = "policy" => ask <= Len(world.policies)) =>
          /\ query <= Asked.query_count + 1
          /\ \A i \in 1 .. query - 1 : ~Satisfied(world.rules[Asked.query_at + i])'
    <3>1. SUFFICES ASSUME pc' # "open", phase = "policy" => ask <= Len(world.policies)
                   PROVE  /\ query <= Asked.query_count + 1
                          /\ \A i \in 1 .. query - 1 :
                               ~Satisfied(world.rules[Asked.query_at + i])'
      OBVIOUS
    <3>2. /\ query <= Asked.query_count + 1
          /\ \A i \in 1 .. query - 1 : ~Satisfied(world.rules[Asked.query_at + i])
      BY <1>4, <3>1 DEF AskedSoFar
    <3>3. ASSUME NEW i \in 1 .. query - 1
          PROVE  ~Satisfied(world.rules[Asked.query_at + i])'
      <4>1. PICK r : r = world.rules[Asked.query_at + i]
        OBVIOUS
      <4>2. ~Satisfied(r)'
        BY <1>3, <3>2, <3>3, <4>1
      <4>3. (world.rules[Asked.query_at + i])' = r
        BY <1>3, <4>1
      <4>4. QED
        BY <4>2, <4>3 DEF Satisfied
    <3>4. QED
      BY <3>2, <3>3
  <2>4. QED
    BY <1>3, <2>1, <2>2, <2>3 DEF AskedSoFar
<1>5. CASE ~(Asking /\ pc' # "ran")
  BY <1>3, <1>5 DEF AskedSoFar
<1>6. QED
  BY <1>4, <1>5

\* A query is next, or being asked, of something that has a number of them.
QueryNext == /\ Asking /\ pc \notin {"ran", "open"}
             /\ phase = "policy" => ask <= Len(world.policies)
QueryCounted == QueryNext => Asked.query_count \in Nat

LEMMA NextCounted == AuthTypeOK /\ AuthInv /\ FromWorlds => QueryCounted
BY AskedTyped DEF QueryCounted, QueryNext, AuthInv

\* Nothing has been asked of a check or a policy when its first query is
\* next.
LEMMA AsksAnew ==
  ASSUME AuthTypeOK', AuthInv', FromWorlds', query' = 1,
         phase' = "check" => ReportsFit(failed, ask - 1)',
         phase' = "policy" => ReportsFit(failed, Len(world.checks))' /\ NoneMatched(ask - 1)'
  PROVE  AskedSoFar'
<1>1. QueryCounted'
  BY NextCounted, PTL
<1>2. \A n \in Nat : 1 <= n + 1
  OBVIOUS
<1>3. {i \in 1 .. 1 - 1 : TRUE} = {}
  OBVIOUS
<1>4. QED
  BY <1>1, <1>2, <1>3 DEF AskedSoFar, QueryCounted, QueryNext

\* The check at hand is reported as it comes out.
LEMMA CheckReported ==
  ASSUME AuthTypeOK, AuthInv, FromWorlds, AskedSoFar, UNCHANGED <<facts, world>>,
         phase = "check", pc \notin {"ran", "open"},
         NEW holds \in BOOLEAN, CheckSettled(holds), CheckMet(world, Asked, facts) <=> holds
  PROVE  AskedSoFar'
<1>1. /\ failed' = IF holds THEN failed ELSE Append(failed, Report)
      /\ ask' = ask + 1 /\ pc' = "open" /\ phase' = "check"
  BY DEF CheckSettled
<1>2. Asking /\ ReportsFit(failed, ask - 1)
  BY DEF AskedSoFar, Asking
<1>3. ask \in Nat \ {0} /\ failed \in Seq(ReportOf) /\ Asked = world.checks[ask]
  BY <1>2, AskedTyped DEF AuthInv, AuthTypeOK
<1>4. Report.check = ask
  BY DEF Report
<1>5. PICK fs, n : fs = failed' /\ n = ask
  OBVIOUS
<1>6. ReportsFit(fs, n)
  BY <1>1, <1>2, <1>3, <1>4, <1>5, ReportsExtended
<1>7. ReportsFit(fs, n)'
  BY <1>6, FitKept
<1>8. ask' - 1 = n
  BY <1>1, <1>3, <1>5
<1>9. ReportsFit(failed, ask - 1)'
  BY <1>5, <1>7, <1>8
<1>10. QED
  BY <1>1, <1>9 DEF AskedSoFar

LEMMA NothingReported ==
  /\ \A r : r = <<>> => ReportsFit(r, 0)
  /\ NoneMatched(0)
<1>1. \A i \in 1 .. 0 : FALSE
  OBVIOUS
<1>2. QED
  BY <1>1 DEF ReportsFit, NoneMatched

LEMMA AskedStep ==
  ASSUME AllSlots, AuthTypeOK, AuthInv, FromWorlds, QuerySoFar, AskedSoFar, [AuthNext]_authVars
  PROVE  AskedSoFar'
<1>0. AuthTypeOK' /\ AuthInv' /\ FromWorlds' /\ world' = world
  BY AuthStepTyped
<1>1. CASE Authorize \/ RunOn \/ Failed \/ NoPolicy \/ (QueryYes /\ phase = "policy")
  <2>1. ~Asking'
    BY <1>1 DEF Authorize, RunOn, Failed, NoPolicy, QueryYes, PolicyDecides, Return,
                decisionVars, Asking
  <2>2. QED
    BY <2>1 DEF AskedSoFar
<1>2. CASE RunDone
  <2>1. CASE phase' = "check"
    <3>1. ask' - 1 = 0 /\ query' = 1 /\ failed' = <<>>
      BY <1>2, <2>1 DEF RunDone, Return
    <3>2. PICK fs : fs = failed'
      OBVIOUS
    <3>3. ReportsFit(fs, 0)'
      BY <3>1, <3>2 DEF ReportsFit
    <3>4. ReportsFit(failed, ask - 1)'
      BY <3>1, <3>2, <3>3
    <3>5. QED
      BY <1>0, <2>1, <3>1, <3>4, AsksAnew
  <2>2. CASE phase' # "check"
    <3>1. ~Asking'
      BY <1>2, <2>2 DEF RunDone, Return, Asking
    <3>2. QED
      BY <3>1 DEF AskedSoFar
  <2>3. QED
    BY <2>1, <2>2
<1>3. CASE OpenCheck
  <2>1. /\ phase' = "check" /\ query' = 1 /\ UNCHANGED <<facts, ask, failed>>
        /\ phase = "check" /\ pc = "open"
    BY <1>3 DEF OpenCheck
  <2>2. ReportsFit(failed, ask - 1)
    BY <2>1 DEF AskedSoFar, Asking
  <2>3. PICK fs, n : fs = failed /\ n = ask - 1
    OBVIOUS
  <2>4. ReportsFit(fs, n)'
    BY <1>0, <2>1, <2>2, <2>3, FitKept
  <2>5. ReportsFit(failed, ask - 1)'
    BY <2>1, <2>3, <2>4
  <2>6. QED
    BY <1>0, <2>1, <2>5, AsksAnew
<1>4. CASE QueryYes /\ phase = "check"
  <2>1. CheckSettled(Asked.kind # "reject") /\ Judging /\ Yes /\ UNCHANGED facts
    BY <1>4 DEF QueryYes
  <2>2. /\ FewVariables(rule) /\ QueriesLeft /\ pc \notin {"ran", "open", "pick"} /\ Asking
    BY <2>1, QuerySlots DEF Judging
  <2>3. Satisfied(Query)
    BY <2>1, <2>2, QueryRight
  <2>4. CheckMet(world, Asked, facts) <=> Asked.kind # "reject"
    BY <1>4, <2>2, <2>3, AskSettles
  <2>5. QED
    BY <1>0, <1>4, <2>1, <2>2, <2>4, CheckReported
<1>5. CASE NoQueryMatched /\ phase = "check"
  <2>1. CheckSettled(Asked.kind = "reject") /\ ~QueriesLeft /\ pc = "pick" /\ Asking
        /\ UNCHANGED facts
    BY <1>5 DEF NoQueryMatched
  <2>2. CheckMet(world, Asked, facts) <=> Asked.kind = "reject"
    BY <1>5, <2>1, AskSettles
  <2>3. QED
    BY <1>0, <1>5, <2>1, <2>2, CheckReported
<1>6. CASE QueryNo
  <2>1. /\ Judging /\ No /\ query' = query + 1 /\ pc' = "pick" /\ Asking
        /\ UNCHANGED <<facts, phase, ask, failed>>
    BY <1>6 DEF QueryNo, Judging
  <2>2. /\ FewVariables(rule) /\ QueriesLeft /\ pc \notin {"ran", "open", "pick"}
        /\ phase = "policy" => ask <= Len(world.policies)
    BY <2>1, QuerySlots
  <2>3. ~Satisfied(Query)
    BY <2>1, <2>2, QueryRight
  <2>4. /\ query \in Nat \ {0} /\ Asked.query_count \in Nat
    BY <2>1, <2>2, AskedTyped DEF AuthInv, AuthTypeOK
  <2>5. query' <= Asked.query_count + 1
    BY <2>1, <2>2, <2>4 DEF QueriesLeft
  <2>6. \A i \in 1 .. query' - 1 : ~Satisfied(world.rules[Asked.query_at + i])
    <3>1. \A i \in 1 .. query' - 1 : i \in 1 .. query - 1 \/ i = query
      BY <2>1, <2>4
    <3>2. \A i \in 1 .. query - 1 : ~Satisfied(world.rules[Asked.query_at + i])
      BY <2>1, <2>2 DEF AskedSoFar
    <3>3. ~Satisfied(world.rules[Asked.query_at + query])
      BY <2>3 DEF Query
    <3>4. QED
      BY <3>1, <3>2, <3>3
  <2>7. /\ phase = "check" => ReportsFit(failed, ask - 1)'
        /\ phase = "policy" => ReportsFit(failed, Len(world.checks))' /\ NoneMatched(ask - 1)'
    <3>1. PICK fs, n, m : fs = failed /\ n = ask - 1 /\ m = Len(world.checks)
      OBVIOUS
    <3>2. /\ ReportsFit(fs, n)' <=> ReportsFit(fs, n)
          /\ ReportsFit(fs, m)' <=> ReportsFit(fs, m)
          /\ NoneMatched(n)' <=> NoneMatched(n)
      BY <1>0, <2>1, FitKept
    <3>3. QED
      BY <1>0, <2>1, <2>2, <3>1, <3>2 DEF AskedSoFar
  <2>8. \A i \in 1 .. query' - 1 : ~Satisfied(world.rules[Asked.query_at + i])'
    <3>1. TAKE i \in 1 .. query' - 1
    <3>2. PICK r : r = world.rules[Asked.query_at + i]
      OBVIOUS
    <3>3. Asked' = Asked /\ ~Satisfied(r)'
      BY <1>0, <2>1, <2>6, <3>2, AskedKept
    <3>4. (world.rules[Asked.query_at + i])' = r
      BY <1>0, <3>2, <3>3
    <3>5. QED
      BY <3>3, <3>4 DEF Satisfied
  <2>9. Asked' = Asked
    BY <1>0, <2>1, AskedKept
  <2>10. QED
    BY <2>1, <2>5, <2>7, <2>8, <2>9 DEF AskedSoFar
<1>7. CASE ChecksDone \/ (NoQueryMatched /\ phase = "policy")
  <2>1. /\ phase' = "policy" /\ query' = 1 /\ UNCHANGED <<facts, failed>>
    BY <1>7 DEF ChecksDone, NoQueryMatched
  <2>2. ReportsFit(failed, Len(world.checks)) /\ NoneMatched(ask' - 1)
    <3>1. CASE ChecksDone
      <4>1. /\ phase = "check" /\ pc = "open" /\ ask > Len(world.checks) /\ ask' - 1 = 0
        BY <3>1 DEF ChecksDone
      <4>2. ask - 1 = Len(world.checks)
        <5>1. ask <= Len(world.checks) + 1
          BY <4>1 DEF AuthInv, AskPlaced
        <5>2. ask \in Nat /\ Len(world.checks) \in Nat
          BY LenProperties DEF AuthTypeOK, RunTypeOK, World
        <5>3. QED
          BY <4>1, <5>1, <5>2
      <4>3. ReportsFit(failed, ask - 1)
        BY <4>1 DEF AskedSoFar, Asking
      <4>4. QED
        BY <4>1, <4>2, <4>3, NothingReported
    <3>2. CASE NoQueryMatched /\ phase = "policy"
      <4>1. /\ ~QueriesLeft /\ pc = "pick" /\ Asking /\ ask <= Len(world.policies)
            /\ ask' = ask + 1
        BY <3>2 DEF NoQueryMatched
      <4>2. ~PolicyMatched(world, world.policies[ask], facts)
        BY <3>2, <4>1, AskSettles, AskedTyped DEF AuthInv
      <4>3. ReportsFit(failed, Len(world.checks)) /\ NoneMatched(ask - 1)
        BY <3>2, <4>1 DEF AskedSoFar
      <4>4. ask' - 1 = ask /\ \A i \in 1 .. ask : i \in 1 .. ask - 1 \/ i = ask
        BY <4>1 DEF AuthTypeOK
      <4>5. NoneMatched(ask)
        BY <4>2, <4>3, <4>4 DEF NoneMatched
      <4>6. QED
        BY <4>3, <4>4, <4>5
    <3>3. QED
      BY <1>7, <3>1, <3>2
  <2>3. ReportsFit(failed, Len(world.checks))' /\ NoneMatched(ask - 1)'
    <3>1. PICK fs, n, m : fs = failed /\ n = ask' - 1 /\ m = Len(world.checks)
      OBVIOUS
    <3>2. ReportsFit(fs, m)' /\ NoneMatched(n)'
      BY <1>0, <2>1, <2>2, <3>1, FitKept
    <3>3. QED
      BY <1>0, <2>1, <3>1, <3>2
  <2>4. QED
    BY <1>0, <2>1, <2>3, AsksAnew
<1>8. CASE Walking \/ AskQuery
  <2>1. /\ UNCHANGED <<facts, world, phase, ask, query, failed>>
        /\ pc \notin {"ran", "open"}
    <3>1. CASE Walking
      BY <3>1, WalkingMoves DEF WalkPlaces
    <3>2. CASE AskQuery
      BY <1>0, <3>2, AskTyped DEF AskQuery
    <3>3. QED
      BY <1>8, <3>1, <3>2
  <2>2. QED
    BY <2>1, AskedMoved
<1>9. CASE UNCHANGED authVars
  <2>1. UNCHANGED <<facts, world, phase, ask, query, failed, pc>>
    BY <1>9 DEF authVars, engineVars, walkVars, decisionVars, askVars
  <2>2. QED
    BY <2>1, AskedMoved
<1>10. QED
  <2>1. (QueryYes \/ NoQueryMatched) => phase \in {"check", "policy"}
    BY DEF QueryYes, NoQueryMatched
  <2>2. QED
    BY <1>1, <1>2, <1>3, <1>4, <1>5, <1>6, <1>7, <1>8, <1>9, <2>1
    DEF AuthNext, AuthStep, Idle, Walking

-----------------------------------------------------------------------------
(* The verdict.                                                            *)

\* What is called for stays so while the world and its facts do.
LEMMA CalledStill ==
  ASSUME UNCHANGED <<facts, world>>, Settled', NEW v, CalledFor(v)
  PROVE  CalledFor(v)'
<1>1. PICK n, p, m : /\ n = Len(world.policies) /\ p = v.policy - 1
                     /\ m = Len(world.checks)
  OBVIOUS
<1>2. PICK fs : fs = v.failed
  OBVIOUS
<1>3. /\ ReportsFit(fs, m)' <=> ReportsFit(fs, m)
      /\ NoneMatched(n)' <=> NoneMatched(n)
      /\ NoneMatched(p)' <=> NoneMatched(p)
  BY FitKept
<1>4. ReportsFit(v.failed, Len(world.checks))'
  BY <1>1, <1>2, <1>3 DEF CalledFor
<1>5. NoneMatched(Len(world.policies)) => NoneMatched(Len(world.policies))'
  BY <1>1, <1>3
<1>6. NoneMatched(v.policy - 1) => NoneMatched(v.policy - 1)'
  BY <1>1, <1>3
<1>7. QED
  BY <1>4, <1>5, <1>6 DEF CalledFor

\* The policy that matches decides as the world calls for.
LEMMA PolicyRight ==
  ASSUME AllSlots, AuthTypeOK, AuthInv, FromWorlds, QuerySoFar, AskedSoFar,
         QueryYes, phase = "policy"
  PROVE  \E v : v = out' /\ CalledFor(v)
<1>1. /\ Judging /\ Yes
      /\ out' = [kind |-> Verdict, policy |-> ask, failed |-> failed]
  BY DEF QueryYes, PolicyDecides
<1>2. /\ FewVariables(rule) /\ QueriesLeft /\ pc \notin {"ran", "open", "pick"} /\ Asking
      /\ ask <= Len(world.policies)
  BY <1>1, QuerySlots DEF Judging
<1>3. Satisfied(Query)
  BY <1>1, <1>2, QueryRight
<1>4. /\ ask \in DOMAIN world.policies /\ Asked = world.policies[ask] /\ Asked \in Policy
  BY <1>2, AskedTyped DEF AuthInv
<1>5. PolicyMatched(world, world.policies[ask], facts)
  BY <1>2, <1>3, <1>4, AskSettles
<1>6. Settled /\ ReportsFit(failed, Len(world.checks)) /\ NoneMatched(ask - 1)
  BY <1>2 DEF AuthInv, AskedSoFar
<1>7. PICK v : v = [kind |-> Verdict, policy |-> ask, failed |-> failed]
  OBVIOUS
<1>8. v.policy = ask /\ v.failed = failed /\ v.kind = Verdict
  BY <1>7
<1>9. Asked.kind \in {"allow", "deny"}
  BY <1>4 DEF Policy
<1>10. Verdict = IF world.policies[ask].kind = "allow" /\ failed = <<>>
                THEN "allow" ELSE "deny"
  BY <1>4, <1>9 DEF Verdict
<1>11. CalledFor(v)
  BY <1>4, <1>5, <1>6, <1>8, <1>10 DEF CalledFor
<1>12. QED
  BY <1>1, <1>7, <1>11

\* So does the lack of one.
LEMMA NoPolicyRight ==
  ASSUME AuthTypeOK, AuthInv, AskedSoFar, NoPolicy
  PROVE  \E v : v = out' /\ CalledFor(v)
<1>1. /\ phase = "policy" /\ pc = "pick" /\ ask > Len(world.policies) /\ Asking
      /\ out' = [kind |-> "none", policy |-> 0, failed |-> failed]
  BY DEF NoPolicy, Asking
<1>2. ask - 1 = Len(world.policies)
  <2>1. ask <= Len(world.policies) + 1
    BY <1>1 DEF AuthInv, AskPlaced
  <2>2. ask \in Nat /\ Len(world.policies) \in Nat
    BY LenProperties DEF AuthTypeOK, RunTypeOK, World
  <2>3. QED
    BY <1>1, <2>1, <2>2
<1>3. Settled /\ ReportsFit(failed, Len(world.checks)) /\ NoneMatched(Len(world.policies))
  BY <1>1, <1>2 DEF AuthInv, AskedSoFar
<1>4. PICK v : v = [kind |-> "none", policy |-> 0, failed |-> failed]
  OBVIOUS
<1>5. CalledFor(v)
  BY <1>3, <1>4 DEF CalledFor
<1>6. QED
  BY <1>1, <1>4, <1>5

LEMMA DecidedStep ==
  ASSUME AllSlots, AuthTypeOK, AuthInv, FromWorlds, QuerySoFar, AskedSoFar, RightlyDecided,
         [AuthNext]_authVars
  PROVE  RightlyDecided'
<1>0. AuthTypeOK' /\ AuthInv' /\ FromWorlds' /\ world' = world
  BY AuthStepTyped
<1>1. CASE phase' # "idle" \/ status' # "OK"
  BY <1>0, <1>1 DEF RightlyDecided, AuthInv
<1>2. CASE phase' = "idle" /\ status' = "OK"
  <2>1. \/ QueryYes /\ (phase = "policy")
        \/ NoPolicy
        \/ UNCHANGED <<facts, world, phase, status, out>>
    <3>1. ~(Authorize \/ RunOn \/ Failed \/ RunDone)
      BY <1>2 DEF Authorize, RunOn, Failed, RunDone, Return, Stop, decisionVars, engineVars
    <3>2. ~(OpenCheck \/ QueryNo \/ NoQueryMatched \/ ChecksDone \/ Walking \/ AskQuery)
      <4>1. ASSUME Walking \/ AskQuery PROVE phase' = phase /\ phase # "idle"
        <5>1. CASE Walking
          BY <5>1, WalkingMoves DEF Asking
        <5>2. CASE AskQuery
          BY <5>2 DEF AskQuery, Asking
        <5>3. QED
          BY <4>1, <5>1, <5>2
      <4>2. ASSUME OpenCheck \/ QueryNo \/ NoQueryMatched \/ ChecksDone PROVE phase' # "idle"
        BY <4>2 DEF OpenCheck, QueryNo, NoQueryMatched, ChecksDone, CheckSettled, Judging, Asking
      <4>3. QED
        BY <1>2, <4>1, <4>2
    <3>3. QueryYes => phase = "policy"
      BY <1>2 DEF QueryYes, CheckSettled
    <3>4. UNCHANGED authVars => UNCHANGED <<facts, world, phase, status, out>>
      BY DEF authVars, engineVars, walkVars, decisionVars
    <3>5. QED
      BY <3>1, <3>2, <3>3, <3>4 DEF AuthNext, AuthStep, Idle, Walking
  <2>2. Settled'
    BY <1>0, <1>2 DEF AuthInv, Finished
  <2>3. /\ UNCHANGED facts
        /\ \E v : v = out' /\ CalledFor(v)
    <3>1. CASE QueryYes /\ phase = "policy"
      BY <3>1, PolicyRight DEF QueryYes
    <3>2. CASE NoPolicy
      BY <3>2, NoPolicyRight DEF NoPolicy
    <3>3. CASE UNCHANGED <<facts, world, phase, status, out>>
      BY <1>2, <3>3 DEF RightlyDecided
    <3>4. QED
      BY <2>1, <3>1, <3>2, <3>3
  <2>4. PICK v : v = out' /\ CalledFor(v)
    BY <2>3
  <2>5. CalledFor(v)'
    BY <1>0, <2>2, <2>3, <2>4, CalledStill
  <2>6. CalledFor(out)'
    BY <2>4, <2>5
  <2>7. QED
    BY <1>2, <2>6 DEF RightlyDecided
<1>3. QED
  BY <1>1, <1>2

LEMMA AskedInitially == AuthInit => QuerySoFar /\ AskedSoFar /\ RightlyDecided
BY DEF AuthInit, QuerySoFar, AskedSoFar, RightlyDecided, Asking, EngineInit, EngineStart

\* Whatever the world, as long as its rules and queries have a slot for each of
\* their variables: no query before the one being asked has settled it, every
\* check before the one being asked is reported as it came out, and no policy
\* before the one being asked matches (145_authorize.inc, bs_query_any,
\* bs_query_all, bs_check_holds, bs_policy_matches).
THEOREM AuthKnowsSoFar == ASSUME AllSlots PROVE AuthSpec => []AuthKnows
<1>1. AuthInit => AuthTypeOK /\ AuthInv /\ FromWorlds /\ QuerySoFar /\ AskedSoFar
                  /\ ReportsSoFar
  BY AuthStarts, AskedInitially, PlacesInitially
<1>2. AuthTypeOK /\ AuthInv /\ FromWorlds /\ QuerySoFar /\ AskedSoFar /\ ReportsSoFar
        /\ [AuthNext]_authVars
        => AuthTypeOK' /\ AuthInv' /\ FromWorlds' /\ QuerySoFar' /\ AskedSoFar'
           /\ ReportsSoFar'
  BY AuthStepTyped, QueryStep, AskedStep, PlacesStep
<1>3. AuthTypeOK /\ AuthInv /\ QuerySoFar /\ AskedSoFar /\ ReportsSoFar => AuthKnows
  BY DEF AuthKnows
<1>4. QED
  BY <1>1, <1>2, <1>3, PTL DEF AuthSpec

\* Whatever the world, as long as its rules and queries have a slot for each of
\* their variables: a verdict is the one the world calls for, and a call that
\* does not say OK leaves none (145_authorize.inc, bs_authorize).
THEOREM AuthDecidesRightly == ASSUME AllSlots PROVE AuthSpec => []RightlyDecided
<1>1. AuthInit => AuthTypeOK /\ AuthInv /\ FromWorlds /\ QuerySoFar /\ AskedSoFar
                  /\ RightlyDecided
  BY AuthStarts, AskedInitially
<1>2. AuthTypeOK /\ AuthInv /\ FromWorlds /\ QuerySoFar /\ AskedSoFar /\ RightlyDecided
        /\ [AuthNext]_authVars
        => AuthTypeOK' /\ AuthInv' /\ FromWorlds' /\ QuerySoFar' /\ AskedSoFar'
           /\ RightlyDecided'
  BY AuthStepTyped, QueryStep, AskedStep, DecidedStep
<1>3. QED
  BY <1>1, <1>2, PTL DEF AuthSpec

-----------------------------------------------------------------------------
(* A block less.                                                           *)

\* A query that does not trust a block is answered by the facts that do not
\* stem from it.
LEMMA SameAnswers ==
  ASSUME facts \in Seq(Fact), NEW r, NEW b, b \notin r.trust
  PROVE  Answering(r, facts) = Answering(r, Indexed(FactsOf(Everyone \ {b})))
<1>1. PICK K : K = FactsOf(Everyone \ {b})
  OBVIOUS
<1>2. \A k \in DOMAIN facts : facts[k].origin \subseteq Everyone
  <2>1. \A k \in DOMAIN facts : facts[k] \in Fact
    BY LenProperties, ElementOfSeq
  <2>2. QED
    BY <2>1 DEF Fact, Origin, Everyone
<1>3. ASSUME NEW s \in Answering(r, facts) PROVE s \in Answering(r, Indexed(K))
  <2>1. PICK t \in Tuples(r, facts) : Explains(r, facts, t, s)
    BY <1>3 DEF Answering
  <2>2. ASSUME NEW i \in DOMAIN r.body PROVE facts[t[i]] \in K
    <3>1. t[i] \in DOMAIN facts /\ facts[t[i]].origin \ r.trust = {}
      BY <2>1, <2>2 DEF Tuples, Explains
    <3>2. facts[t[i]].origin \subseteq Everyone \ {b}
      BY <1>2, <3>1
    <3>3. QED
      BY <1>1, <3>1, <3>2 DEF FactsOf
  <2>3. PICK u : u = [i \in DOMAIN r.body |-> facts[t[i]]]
    OBVIOUS
  <2>4. /\ u \in Tuples(r, Indexed(K))
        /\ \A i \in DOMAIN r.body : Indexed(K)[u[i]] = facts[t[i]]
    BY <2>2, <2>3 DEF Tuples, Indexed
  <2>5. Explains(r, Indexed(K), u, s)
    BY <2>1, <2>4, SameMatch
  <2>6. QED
    BY <1>3, <2>4, <2>5 DEF Answering
<1>4. ASSUME NEW s \in Answering(r, Indexed(K)) PROVE s \in Answering(r, facts)
  <2>1. PICK u \in Tuples(r, Indexed(K)) : Explains(r, Indexed(K), u, s)
    BY <1>4 DEF Answering
  <2>2. ASSUME NEW i \in DOMAIN r.body
        PROVE  Indexed(K)[u[i]] = u[i] /\ \E k \in DOMAIN facts : facts[k] = u[i]
    <3>1. u[i] \in K
      BY <2>1, <2>2 DEF Tuples, Indexed
    <3>2. QED
      BY <1>1, <3>1 DEF Indexed, FactsOf
  <2>3. PICK t : t = [i \in DOMAIN r.body |-> CHOOSE k \in DOMAIN facts : facts[k] = u[i]]
    OBVIOUS
  <2>4. t \in Tuples(r, facts) /\ \A i \in DOMAIN r.body : facts[t[i]] = Indexed(K)[u[i]]
    BY <2>2, <2>3 DEF Tuples
  <2>5. Explains(r, facts, t, s)
    BY <2>1, <2>4, SameMatch
  <2>6. QED
    BY <1>4, <2>4, <2>5 DEF Answering
<1>5. QED
  BY <1>1, <1>3, <1>4

\* What does not trust a block asks the same of the world without it.
LEMMA SameQueries ==
  ASSUME world.rules \in Seq(Rule), NEW b, Untrusted(world, b), facts \in Seq(Fact),
         NEW c, c.query_at \in Nat, c.query_count \in Nat,
         c.query_at + c.query_count <= Len(world.rules),
         \A r \in Queries(world.rules, c) : r.block # b
  PROVE  /\ Queries(Without(world, b).rules, c) = Queries(world.rules, c)
         /\ \A r \in Queries(world.rules, c) :
              /\ Some(r, Indexed(FactsOf(Everyone \ {b}))) <=> Some(r, facts)
              /\ All(r, Indexed(FactsOf(Everyone \ {b}))) <=> All(r, facts)
<1>1. PICK rs : rs = Without(world, b).rules
  OBVIOUS
<1>2. \A n \in DOMAIN world.rules : world.rules[n].block # b => rs[n] = world.rules[n]
  BY <1>1 DEF Without
<1>3. \A i \in 1 .. c.query_count : /\ c.query_at + i \in DOMAIN world.rules
                                    /\ world.rules[c.query_at + i] \in Queries(world.rules, c)
  BY PoolTyped DEF Queries
<1>4. \A i \in 1 .. c.query_count : rs[c.query_at + i] = world.rules[c.query_at + i]
  BY <1>2, <1>3
<1>5. Queries(rs, c) = Queries(world.rules, c)
  BY <1>4 DEF Queries
<1>6. ASSUME NEW r \in Queries(world.rules, c)
      PROVE  Answering(r, Indexed(FactsOf(Everyone \ {b}))) = Answering(r, facts)
  <2>1. b \notin r.trust
    BY <1>3, <1>6 DEF Untrusted, Queries
  <2>2. QED
    BY <2>1, SameAnswers
<1>7. QED
  BY <1>1, <1>5, <1>6 DEF Some, All

LEMMA AllowsWithout ==
  ASSUME AllSlots, AuthTypeOK, AuthInv, FromWorlds, RightlyDecided, out.kind = "allow",
         NEW b \in 1 .. MaxBlocks - 1, Untrusted(world, b), WithoutPolicies(world, b)
  PROVE  /\ IsMeaning(Without(world, b), FactsOf(Everyone \ {b}), Everyone)
         /\ Allowed(Without(world, b), FactsOf(Everyone \ {b}))
<1>1. phase = "idle" /\ status = "OK"
  <2>1. out # Cleared
    BY DEF Cleared
  <2>2. QED
    BY <2>1 DEF AuthInv
<1>2. /\ CalledFor(out) /\ Settled /\ FactsGrow /\ DerivedOnce
      /\ facts \in Seq(Fact) /\ world \in World
  BY <1>1 DEF RightlyDecided, CalledFor, AuthInv, AuthTypeOK, SolverTypeOK, RunTypeOK
<1>3. /\ world.checks \in Seq(Check) /\ world.policies \in Seq(Policy)
      /\ world.rules \in Seq(Rule)
  BY <1>2 DEF World
<1>4. PICK v, K : v = Without(world, b) /\ K = FactsOf(Everyone \ {b})
  OBVIOUS
<1>5. IsMeaning(v, K, Everyone)
  <2>1. b \in Everyone
    BY DatalogAssumption DEF Everyone
  <2>2. \A n \in DOMAIN world.rules : FewVariables(world.rules[n])
    BY DEF AllSlots, FromWorlds
  <2>3. QED
    BY <1>2, <1>4, <2>1, <2>2, WithoutMeans
<1>6. /\ out.failed = <<>>
      /\ out.policy \in DOMAIN world.policies
      /\ NoneMatched(out.policy - 1)
      /\ PolicyMatched(world, world.policies[out.policy], facts)
      /\ world.policies[out.policy].kind = "allow"
  BY <1>2 DEF CalledFor
<1>7. ASSUME NEW i \in DOMAIN world.checks, world.checks[i].block # b
      PROVE  CheckMet(v, world.checks[i], Indexed(K))
  <2>1. PICK c : c = world.checks[i]
    OBVIOUS
  <2>2. CheckMet(world, c, facts)
    <3>1. i \in 1 .. Len(world.checks)
      BY <1>3, LenProperties
    <3>2. ReportsFit(<<>>, Len(world.checks))
      BY <1>2, <1>6 DEF CalledFor
    <3>3. QED
      BY <2>1, <3>1, <3>2 DEF ReportsFit
  <2>3. c \in Check
    BY <1>3, <2>1, LenProperties, ElementOfSeq
  <2>4. /\ c.query_at + c.query_count <= Len(world.rules)
        /\ \A r \in Queries(world.rules, c) : r.block # b
    BY <1>7, <2>1, AuthAssumption DEF FromWorlds
  <2>5. c.query_at \in Nat /\ c.query_count \in Nat
    BY <2>3 DEF Check
  <2>6. /\ Queries(v.rules, c) = Queries(world.rules, c)
        /\ \A r \in Queries(world.rules, c) : /\ Some(r, Indexed(K)) <=> Some(r, facts)
                                              /\ All(r, Indexed(K)) <=> All(r, facts)
    BY <1>2, <1>3, <1>4, <2>4, <2>5, SameQueries
  <2>7. QED
    BY <2>1, <2>2, <2>6 DEF CheckMet
<1>8. ASSUME NEW i \in DOMAIN world.policies
      PROVE  PolicyMatched(v, world.policies[i], Indexed(K))
               <=> PolicyMatched(world, world.policies[i], facts)
  <2>1. PICK c : c = world.policies[i]
    OBVIOUS
  <2>2. c \in Policy
    BY <1>3, <2>1, LenProperties, ElementOfSeq
  <2>3. /\ c.query_at + c.query_count <= Len(world.rules)
        /\ \A r \in Queries(world.rules, c) : r.block # b
    BY <2>1, AuthAssumption DEF FromWorlds, WithoutPolicies
  <2>4. c.query_at \in Nat /\ c.query_count \in Nat
    BY <2>2 DEF Policy
  <2>5. /\ Queries(v.rules, c) = Queries(world.rules, c)
        /\ \A r \in Queries(world.rules, c) : Some(r, Indexed(K)) <=> Some(r, facts)
    BY <1>2, <1>3, <1>4, <2>3, <2>4, SameQueries
  <2>6. QED
    BY <2>1, <2>5 DEF PolicyMatched
<1>9. /\ v.policies = world.policies
      /\ \A i \in DOMAIN v.checks : /\ i \in DOMAIN world.checks
                                    /\ world.checks[i].block # b
                                    /\ v.checks[i] = world.checks[i]
  BY <1>2, <1>4 DEF Without, World
<1>10. \A j \in 1 .. out.policy - 1 :
         j \in DOMAIN world.policies /\ ~PolicyMatched(world, world.policies[j], facts)
  <2>1. DOMAIN world.policies = 1 .. Len(world.policies) /\ Len(world.policies) \in Nat
    BY <1>3, LenProperties
  <2>2. QED
    BY <1>6, <2>1 DEF NoneMatched
<1>11. Allowed(v, K)
  BY <1>6, <1>7, <1>8, <1>9, <1>10 DEF Allowed
<1>12. QED
  BY <1>4, <1>5, <1>11

\* Whatever the world, as long as its rules and queries have a slot for each of
\* their variables: what an authorization allows it would allow without any
\* block that no other trusts.  Appending a block can only take rights away
\* (130_engine.inc:9-15, 145_authorize.inc:1-14).
THEOREM AuthOnlyNarrows == ASSUME AllSlots PROVE AuthSpec => []OnlyNarrows
<1>1. AuthTypeOK /\ AuthInv /\ FromWorlds /\ RightlyDecided => OnlyNarrows
  BY AllowsWithout DEF OnlyNarrows
<1>2. QED
  BY <1>1, AuthInvariant, AuthDecidesRightly, PTL
=============================================================================
