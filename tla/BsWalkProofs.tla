---------------------------- MODULE BsWalkProofs ----------------------------
(***************************************************************************)
(* One walk, proved for every rule, every base of facts, every budget and  *)
(* every size of the build's bounds: its answers are sound and its budget  *)
(* bounds all of its work.                                                 *)
(***************************************************************************)
EXTENDS BsWalk, BsSolverProofs

USE DatalogAssumption, SolverAssumption, WalkAssumption

\* The walk starts with its invariant.
LEMMA WalkStarts ==
  ASSUME WalkInit PROVE WalkTypeOK /\ WalkInv
<1>1. /\ rule \in Rule /\ facts \in Seq(Fact) /\ steps \in Nat
      /\ Len(rule.body) \in Nat /\ Len(facts) \in Nat /\ rule.block \in 0 .. MaxBlocks
  BY LenProperties DEF WalkInit, Rule
<1>2. RuleOrigin \in Origin
  BY <1>1 DEF RuleOrigin, Origin
<1>3. frames \in [0 .. MaxBody-1 -> Frame] /\ frames[0].fact = 1 /\ frames[0].bind_mark = 0
  BY <1>2 DEF WalkInit, NoFrame, Frame, Origin
<1>4. binds \in Seq(Binding) /\ Len(binds) = 0 /\ answers \in Seq(Seq(Nat))
  BY EmptySeq DEF WalkInit
<1>5. WalkTypeOK
  <2>1. /\ base = Len(facts) /\ level = 0 /\ mark = 0 /\ arg = 1 /\ pc = "walk"
    BY DEF WalkInit
  <2>2. SolverTypeOK
    BY <1>1, <1>3, <1>4, <2>1 DEF SolverTypeOK
  <2>3. QED
    BY <2>1, <2>2 DEF WalkTypeOK, WalkPlaces
<1>6. WithinBounds
  BY <1>1, <1>3, <1>4 DEF WithinBounds, WalkInit
<1>7. MarksNest
  BY <1>1, <1>3, <1>4 DEF MarksNest, WalkInit
<1>8. BindsDistinct
  BY <1>4, LenProperties DEF BindsDistinct, WalkInit
<1>9. QED
  BY <1>5, <1>6, <1>7, <1>8 DEF WalkInv, UnifyFits, WalkInit

\* Every step keeps the walk at a place of its own.
LEMMA PlacesKept ==
  ASSUME WalkTypeOK, SolverStep \/ Resume PROVE pc' \in WalkPlaces
BY DEF WalkTypeOK, WalkPlaces, SolverStep, Answer, Resume, AskAgain, Backtrack, OutOfSteps,
       PassOver, Try, ArgumentAgrees, BindVariable, UnifyFails, Choose

LEMMA RuleKept ==
  ASSUME [WalkNext]_walkVars PROVE rule' = rule
BY DEF WalkNext, SolverStep, WalkOver, walkVars, solverVars, Answer, Resume, AskAgain,
       Backtrack, OutOfSteps, PassOver, Try, ArgumentAgrees, BindVariable, UnifyFails, Choose

\* The answers stay exact.
LEMMA ExactKept ==
  ASSUME WalkTypeOK, WalkKnows, SolverStep \/ Resume PROVE AnswersExact'
<1> SUFFICES ASSUME FewVariables(rule)' PROVE AnswersExact'
  BY DEF AnswersExact
<1>1. FewVariables(rule) /\ SolverTypeOK /\ WalkInv /\ BindsSourced
  <2>1. rule' = rule
    BY RuleKept DEF WalkNext
  <2>2. QED
    BY <2>1 DEF FewVariables, VarsOf, WalkTypeOK, WalkKnows
<1>2. CASE SolverStep
  <2>1. pc \in {"walk", "unify"}
    BY <1>2 DEF SolverStep, Answer, Backtrack, Searching, OutOfSteps, PassOver, Try,
                ArgumentAgrees, BindVariable, UnifyFails, Unifying, Choose
  <2>2. AnswersPassed(FALSE)
    BY <1>1, <2>1 DEF WalkKnows, AnswersExact
  <2>3. QED
    BY <1>1, <1>2, <2>2, StepExact DEF AnswersExact
<1>3. CASE Resume
  <2>1. AnswersPassed(TRUE) /\ level = Len(rule.body) /\ AskAgain
    BY <1>1, <1>3 DEF Resume, WalkKnows, AnswersExact, WalkInv
  <2>2. QED
    BY <1>1, <2>1, AskExact DEF AnswersExact
<1>4. QED
  BY <1>2, <1>3

LEMMA KnowsUnmoved ==
  ASSUME WalkTypeOK, WalkKnows, UNCHANGED walkVars PROVE WalkTypeOK' /\ WalkKnows'
<1>1. UNCHANGED <<facts, steps, rule, base, level, frames, binds, mark, arg, answers, pc>>
  BY DEF walkVars, solverVars
<1>2. level \in Nat /\ WalkInv
  BY DEF WalkTypeOK, SolverTypeOK, WalkKnows
<1>3. \A m \in 0 .. level' - 1 : LevelFits(m)'
  BY <1>1, <1>2, LevelsUnmoved
<1>4. UnifyFits'
  BY <1>1, <1>2 DEF WalkInv, UnifyFits, Goal, Chosen, Trusted, ArgFits
<1>5. WalkInv'
  BY <1>1, <1>2, <1>3, <1>4 DEF WalkInv, WithinBounds, MarksNest, BindsDistinct
<1>6. BindsSourced'
  BY <1>1, <1>2, SourcesUnmoved DEF WalkKnows
<1>7. \A b \in BOOLEAN : AnswersPassed(b) => AnswersPassed(b)'
  <2> TAKE b \in BOOLEAN
  <2>1. \A t : Passed(t)' <=> Passed(t)
    BY <1>1, PassedUnmoved
  <2>2. Choice' = Choice
    BY <1>1 DEF Choice
  <2>3. QED
    BY <1>1, <2>1, <2>2, AnswersKept
<1>8. AnswersAll => AnswersAll'
  BY <1>1, AllUnmoved
<1>9. AnswersExact'
  BY <1>1, <1>7, <1>8 DEF WalkKnows, AnswersExact, FewVariables, VarsOf
<1>10. QED
  BY <1>1, <1>5, <1>6, <1>9 DEF WalkTypeOK, SolverTypeOK, WalkKnows

\* The walk's variables keep their types, and what it knows of its levels, its
\* bindings and its answers holds, for every rule, base of facts and budget.
THEOREM WalkInvariant == WalkSpec => [](WalkTypeOK /\ WalkKnows)
<1>1. WalkInit => WalkTypeOK /\ WalkKnows
  <2> SUFFICES ASSUME WalkInit PROVE WalkTypeOK /\ WalkKnows
    OBVIOUS
  <2>1. WalkTypeOK /\ WalkInv
    BY WalkStarts
  <2>2. level = 0 /\ binds = <<>> /\ answers = <<>> /\ pc = "walk"
    BY DEF WalkInit
  <2>3. frames[0].fact = 1 /\ frames[0].bind_mark = 0
    BY DEF WalkInit
  <2>4. BindsSourced /\ AnswersPassed(FALSE)
    BY <2>1, <2>2, <2>3, WalkBeginsExact DEF WalkTypeOK
  <2>5. QED
    BY <2>1, <2>2, <2>4 DEF WalkKnows, AnswersExact
<1>2. WalkTypeOK /\ WalkKnows /\ [WalkNext]_walkVars => (WalkTypeOK /\ WalkKnows)'
  <2> SUFFICES ASSUME WalkTypeOK, WalkKnows, [WalkNext]_walkVars
               PROVE  (WalkTypeOK /\ WalkKnows)'
    OBVIOUS
  <2>1. CASE SolverStep \/ Resume
    <3>1. SolverStep \/ AskAgain
      BY <2>1 DEF Resume
    <3>2. WalkTypeOK' /\ WalkInv' /\ BindsSourced'
      BY <2>1, <3>1, StepTyped, StepInv, StepSourced, PlacesKept DEF WalkTypeOK, WalkKnows
    <3>3. AnswersExact'
      BY <2>1, ExactKept
    <3>4. QED
      BY <3>2, <3>3 DEF WalkKnows
  <2>2. CASE UNCHANGED walkVars
    BY <2>2, KnowsUnmoved
  <2>3. QED
    BY <2>1, <2>2 DEF WalkNext, WalkOver
<1>3. QED
  BY <1>1, <1>2, PTL DEF WalkSpec

\* Whenever the solver stops on an answer it is a sound one.
THEOREM WalkAnswersHold == WalkSpec => []AnswerHolds
<1>1. WalkTypeOK /\ WalkKnows => AnswerHolds
  BY FullLevelsSound DEF WalkTypeOK, WalkKnows, WalkInv, AnswerHolds
<1>2. QED
  BY <1>1, WalkInvariant, PTL

-----------------------------------------------------------------------------
(* The budget.                                                             *)

\* What one step of the budget pays for.
LEMMA Price ==
  ASSUME NEW s \in Nat, NEW t \in Nat
  PROVE  /\ (MaxArity + 4) * s \in Nat
         /\ t <= s => (MaxArity + 4) * t <= (MaxArity + 4) * s
         /\ t + 1 = s => (MaxArity + 4) * t + (MaxArity + 4) = (MaxArity + 4) * s
BY Z3

\* One turn of any of the walk's loops uses up some of the work left.
LEMMA StepSpends ==
  ASSUME WalkTypeOK, WalkInv, NarrowBody(rule), SolverStep \/ Resume
  PROVE  WorkLeft' < WorkLeft
<1>0. /\ level \in Nat /\ steps \in Nat /\ steps' \in Nat /\ level' \in Nat
      /\ arg \in Nat /\ SolverTypeOK /\ SolverTypeOK'
  <2>1. SolverStep \/ AskAgain
    BY DEF Resume
  <2>2. SolverTypeOK /\ SolverTypeOK'
    BY <2>1, StepTyped DEF WalkTypeOK
  <2>3. QED
    BY <2>2 DEF SolverTypeOK
<1> DEFINE paid == (MaxArity + 4) * steps
           ahead == FreeTurns(pc, level, Len(Goal.terms) + 1 - arg)
<1>w. /\ WorkLeft = paid + ahead
      /\ \A q, b : q = paid' /\ b = ahead' => WorkLeft' = q + b
  BY DEF WorkLeft
<1>p. /\ paid \in Nat /\ paid' \in Nat
      /\ steps' <= steps => paid' <= paid
      /\ steps' + 1 = steps => paid' + (MaxArity + 4) = paid
  BY <1>0, Price
<1> HIDE DEF paid, ahead
\* It is enough to compare what is ahead, with the step that was paid.
<1>s. ASSUME ahead \in Int, ahead' \in Int,
             \/ steps' <= steps /\ ahead' < ahead
             \/ steps' + 1 = steps /\ ahead' < ahead + (MaxArity + 4)
      PROVE  WorkLeft' < WorkLeft
  <2>1. PICK q \in Nat : q = paid'
    BY <1>p
  <2>2. PICK b \in Int : b = ahead'
    BY <1>s
  <2>3. \/ q <= paid /\ b < ahead
        \/ q + (MaxArity + 4) = paid /\ b < ahead + (MaxArity + 4)
    BY <1>p, <1>s, <2>1, <2>2
  <2>4. paid \in Nat /\ ahead \in Int /\ MaxArity + 4 \in Nat
    BY <1>p, <1>s
  <2>5. q + b < paid + ahead
    BY <2>3, <2>4
  <2>6. WorkLeft' = q + b
    BY <1>w, <2>1, <2>2
  <2>7. QED
    BY <1>w, <2>5, <2>6
<1>1. CASE Answer
  <2>1. ahead = 2 * level + 2 /\ ahead' = 2 * level + 1 /\ steps' = steps
    BY <1>1 DEF Answer, FreeTurns, ahead
  <2>2. QED
    BY <1>0, <1>s, <2>1
<1>2. CASE Resume
  <2>1. ahead = 2 * level + 1 /\ steps' = steps
    BY <1>2 DEF Resume, AskAgain, FreeTurns, ahead
  <2>2. CASE level = 0
    <3>1. ahead' = 0
      BY <1>2, <2>2 DEF Resume, AskAgain, FreeTurns, ahead
    <3>2. QED
      BY <1>0, <1>s, <2>1, <2>2, <3>1
  <2>3. CASE level # 0
    <3>1. ahead' = 2 * (level - 1) + 2
      BY <1>2, <2>3 DEF Resume, AskAgain, NextCandidate, FreeTurns, ahead
    <3>2. QED
      BY <1>0, <1>s, <2>1, <2>3, <3>1
  <2>4. QED
    BY <2>2, <2>3
<1>3. CASE Backtrack
  <2>1. ahead = 2 * level + 2 /\ steps' = steps
    BY <1>3 DEF Backtrack, Searching, FreeTurns, ahead
  <2>2. CASE level = 0
    <3>1. ahead' = 0
      BY <1>3, <2>2 DEF Backtrack, FreeTurns, ahead
    <3>2. QED
      BY <1>0, <1>s, <2>1, <2>2, <3>1
  <2>3. CASE level # 0
    <3>1. ahead' = 2 * (level - 1) + 2
      BY <1>3, <2>3 DEF Backtrack, Searching, NextCandidate, FreeTurns, ahead
    <3>2. QED
      BY <1>0, <1>s, <2>1, <2>3, <3>1
  <2>4. QED
    BY <2>2, <2>3
<1>4. CASE OutOfSteps
  <2>1. ahead = 2 * level + 2 /\ ahead' = 0 /\ steps' = steps
    BY <1>4 DEF OutOfSteps, Searching, FreeTurns, ahead
  <2>2. QED
    BY <1>0, <1>s, <2>1
<1>5. CASE PassOver
  <2>1. ahead = 2 * level + 2 /\ ahead' = 2 * level + 2 /\ steps' = steps - 1
        /\ steps > 0
    BY <1>5 DEF PassOver, Searching, FreeTurns, ahead
  <2>2. QED
    BY <1>0, <1>s, <2>1
<1>6. CASE Try
  <2>1. Goal.terms \in Seq(Term) /\ Len(Goal.terms) <= MaxArity
    BY <1>0, <1>6, GoalTyped DEF Try, Searching, Goal, NarrowBody
  <2>2. PICK n \in Nat : n = Len(Goal.terms)
    BY <2>1, LenProperties
  <2>3. pc = "walk" /\ pc' = "unify" /\ arg' = 1 /\ level' = level
        /\ steps' = steps - 1 /\ steps > 0 /\ Goal' = Goal
    BY <1>6 DEF Try, Searching, Goal
  <2>4. ahead = 2 * level + 2 /\ ahead' = 2 * level + 5 + (Len(Goal.terms) + 1 - 1)
    BY <2>3 DEF FreeTurns, ahead
  <2>5. ahead = 2 * level + 2 /\ ahead' = 2 * level + 5 + n
    BY <1>0, <2>2, <2>4
  <2>6. n <= MaxArity /\ level \in Nat /\ MaxArity \in Nat
    BY <1>0, <2>1, <2>2
  <2>7. ahead \in Int /\ ahead' \in Int /\ ahead' < ahead + (MaxArity + 4)
    BY <2>5, <2>6
  <2>8. steps' + 1 = steps
    BY <1>0, <2>3
  <2>9. QED
    BY <1>s, <2>7, <2>8
<1>7. CASE pc = "unify" /\ SolverStep
  <2>1. Len(Goal.terms) \in Nat /\ arg <= Len(Goal.terms) + 1
    BY <1>0, <1>7, UnifyingFacts DEF WalkInv, UnifyFits
  <2>2. PICK n \in Nat : n = Len(Goal.terms) + 1 - arg
    BY <1>0, <2>1
  <2>3. ahead = 2 * level + 5 + n /\ level \in Nat
    BY <1>0, <1>7, <2>2 DEF FreeTurns, ahead
  <2>4. CASE ArgumentAgrees \/ BindVariable
    <3>1. /\ pc' = "unify" /\ arg' = arg + 1 /\ level' = level
          /\ steps' <= steps /\ Goal' = Goal
      BY <1>0, <1>7, <2>4 DEF ArgumentAgrees, BindVariable, Goal, Spend
    <3>2. ahead' = 2 * level + 5 + (Len(Goal.terms) + 1 - (arg + 1))
      BY <3>1 DEF FreeTurns, ahead
    <3>3. ahead' = 2 * level + 5 + (n - 1)
      <4>1. arg \in Nat
        BY <1>0
      <4>2. Len(Goal.terms) + 1 - (arg + 1) = n - 1
        <5>1. PICK m \in Nat : m = Len(Goal.terms)
          BY <2>1
        <5>2. n = m + 1 - arg
          BY <2>2, <5>1
        <5>3. m + 1 - (arg + 1) = n - 1
          BY <4>1, <5>2
        <5>4. QED
          BY <5>1, <5>3
      <4>3. QED
        BY <3>2, <4>2
    <3>4. ahead \in Int /\ ahead' \in Int /\ ahead' < ahead
      BY <2>3, <3>3
    <3>5. QED
      BY <1>s, <3>1, <3>4
  <2>5. CASE UnifyFails
    <3>1. pc' = "walk" /\ level' = level /\ steps' <= steps
      BY <1>0, <2>5 DEF UnifyFails, Spend
    <3>2. ahead' = 2 * level + 2
      BY <3>1 DEF FreeTurns, ahead
    <3>3. ahead \in Int /\ ahead' \in Int /\ ahead' < ahead
      BY <2>3, <3>2
    <3>4. QED
      BY <1>s, <3>1, <3>3
  <2>6. CASE Choose
    <3>1. pc' = "walk" /\ level' = level + 1 /\ steps' <= steps
      BY <1>0, <2>6 DEF Choose
    <3>2. ahead' = 2 * (level + 1) + 2
      BY <3>1 DEF FreeTurns, ahead
    <3>3. ahead \in Int /\ ahead' \in Int /\ ahead' < ahead
      BY <2>3, <3>2
    <3>4. QED
      BY <1>s, <3>1, <3>3
  <2>7. QED
    BY <1>1, <1>3, <1>4, <1>5, <1>6, <1>7, <2>4, <2>5, <2>6 DEF SolverStep
<1>8. QED
  BY <1>1, <1>2, <1>3, <1>4, <1>5, <1>6, <1>7
  DEF SolverStep, ArgumentAgrees, BindVariable, UnifyFails, Choose, Unifying

\* max_steps bounds the whole walk: no turn of any loop is free, whatever the
\* rule, the facts and the budget.
THEOREM WalkBudget == WalkSpec => BudgetBoundsWalk
<1>1. WalkInit => NarrowBody(rule)
  BY ArityAssumption DEF WalkInit
<1>2. NarrowBody(rule) /\ [WalkNext]_walkVars => NarrowBody(rule)'
  <2> SUFFICES ASSUME NarrowBody(rule), [WalkNext]_walkVars PROVE NarrowBody(rule)'
    OBVIOUS
  <2>1. rule' = rule
    BY RuleKept
  <2>2. QED
    BY <2>1 DEF NarrowBody
<1>3. /\ WalkTypeOK /\ WalkKnows /\ NarrowBody(rule)
      /\ [WalkNext]_walkVars
      => [WorkLeft' < WorkLeft]_walkVars
  BY StepSpends DEF WalkNext, WalkOver, WalkKnows
<1>4. QED
  BY <1>1, <1>2, <1>3, WalkInvariant, PTL DEF WalkSpec, BudgetBoundsWalk

-----------------------------------------------------------------------------
(* The walk implements BsMatches.                                          *)

\* What BsMatches calls a match of a rule is what the walk does.
LEMMA SameMatches ==
  ASSUME NEW r, NEW fs PROVE M!Matches(r, fs) = Matches(r, fs)
BY DEF M!Matches, Matches, M!Tuples, Tuples, M!IsMatch, IsMatch, M!Explains, Explains,
       M!States, States, M!Ground, Ground, M!Under, Under, M!Term, Term

\* The matches still to be given are those BsMatches calls left.
LEMMA LeftIs ==
  ASSUME WalkTypeOK, base = Len(facts)
  PROVE  M!Left = {t \in Combinations : IsMatch(rule, facts, t) /\ t \notin Answered}
<1>1. DOMAIN facts = 1 .. base
  BY LenProperties DEF WalkTypeOK, SolverTypeOK
<1>2. Matches(rule, facts) = {t \in Combinations : IsMatch(rule, facts, t)}
  BY <1>1 DEF Matches, Tuples, Combinations
<1>3. M!Left = {t \in Matches(rule, facts) : \A k \in DOMAIN answers : answers[k] # t}
  BY SameMatches DEF M!Left
<1>4. \A t : (\A k \in DOMAIN answers : answers[k] # t) <=> t \notin Answered
  BY DEF Answered
<1>5. QED
  BY <1>2, <1>3, <1>4

\* Every turn of the walk is a step of BsMatches or none at all.
LEMMA WalkImplements ==
  ASSUME WalkTypeOK, WalkKnows, WalkTypeOK', WalkKnows',
         FewVariables(rule), base = Len(facts), [WalkNext]_walkVars
  PROVE  [M!Next]_(M!vars)
<1> DEFINE Over(place) == IF place \in {"done", "limit"} THEN place ELSE "open"
<1>1. SolverTypeOK /\ WalkInv
  BY DEF WalkTypeOK, WalkKnows
<1>2. ASSUME UNCHANGED <<rule, facts, answers>>, Over(pc') = Over(pc)
      PROVE  [M!Next]_(M!vars)
  BY <1>2 DEF M!vars
<1>3. CASE Answer
  <2>1. /\ pc = "walk" /\ pc' = "found" /\ level = Len(rule.body)
        /\ answers' = Append(answers, Choice) /\ UNCHANGED <<rule, facts>>
    BY <1>3 DEF Answer, Choice
  <2>2. AnswersPassed(FALSE)
    BY <2>1 DEF WalkKnows, AnswersExact
  <2>3. /\ Choice \in M!Left
        /\ \A u \in M!Left \ {Choice} : Before(Choice, u)
    BY <1>1, <2>1, <2>2, AnswerIsNext, LeftIs
  <2>4. \A u \in M!Left \ {Choice} : M!Before(Choice, u)
    BY <2>3 DEF Before, M!Before
  <2>5. M!Yield
    BY <2>1, <2>3, <2>4 DEF M!Yield
  <2>6. QED
    BY <2>5 DEF M!Next
<1>4. CASE pc' = "done" /\ pc \in {"walk", "found"} /\ UNCHANGED <<rule, facts, answers, base>>
  <2>1. AnswersAll'
    <3>1. FewVariables(rule)'
      BY <1>4 DEF FewVariables, VarsOf
    <3>2. QED
      BY <1>4, <3>1 DEF WalkKnows, AnswersExact
  <2>2. AnswersAll
    BY <1>4, <2>1, AllUnmoved
  <2>3. M!Left = {}
    BY <2>2, LeftIs DEF AnswersAll
  <2>4. M!Finish
    BY <1>4, <2>3 DEF M!Finish
  <2>5. QED
    BY <2>4 DEF M!Next
<1>5. CASE OutOfSteps
  <2>1. M!GiveUp
    BY <1>5 DEF OutOfSteps, Searching, solverVars, M!GiveUp
  <2>2. QED
    BY <2>1 DEF M!Next
<1>6. CASE Backtrack \/ Resume
  <2>1. /\ pc \in {"walk", "found"} /\ pc' \in {"walk", "done"}
        /\ UNCHANGED <<rule, facts, answers, base>>
    BY <1>6 DEF Backtrack, Searching, Resume, AskAgain
  <2>2. CASE pc' = "done"
    BY <1>4, <2>1, <2>2
  <2>3. CASE pc' = "walk"
    BY <1>2, <2>1, <2>3
  <2>4. QED
    BY <2>1, <2>2, <2>3
<1>7. CASE PassOver \/ Try \/ ArgumentAgrees \/ BindVariable \/ UnifyFails \/ Choose
  <2>1. /\ pc \in {"walk", "unify"} /\ pc' \in {"walk", "unify"}
        /\ UNCHANGED <<rule, facts, answers>>
    BY <1>7 DEF PassOver, Searching, Try, ArgumentAgrees, BindVariable, UnifyFails,
                Unifying, Choose
  <2>2. QED
    BY <1>2, <2>1
<1>8. CASE UNCHANGED walkVars
  BY <1>2, <1>8 DEF walkVars, solverVars
<1>9. QED
  BY <1>3, <1>5, <1>6, <1>7, <1>8 DEF WalkNext, SolverStep, WalkOver

LEMMA BaseKept ==
  ASSUME base = Len(facts), [WalkNext]_walkVars PROVE (base = Len(facts))'
BY DEF WalkNext, SolverStep, WalkOver, walkVars, solverVars, Answer, Resume, AskAgain,
       Backtrack, OutOfSteps, PassOver, Try, ArgumentAgrees, BindVariable, UnifyFails, Choose

\* For every set of rules whose variables have slots, every base of facts and
\* every budget, the walk gives every match of the body once, in the order of
\* nested loops, and ends only when none is left or it gave up.  A rule with
\* more variables than bs_solver.binds has slots is excepted: of such a body
\* bs_unify says "no match" (130_engine.inc, bs_unify).
THEOREM WalkYieldsEveryMatch ==
  ASSUME \A r \in Rules : FewVariables(r)
  PROVE  WalkSpec => YieldsEveryMatch
<1> DEFINE Bound == FewVariables(rule) /\ base = Len(facts)
<1>1. WalkInit => M!Init
  BY DEF WalkInit, M!Init
<1>2. WalkInit => Bound
  BY DEF WalkInit
<1>3. Bound /\ [WalkNext]_walkVars => Bound'
  <2> SUFFICES ASSUME FewVariables(rule), base = Len(facts), [WalkNext]_walkVars
               PROVE  FewVariables(rule)' /\ (base = Len(facts))'
    OBVIOUS
  <2>1. rule' = rule
    BY RuleKept
  <2>2. QED
    BY <2>1, BaseKept DEF FewVariables, VarsOf
<1>4. /\ WalkTypeOK /\ WalkKnows /\ (WalkTypeOK /\ WalkKnows)'
      /\ Bound /\ [WalkNext]_walkVars
      => [M!Next]_(M!vars)
  BY WalkImplements
<1> HIDE DEF Bound
<1>5. QED
  BY <1>1, <1>2, <1>3, <1>4, WalkInvariant, PTL DEF WalkSpec, YieldsEveryMatch, M!Spec
=============================================================================
