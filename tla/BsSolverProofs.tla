--------------------------- MODULE BsSolverProofs ---------------------------
(***************************************************************************)
(* The walk of one body, proved for every rule, every base of facts, every *)
(* budget and every size of the build's bounds.                            *)
(*                                                                         *)
(* The argument: WalkInv is inductive.  Its heart is that every level      *)
(* below the current one has its fact and its bindings (LevelFits), that   *)
(* what a level relies on lies below the mark its successor truncates to   *)
(* (MarksNest), and that no variable is bound twice (BindsDistinct).       *)
(***************************************************************************)
EXTENDS BsSolver, SequenceTheorems, FiniteSetTheorems, TLAPS

USE DatalogAssumption, SolverAssumption

-----------------------------------------------------------------------------
(* Helpers.                                                                *)

\* The facts, the goal and the pattern the walk reads exist.
LEMMA CandidateTyped ==
  ASSUME SolverTypeOK, WithinBounds, NEW l \in Nat, l < MaxBody,
         frames[l].fact \in 1 .. base
  PROVE  /\ facts[frames[l].fact] \in Fact
         /\ frames[l].fact \in DOMAIN facts
<1>1. frames[l].fact \in 1 .. Len(facts)
  BY DEF SolverTypeOK, WithinBounds, Frame
<1>2. QED
  BY <1>1, ElementOfSeq, LenProperties DEF SolverTypeOK

LEMMA GoalTyped ==
  ASSUME SolverTypeOK, NEW l \in Nat, l < Len(rule.body)
  PROVE  /\ rule.body[l + 1] \in Predicate
         /\ rule.body[l + 1].terms \in Seq(Term)
         /\ l + 1 \in DOMAIN rule.body
<1>1. rule.body \in Seq(Predicate)
  BY DEF SolverTypeOK, Rule
<1>2. l + 1 \in 1 .. Len(rule.body)
  BY <1>1, LenProperties
<1>3. rule.body[l + 1] \in Predicate
  BY <1>1, <1>2, ElementOfSeq
<1>4. QED
  BY <1>1, <1>2, <1>3, LenProperties DEF Predicate

LEMMA TermTyped ==
  ASSUME NEW terms \in Seq(Term), NEW i \in 1 .. Len(terms)
  PROVE  terms[i] \in Term
BY ElementOfSeq

\* Truncating the bindings keeps their type and the entries below the mark.
LEMMA Truncated ==
  ASSUME NEW b \in Seq(Binding), NEW n \in Nat, n <= Len(b)
  PROVE  /\ SubSeq(b, 1, n) \in Seq(Binding)
         /\ Len(SubSeq(b, 1, n)) = n
         /\ \A k \in 1 .. n : SubSeq(b, 1, n)[k] = b[k]
<1>1. Len(b) \in Nat
  BY LenProperties
<1>2. \A k \in 1 .. n : b[k] \in Binding
  BY <1>1, ElementOfSeq
<1>3. QED
  BY <1>2, SubSeqProperties

\* Moving a frame to its next candidate changes nothing else.
LEMMA FrameAdvanced ==
  ASSUME frames \in [0 .. MaxBody-1 -> Frame], NEW l \in 0 .. MaxBody-1,
         frames' = [frames EXCEPT ![l].fact = @ + 1]
  PROVE  /\ frames' \in [0 .. MaxBody-1 -> Frame]
         /\ frames'[l].fact = frames[l].fact + 1
         /\ frames'[l].bind_mark = frames[l].bind_mark
         /\ \A m \in 0 .. MaxBody-1 : m # l => frames'[m] = frames[m]
<1>1. frames[l] \in Frame
  OBVIOUS
<1>2. [frames[l] EXCEPT !.fact = @ + 1] \in Frame
  BY <1>1 DEF Frame
<1>3. frames' = [frames EXCEPT ![l] = [frames[l] EXCEPT !.fact = @ + 1]]
  OBVIOUS
<1>4. frames'[l] = [frames[l] EXCEPT !.fact = @ + 1]
  BY <1>3
<1>5. /\ frames'[l].fact = frames[l].fact + 1
      /\ frames'[l].bind_mark = frames[l].bind_mark
  BY <1>1, <1>4 DEF Frame
<1>6. QED
  BY <1>2, <1>3, <1>5

\* A set of numbers that is not empty has a least.
LEMMA LeastOf ==
  ASSUME NEW S \in SUBSET Nat, S # {}
  PROVE  \E i \in S : \A j \in S : i <= j
<1>1. PICK i \in S : \A j \in S : ~(<<j, i>> \in OpToRel(<, Nat))
  BY WFMin, NatLessThanWellFounded
<1>2. ASSUME NEW j \in S PROVE i <= j
  <2>1. ~(j < i)
    BY <1>1 DEF OpToRel
  <2>2. QED
    BY <2>1
<1>3. QED
  BY <1>2

-----------------------------------------------------------------------------
(* Types.                                                                  *)

LEMMA NextCandidateTyped ==
  ASSUME SolverTypeOK, WalkInv, NEW l \in Nat, l < level \/ l = level,
         l < Len(rule.body), NextCandidate(l)
  PROVE  level' \in 0 .. MaxBody /\ frames' \in [0 .. MaxBody-1 -> Frame]
         /\ binds' \in Seq(Binding)
<1>1. l \in 0 .. MaxBody-1
  BY DEF SolverTypeOK, WalkInv, WithinBounds
<1>2. frames[l] \in Frame
  BY <1>1 DEF SolverTypeOK
<1>3. frames' \in [0 .. MaxBody-1 -> Frame]
  BY <1>1, FrameAdvanced DEF SolverTypeOK, NextCandidate
<1>4. frames[l].bind_mark \in Nat /\ frames[l].bind_mark <= Len(binds)
  BY <1>1, <1>2 DEF WalkInv, MarksNest, SolverTypeOK, Frame
<1>5. binds' \in Seq(Binding)
  BY <1>4, Truncated DEF SolverTypeOK, NextCandidate
<1>6. QED
  BY <1>1, <1>3, <1>5 DEF NextCandidate

LEMMA StepTyped ==
  ASSUME SolverTypeOK, WalkInv, SolverStep \/ AskAgain
  PROVE  SolverTypeOK'
<1> USE DEF SolverTypeOK
<1>l. Len(rule.body) \in Nat
  BY LenProperties DEF Rule
<1>1. CASE Answer
  <2>1. \A i \in 1 .. Len(rule.body) : frames[i-1].fact \in Nat
    BY <1>l DEF WalkInv, WithinBounds, Frame
  <2>2. DOMAIN rule.body = 1 .. Len(rule.body)
    BY LenProperties DEF Rule
  <2>3. [i \in DOMAIN rule.body |-> frames[i-1].fact] \in Seq(Nat)
    BY <1>l, <2>1, <2>2, SeqDef
  <2>4. answers' \in Seq(Seq(Nat))
    BY <1>1, <2>3, AppendProperties DEF Answer
  <2>5. QED
    BY <1>1, <2>4 DEF Answer
<1>2. CASE AskAgain
  <2>1. CASE level = 0
    BY <1>2, <2>1 DEF AskAgain
  <2>2. CASE level # 0
    <3>1. level - 1 \in Nat /\ level - 1 < Len(rule.body) /\ level - 1 < level
      BY <2>2, <1>l DEF WalkInv, WithinBounds
    <3>2. NextCandidate(level - 1)
      BY <1>2, <2>2 DEF AskAgain
    <3>3. QED
      BY <1>2, <3>1, <3>2, NextCandidateTyped DEF AskAgain
  <2>3. QED
    BY <2>1, <2>2
<1>3. CASE Backtrack
  <2>1. CASE level = 0
    BY <1>3, <2>1 DEF Backtrack
  <2>2. CASE level # 0
    <3>1. level - 1 \in Nat /\ level - 1 < Len(rule.body) /\ level - 1 < level
      BY <2>2, <1>l DEF WalkInv, WithinBounds
    <3>2. NextCandidate(level - 1)
      BY <1>3, <2>2 DEF Backtrack
    <3>3. QED
      BY <1>3, <3>1, <3>2, NextCandidateTyped DEF Backtrack
  <2>3. QED
    BY <2>1, <2>2
<1>4. CASE OutOfSteps
  BY <1>4 DEF OutOfSteps, solverVars
<1>5. CASE PassOver
  <2>1. level \in 0 .. MaxBody-1
    BY <1>5, <1>l DEF PassOver, Searching, WalkInv, WithinBounds
  <2>2. frames' \in [0 .. MaxBody-1 -> Frame]
    BY <1>5, <2>1, FrameAdvanced DEF PassOver
  <2>3. QED
    BY <1>5, <2>2 DEF PassOver
<1>6. CASE Try
  <2>1. Len(binds) \in Nat
    BY LenProperties
  <2>2. QED
    BY <1>6, <2>1 DEF Try
<1>7. CASE ArgumentAgrees
  BY <1>7 DEF ArgumentAgrees, Spend
<1>8. CASE BindVariable
  <2>1. /\ pc = "unify" /\ level < Len(rule.body) /\ level < MaxBody
        /\ level \in Nat /\ frames[level].fact \in 1 .. base
        /\ SameShape(Goal, Candidate)
    BY <1>8, <1>l
    DEF BindVariable, Unifying, WalkInv, UnifyFits, WithinBounds, Chosen, Goal, Candidate
  <2>2. Candidate \in Fact
    BY <2>1, CandidateTyped DEF WalkInv, Candidate
  <2>3. Goal.terms \in Seq(Term) /\ Candidate.terms \in Seq(Term)
    BY <2>1, <2>2, GoalTyped DEF Goal, Fact
  <2>4. arg \in 1 .. Len(Goal.terms) /\ arg \in 1 .. Len(Candidate.terms)
    BY <1>8, <2>1, <2>3, LenProperties DEF BindVariable, Unifying, SameShape
  <2>5. Pattern \in Var /\ Given \in Term
    BY <1>8, <2>3, <2>4, TermTyped DEF BindVariable, Compares, Pattern, Given
  <2>6. [sym |-> Pattern, value |-> Given] \in Binding
    BY <2>5 DEF Binding
  <2>7. binds' \in Seq(Binding)
    BY <1>8, <2>6, AppendProperties DEF BindVariable
  <2>8. QED
    BY <1>8, <2>7 DEF BindVariable
<1>9. CASE UnifyFails
  <2>1. level \in 0 .. MaxBody-1 /\ pc = "unify" /\ level < Len(rule.body)
    BY <1>9, <1>l DEF UnifyFails, Unifying, WalkInv, UnifyFits, WithinBounds
  <2>2. frames' \in [0 .. MaxBody-1 -> Frame]
    BY <1>9, <2>1, FrameAdvanced DEF UnifyFails
  <2>3. mark <= Len(binds)
    BY <2>1 DEF WalkInv, MarksNest
  <2>4. binds' \in Seq(Binding)
    BY <1>9, <2>3, Truncated DEF UnifyFails
  <2>5. steps' \in Nat
    BY <1>9 DEF UnifyFails, Spend
  <2>6. QED
    BY <1>9, <2>2, <2>4, <2>5 DEF UnifyFails
<1>10. CASE Choose
  <2>1. /\ level \in 0 .. MaxBody-1 /\ level < Len(rule.body)
        /\ Len(rule.body) <= MaxBody /\ frames[level].fact \in 1 .. base
    BY <1>10, <1>l DEF Choose, WalkInv, UnifyFits, WithinBounds, Chosen
  <2>2. Candidate.origin \in Origin
    <3>1. Candidate \in Fact
      BY <2>1, CandidateTyped DEF WalkInv, Candidate
    <3>2. QED
      BY <3>1 DEF Fact
  <2>3. PriorOrigin \in Origin
    <3>1. rule.block \in 0 .. MaxBlocks
      BY DEF Rule
    <3>2. CASE level = 0
      BY <3>1, <3>2 DEF PriorOrigin, RuleOrigin, Origin
    <3>3. CASE level # 0
      <4>1. frames[level - 1] \in Frame
        BY <2>1, <3>3
      <4>2. QED
        BY <3>3, <4>1 DEF PriorOrigin, Frame
    <3>4. QED
      BY <3>2, <3>3
  <2>4. PriorOrigin \cup Candidate.origin \in Origin
    BY <2>2, <2>3 DEF Origin
  <2>5. Len(binds) \in Nat
    BY LenProperties
  <2>6. frames' \in [0 .. MaxBody-1 -> Frame]
    <3> DEFINE chosen == [frames EXCEPT
                   ![level].bind_mark = mark,
                   ![level].origin = PriorOrigin \cup Candidate.origin]
    <3>1. chosen \in [0 .. MaxBody-1 -> Frame]
      BY <2>1, <2>4 DEF Frame
    <3>2. frames' = IF level + 1 < Len(rule.body)
                    THEN [chosen EXCEPT ![level + 1].fact = 1,
                                        ![level + 1].bind_mark = Len(binds)]
                    ELSE chosen
      BY <1>10 DEF Choose
    <3> HIDE DEF chosen
    <3>3. CASE level + 1 < Len(rule.body)
      <4>1. level + 1 \in 0 .. MaxBody-1
        BY <1>l, <2>1, <3>3
      <4>2. chosen[level + 1] \in Frame
        BY <3>1, <4>1
      <4>3. [chosen[level + 1] EXCEPT !.fact = 1, !.bind_mark = Len(binds)] \in Frame
        BY <2>5, <4>2 DEF Frame
      <4>4. frames' = [chosen EXCEPT ![level + 1] =
                  [chosen[level + 1] EXCEPT !.fact = 1, !.bind_mark = Len(binds)]]
        BY <3>1, <3>2, <3>3, <4>1
      <4>5. QED
        BY <3>1, <4>1, <4>3, <4>4
    <3>4. CASE ~(level + 1 < Len(rule.body))
      BY <3>1, <3>2, <3>4
    <3>5. QED
      BY <3>3, <3>4
  <2>7. /\ level' = level + 1
        /\ UNCHANGED <<facts, steps, rule, base, binds, mark, arg, answers>>
    BY <1>10 DEF Choose
  <2>8. level' \in 0 .. MaxBody
    BY <2>1, <2>7
  <2>9. QED
    BY <2>6, <2>7, <2>8
<1>11. QED
  BY <1>1, <1>2, <1>3, <1>4, <1>5, <1>6, <1>7, <1>8, <1>9, <1>10 DEF SolverStep

-----------------------------------------------------------------------------
(* The invariant.                                                          *)

\* A variable with a binding has that binding's value.
LEMMA ValueOfBinding ==
  ASSUME NEW b \in Seq(Binding), NEW n \in DOMAIN b,
         \A j, k \in DOMAIN b : b[j].sym = b[k].sym => j = k
  PROVE  ValueOf(b[n].sym, b) = b[n].value
<1> DEFINE First(k) == /\ b[k].sym = b[n].sym
                       /\ \A j \in 1 .. k-1 : b[j].sym # b[n].sym
<1>1. DOMAIN b = 1 .. Len(b) /\ Len(b) \in Nat
  BY LenProperties
<1>2. First(n)
  BY <1>1
<1>3. \A k \in DOMAIN b : First(k) => k = n
  OBVIOUS
<1>4. (CHOOSE k \in DOMAIN b : First(k)) = n
  BY <1>2, <1>3
<1>5. QED
  BY <1>4 DEF ValueOf

\* A level keeps its fact and its bindings as long as the frames up to it and
\* the bindings below its mark stay what they were.  Facts may be appended.
LEMMA LevelKept ==
  ASSUME NEW l \in Nat, LevelFits(l),
         rule' = rule, base' = base,
         \A k \in 1 .. base : facts'[k] = facts[k],
         \A k \in 0 .. l : /\ frames[k].fact \in 1 .. base
                          /\ frames'[k].fact = frames[k].fact,
         frames'[l].origin = frames[l].origin,
         BindsAfter(l)' = BindsAfter(l),
         \A k \in 1 .. BindsAfter(l) : binds'[k] = binds[k]
  PROVE  LevelFits(l)'
<1>1. l \in 0 .. l
  OBVIOUS
<1>2. /\ frames'[l].fact = frames[l].fact
      /\ facts'[frames'[l].fact] = facts[frames[l].fact]
  BY <1>1
<1>3. Chosen(l)'
  BY <1>2 DEF LevelFits, Chosen, Trusted, SameShape
<1>4. \A i \in 1 .. Len(rule.body[l + 1].terms) : ArgFits(l, i, BindsAfter(l))'
  <2> TAKE i \in 1 .. Len(rule.body[l + 1].terms)
  <2>1. ArgFits(l, i, BindsAfter(l))
    BY DEF LevelFits
  <2>2. QED
    BY <1>2, <2>1 DEF ArgFits
<1>5. OriginThrough(l)' = OriginThrough(l)
  <2>1. \A k \in 0 .. l : facts'[frames'[k].fact] = facts[frames[k].fact]
    OBVIOUS
  <2>2. {facts'[frames'[k].fact].origin : k \in 0 .. l}
          = {facts[frames[k].fact].origin : k \in 0 .. l}
    BY <2>1
  <2>3. QED
    BY <2>2 DEF OriginThrough, RuleOrigin
<1>6. QED
  BY <1>3, <1>4, <1>5 DEF LevelFits

\* Below the current level every fact chosen is a fact of the base.
LEMMA ChosenBelow ==
  ASSUME WalkInv, NEW l \in 0 .. level - 1
  PROVE  frames[l].fact \in 1 .. base
BY DEF WalkInv, LevelFits, Chosen

\* A live level's mark is a place in the bindings.
LEMMA MarkBelow ==
  ASSUME SolverTypeOK, WalkInv, NEW m \in 0 .. level, m < Len(rule.body)
  PROVE  /\ m \in 0 .. MaxBody-1
         /\ frames[m].bind_mark \in Nat
         /\ frames[m].bind_mark <= Len(binds)
<1>1. m \in 0 .. MaxBody-1
  BY LenProperties DEF SolverTypeOK, WalkInv, WithinBounds, Rule
<1>2. frames[m] \in Frame
  BY <1>1 DEF SolverTypeOK
<1>3. QED
  BY <1>1, <1>2 DEF WalkInv, MarksNest, Frame

\* A step that moves nothing keeps every level.
LEMMA LevelsUnmoved ==
  ASSUME WalkInv, level \in Nat,
         UNCHANGED <<facts, rule, base, level, frames, binds>>
  PROVE  \A m \in 0 .. level' - 1 : LevelFits(m)'
<1> SUFFICES ASSUME NEW m \in 0 .. level - 1 PROVE LevelFits(m)'
  OBVIOUS
<1>1. LevelFits(m) /\ m \in Nat
  BY DEF WalkInv
<1>2. BindsAfter(m)' = BindsAfter(m)
  BY DEF BindsAfter
<1>3. \A k \in 0 .. m : frames[k].fact \in 1 .. base
  BY ChosenBelow
<1>4. QED
  BY <1>1, <1>2, <1>3, LevelKept

\* Undoing the choice of level l leaves every level below it as it was.
LEMMA NextCandidateInv ==
  ASSUME SolverTypeOK, WalkInv, NEW l \in Nat, l < level, NextCandidate(l),
         UNCHANGED <<facts, rule, base>>, pc' = "walk"
  PROVE  WalkInv'
<1>1. /\ l \in 0 .. MaxBody-1 /\ l < Len(rule.body) /\ l + 1 <= level
      /\ level \in Nat /\ Len(rule.body) \in Nat /\ Len(binds) \in Nat
  BY LenProperties DEF SolverTypeOK, WalkInv, WithinBounds, Rule
<1>2. /\ frames' \in [0 .. MaxBody-1 -> Frame]
      /\ frames'[l].fact = frames[l].fact + 1
      /\ frames'[l].bind_mark = frames[l].bind_mark
      /\ \A m \in 0 .. MaxBody-1 : m # l => frames'[m] = frames[m]
  <2>1. frames' = [frames EXCEPT ![l].fact = @ + 1]
    BY DEF NextCandidate
  <2>2. frames \in [0 .. MaxBody-1 -> Frame]
    BY DEF SolverTypeOK
  <2>3. QED
    BY <1>1, <2>1, <2>2, FrameAdvanced
<1> DEFINE n == frames[l].bind_mark
<1>3. n \in Nat /\ n <= Len(binds)
  BY <1>1 DEF WalkInv, MarksNest, SolverTypeOK, Frame
<1>4. /\ binds' \in Seq(Binding) /\ Len(binds') = n
      /\ \A k \in 1 .. n : binds'[k] = binds[k]
      /\ DOMAIN binds = 1 .. Len(binds) /\ DOMAIN binds' = 1 .. Len(binds')
  BY <1>3, Truncated, LenProperties DEF NextCandidate, SolverTypeOK
<1>5. level' = l
  BY DEF NextCandidate
<1> HIDE DEF n
<1>6. WithinBounds'
  <2>1. frames[l].fact \in 1 .. base
    BY <1>1, ChosenBelow
  <2>2. /\ level \in Nat /\ base \in Nat /\ Len(rule.body) <= MaxBody
        /\ level <= Len(rule.body) /\ base <= Len(facts) /\ Len(binds) <= MaxBindings
    BY DEF WithinBounds, WalkInv, SolverTypeOK
  <2>3. PICK d, m, b \in Nat : d = Len(rule.body) /\ m = Len(binds) /\ b = Len(facts)
    BY LenProperties DEF SolverTypeOK, Rule
  <2>4. n <= MaxBindings
    BY <1>3, <2>2, <2>3
  <2>5. level' <= d /\ frames'[level'].fact \in 1 .. base + 1
    <3>1. l < d
      BY <1>1, <2>3
    <3>2. frames'[l].fact = frames[l].fact + 1
      BY <1>2
    <3>3. frames[l].fact + 1 \in 1 .. base + 1
      BY <2>1, <2>2
    <3>4. QED
      BY <1>5, <3>1, <3>2, <3>3
  <2>6. /\ Len(rule'.body) = d /\ d <= MaxBody /\ base' <= Len(facts')
        /\ Len(binds') <= MaxBindings /\ base' = base
    BY <1>4, <2>2, <2>3, <2>4
  <2>7. QED
    BY <2>5, <2>6 DEF WithinBounds
<1>7. MarksNest'
  <2>1. \A m \in 0 .. l : frames'[m].bind_mark = frames[m].bind_mark
    BY <1>1, <1>2
  <2>2. \A m \in 0 .. l : frames'[m].bind_mark <= n
    BY <1>1, <2>1 DEF WalkInv, MarksNest, n
  <2>3. \A j, m \in 0 .. l : j <= m => frames'[j].bind_mark <= frames'[m].bind_mark
    BY <1>1, <2>1 DEF WalkInv, MarksNest
  <2>4. Len(binds') = frames'[l].bind_mark
    BY <1>2, <1>4 DEF n
  <2>5. QED
    BY <1>1, <1>4, <1>5, <2>2, <2>3, <2>4 DEF MarksNest
<1>8. BindsDistinct'
  BY <1>3, <1>4 DEF WalkInv, BindsDistinct
<1>9. \A m \in 0 .. level' - 1 : LevelFits(m)'
  <2> SUFFICES ASSUME NEW m \in 0 .. l - 1 PROVE LevelFits(m)'
    BY <1>5
  <2>1. m + 1 < Len(rule.body) /\ m + 1 \in 0 .. l /\ m \in Nat /\ m \in 0 .. level - 1
    BY <1>1
  <2>2. BindsAfter(m)' = BindsAfter(m) /\ BindsAfter(m) = frames[m + 1].bind_mark
    BY <1>1, <1>2, <2>1 DEF BindsAfter
  <2>3. frames[m + 1].bind_mark <= n /\ frames[m + 1].bind_mark \in Nat
    BY <1>1, <2>1 DEF WalkInv, MarksNest, n, SolverTypeOK, Frame
  <2>4. \A k \in 1 .. BindsAfter(m) : binds'[k] = binds[k]
    BY <1>3, <1>4, <2>2, <2>3
  <2>5. \A k \in 0 .. m : frames[k].fact \in 1 .. base /\ frames'[k] = frames[k]
    BY <1>1, <1>2, ChosenBelow
  <2>6. LevelFits(m)
    BY <2>1 DEF WalkInv
  <2>7. QED
    BY <2>1, <2>2, <2>4, <2>5, <2>6, LevelKept
<1>10. UnifyFits'
  BY DEF UnifyFits
<1>11. QED
  BY <1>6, <1>7, <1>8, <1>9, <1>10 DEF WalkInv

\* A step that leaves the levels below alone and keeps every binding.
LEMMA LevelsKept ==
  ASSUME SolverTypeOK, WalkInv, level < Len(rule.body),
         UNCHANGED <<facts, rule, base, level>>,
         \A m \in 0 .. MaxBody-1 : /\ m < level => frames'[m] = frames[m]
                                  /\ frames'[m].bind_mark = frames[m].bind_mark,
         \A k \in 1 .. frames[level].bind_mark : binds'[k] = binds[k]
  PROVE  \A m \in 0 .. level' - 1 : LevelFits(m)'
<1>1. level \in 0 .. MaxBody-1 /\ Len(rule.body) \in Nat /\ Len(rule.body) <= MaxBody
  BY LenProperties DEF SolverTypeOK, WalkInv, WithinBounds, Rule
<1>2. SUFFICES ASSUME NEW m \in 0 .. level - 1 PROVE LevelFits(m)'
  OBVIOUS
<1>3. m + 1 < Len(rule.body) /\ m + 1 \in 0 .. MaxBody-1 /\ m \in Nat /\ m + 1 \in 0 .. level
  BY <1>1
<1>4. BindsAfter(m)' = BindsAfter(m) /\ BindsAfter(m) = frames[m + 1].bind_mark
  BY <1>3 DEF BindsAfter
<1>5. /\ frames[m + 1].bind_mark <= frames[level].bind_mark
      /\ frames[m + 1].bind_mark \in Nat /\ frames[level].bind_mark \in Nat
  BY <1>1, <1>3, MarkBelow DEF WalkInv, MarksNest
<1>6. \A k \in 1 .. BindsAfter(m) : binds'[k] = binds[k]
  BY <1>4, <1>5
<1>7. \A k \in 0 .. m : frames[k].fact \in 1 .. base /\ frames'[k] = frames[k]
  BY <1>1, ChosenBelow
<1>8. LevelFits(m)
  BY DEF WalkInv
<1>9. QED
  BY <1>3, <1>4, <1>6, <1>7, <1>8, LevelKept

\* Giving up a candidate, whether or not unification had begun on it.
LEMMA CandidateDroppedInv ==
  ASSUME SolverTypeOK, WalkInv, level < Len(rule.body),
         frames[level].fact \in 1 .. base,
         UNCHANGED <<facts, rule, base, level>>,
         frames' = [frames EXCEPT ![level].fact = @ + 1],
         binds' \in Seq(Binding), Len(binds') = frames[level].bind_mark,
         \A k \in 1 .. frames[level].bind_mark : binds'[k] = binds[k],
         pc' = "walk"
  PROVE  WalkInv'
<1>1. /\ level \in 0 .. MaxBody-1 /\ level \in Nat /\ base \in Nat
      /\ Len(rule.body) \in Nat /\ Len(binds) \in Nat /\ Len(facts) \in Nat
  BY LenProperties DEF SolverTypeOK, WalkInv, WithinBounds, Rule
<1>2. /\ frames' \in [0 .. MaxBody-1 -> Frame]
      /\ frames'[level].fact = frames[level].fact + 1
      /\ frames'[level].bind_mark = frames[level].bind_mark
      /\ \A m \in 0 .. MaxBody-1 : m # level => frames'[m] = frames[m]
  BY <1>1, FrameAdvanced DEF SolverTypeOK
<1>3. \A m \in 0 .. MaxBody-1 : frames'[m].bind_mark = frames[m].bind_mark
  BY <1>2
<1>4. frames[level].bind_mark \in Nat /\ frames[level].bind_mark <= Len(binds)
  BY <1>1 DEF WalkInv, MarksNest, SolverTypeOK, Frame
<1>5. DOMAIN binds = 1 .. Len(binds) /\ DOMAIN binds' = 1 .. Len(binds')
  BY LenProperties DEF SolverTypeOK
<1>6. WithinBounds'
  <2>1. /\ Len(rule.body) <= MaxBody /\ base <= Len(facts)
        /\ Len(binds) <= MaxBindings
    BY DEF WalkInv, WithinBounds
  <2>2. Len(binds') <= MaxBindings
    BY <1>1, <1>4, <2>1
  <2>3. frames'[level].fact \in 1 .. base + 1
    BY <1>1, <1>2
  <2>4. QED
    BY <1>1, <2>1, <2>2, <2>3 DEF WithinBounds
<1>7. MarksNest'
  <2>1. \A m \in 0 .. level : frames'[m].bind_mark = frames[m].bind_mark
    BY <1>1, <1>3
  <2>2. \A m \in 0 .. level : frames'[m].bind_mark <= frames'[level].bind_mark
    <3>1. ASSUME NEW m \in 0 .. level
          PROVE  frames[m].bind_mark <= frames[level].bind_mark
      <4>1. level \in 0 .. level /\ m <= level /\ level < Len(rule.body)
        BY <1>1
      <4>2. QED
        BY <4>1 DEF WalkInv, MarksNest
    <3>2. level \in 0 .. level
      BY <1>1
    <3>3. QED
      BY <2>1, <3>1, <3>2
  <2>3. \A j, m \in 0 .. level : j <= m => frames[j].bind_mark <= frames[m].bind_mark
    BY <1>1 DEF WalkInv, MarksNest
  <2>4. \A j, m \in 0 .. level : j <= m => frames'[j].bind_mark <= frames'[m].bind_mark
    BY <2>1, <2>3
  <2>5. QED
    BY <1>1, <1>2, <2>2, <2>4 DEF MarksNest
<1>8. BindsDistinct'
  BY <1>4, <1>5 DEF WalkInv, BindsDistinct
<1>9. \A m \in 0 .. level' - 1 : LevelFits(m)'
  BY <1>1, <1>2, <1>3, LevelsKept
<1>10. UnifyFits'
  BY DEF UnifyFits
<1>11. QED
  BY <1>6, <1>7, <1>8, <1>9, <1>10 DEF WalkInv

LEMMA PassOverInv ==
  ASSUME SolverTypeOK, WalkInv, PassOver PROVE WalkInv'
<1>1. /\ level < Len(rule.body) /\ pc = "walk" /\ frames[level].fact <= base
      /\ UNCHANGED <<facts, rule, base, level, binds, pc>>
      /\ frames' = [frames EXCEPT ![level].fact = @ + 1]
  BY DEF PassOver, Searching, HasCandidate
<1>2. Len(binds) = frames[level].bind_mark /\ binds' \in Seq(Binding)
  BY <1>1 DEF WalkInv, MarksNest, SolverTypeOK
<1>3. frames[level].fact \in 1 .. base
  BY <1>1 DEF WalkInv, WithinBounds, SolverTypeOK
<1>4. QED
  BY <1>1, <1>2, <1>3, CandidateDroppedInv

LEMMA UnifyFailsInv ==
  ASSUME SolverTypeOK, WalkInv, UnifyFails PROVE WalkInv'
<1>1. /\ pc = "unify" /\ pc' = "walk"
      /\ UNCHANGED <<facts, rule, base, level>>
      /\ frames' = [frames EXCEPT ![level].fact = @ + 1]
      /\ binds' = SubSeq(binds, 1, mark)
  BY DEF UnifyFails, Unifying
<1>2. level < Len(rule.body) /\ frames[level].fact \in 1 .. base
  BY <1>1 DEF WalkInv, UnifyFits, Chosen
<1>3. mark = frames[level].bind_mark /\ mark <= Len(binds) /\ mark \in Nat
  BY <1>1, <1>2 DEF WalkInv, MarksNest, SolverTypeOK
<1>4. /\ binds' \in Seq(Binding) /\ Len(binds') = mark
      /\ \A k \in 1 .. mark : binds'[k] = binds[k]
  BY <1>1, <1>3, Truncated DEF SolverTypeOK
<1>5. QED
  BY <1>1, <1>2, <1>3, <1>4, CandidateDroppedInv

LEMMA TryInv ==
  ASSUME SolverTypeOK, WalkInv, Try PROVE WalkInv'
<1>1. /\ level < Len(rule.body) /\ pc = "walk" /\ frames[level].fact <= base
      /\ Trusted(Candidate) /\ SameShape(Goal, Candidate)
      /\ UNCHANGED <<facts, rule, base, level, frames, binds>>
      /\ mark' = Len(binds) /\ arg' = 1 /\ pc' = "unify"
  BY DEF Try, Searching, HasCandidate
<1>2. WithinBounds' /\ BindsDistinct'
  BY <1>1 DEF WalkInv, WithinBounds, BindsDistinct
<1>3. Len(binds) = frames[level].bind_mark
  BY <1>1 DEF WalkInv, MarksNest
<1>4. MarksNest'
  BY <1>1, <1>3 DEF WalkInv, MarksNest
<1>5. \A m \in 0 .. level' - 1 : LevelFits(m)'
  BY <1>1, LevelsKept
<1>6. UnifyFits'
  <2>1. frames[level].fact \in 1 .. base
    BY <1>1 DEF WalkInv, WithinBounds
  <2>2. Chosen(level)'
    BY <1>1, <2>1 DEF Chosen, Trusted, Candidate, Goal
  <2>3. Goal.terms \in Seq(Term)
    BY <1>1, GoalTyped DEF Goal, SolverTypeOK
  <2>4. arg' <= Len(Goal.terms)' + 1 /\ 1 .. arg' - 1 = {}
    BY <1>1, <2>3, LenProperties DEF Goal
  <2>5. QED
    BY <1>1, <2>2, <2>4 DEF UnifyFits
<1>7. QED
  BY <1>1, <1>2, <1>4, <1>5, <1>6 DEF WalkInv

\* Where a step of unification stands: what TryInv's successors begin from.
LEMMA UnifyingFacts ==
  ASSUME SolverTypeOK, WalkInv, pc = "unify"
  PROVE  /\ level \in 0 .. MaxBody-1 /\ level < Len(rule.body)
         /\ Len(rule.body) \in Nat /\ Len(binds) \in Nat
         /\ frames[level].fact \in 1 .. base
         /\ frames[level].bind_mark \in Nat
         /\ frames[level].bind_mark <= Len(binds)
         /\ Goal.terms \in Seq(Term) /\ Len(Goal.terms) \in Nat
         /\ Candidate.terms \in Seq(Term)
         /\ Len(Candidate.terms) = Len(Goal.terms)
         /\ DOMAIN binds = 1 .. Len(binds)
<1>1. /\ level \in 0 .. MaxBody-1 /\ level < Len(rule.body)
      /\ Len(rule.body) \in Nat /\ Len(binds) \in Nat
      /\ frames[level].fact \in 1 .. base
      /\ SameShape(Goal, Candidate)
      /\ DOMAIN binds = 1 .. Len(binds)
  BY LenProperties
  DEF SolverTypeOK, WalkInv, WithinBounds, UnifyFits, Chosen, Rule, Goal, Candidate
<1>2. frames[level].bind_mark \in Nat /\ frames[level].bind_mark <= Len(binds)
  BY <1>1 DEF WalkInv, MarksNest, SolverTypeOK, Frame
<1>3. Goal.terms \in Seq(Term)
  BY <1>1, GoalTyped DEF Goal
<1>4. Candidate \in Fact
  BY <1>1, CandidateTyped DEF WalkInv, Candidate
<1>5. Candidate.terms \in Seq(Term)
  BY <1>4 DEF Fact
<1>6. QED
  BY <1>1, <1>2, <1>3, <1>5, LenProperties DEF SameShape

\* One more argument agrees: the parts of the invariant that say so.
LEMMA ArgumentInv ==
  ASSUME SolverTypeOK, WalkInv, Unifying,
         UNCHANGED <<facts, rule, base, level, frames, mark, pc>>,
         arg' = arg + 1,
         binds' \in Seq(Binding), Len(binds) <= Len(binds'),
         Len(binds') <= MaxBindings,
         \A k \in 1 .. Len(binds) : binds'[k] = binds[k],
         BindsDistinct',
         \A i \in {arg} : ArgFits(level, i, Len(binds))'
  PROVE  WalkInv'
<1>1. pc = "unify" /\ arg \in Nat \ {0} /\ arg <= Len(Goal.terms)
  BY DEF Unifying, SolverTypeOK
<1>2. /\ level \in 0 .. MaxBody-1 /\ level < Len(rule.body)
      /\ Len(rule.body) \in Nat /\ Len(binds) \in Nat /\ Len(Goal.terms) \in Nat
      /\ frames[level].bind_mark \in Nat /\ frames[level].bind_mark <= Len(binds)
  BY <1>1, UnifyingFacts
<1>3. Len(binds') \in Nat
  BY LenProperties
<1>4. WithinBounds'
  BY DEF WalkInv, WithinBounds
<1>5. MarksNest'
  <2>1. \A m \in 0 .. level : m < Len(rule.body) =>
           frames[m].bind_mark <= Len(binds) /\ frames[m].bind_mark \in Nat
    BY MarkBelow
  <2>2. \A m \in 0 .. level : m < Len(rule.body) => frames[m].bind_mark <= Len(binds')
    BY <1>2, <1>3, <2>1
  <2>3. QED
    BY <1>1, <2>2 DEF WalkInv, MarksNest
<1>6. \A m \in 0 .. level' - 1 : LevelFits(m)'
  BY <1>2, LevelsKept
<1>7. UnifyFits'
  <2>1. Chosen(level)'
    BY <1>1 DEF WalkInv, UnifyFits, Chosen, Trusted
  <2>2. arg' <= Len(Goal.terms)' + 1
    BY <1>1, <1>2 DEF Goal
  <2>3. \A i \in 1 .. arg - 1 : ArgFits(level, i, Len(binds))'
    <3> TAKE i \in 1 .. arg - 1
    <3>1. ArgFits(level, i, Len(binds))
      BY <1>1 DEF WalkInv, UnifyFits
    <3>2. QED
      BY <1>2, <1>3, <3>1 DEF ArgFits
  <2>4. \A i \in 1 .. arg' - 1 : ArgFits(level, i, Len(binds))'
    <3> TAKE i \in 1 .. arg' - 1
    <3>1. i = arg \/ i \in 1 .. arg - 1
      BY <1>1
    <3>2. QED
      BY <2>3, <3>1
  <2>5. QED
    BY <1>1, <1>2, <2>1, <2>2, <2>4 DEF UnifyFits
<1>8. QED
  BY <1>4, <1>5, <1>6, <1>7 DEF WalkInv

LEMMA ArgumentAgreesInv ==
  ASSUME SolverTypeOK, WalkInv, ArgumentAgrees PROVE WalkInv'
<1>1. /\ Unifying /\ Compares /\ Expected = Given
      /\ UNCHANGED <<facts, rule, base, level, frames, binds, mark, pc>>
      /\ arg' = arg + 1
  BY DEF ArgumentAgrees
<1>2. BindsDistinct' /\ Len(binds') <= MaxBindings /\ Len(binds) <= Len(binds')
  BY <1>1, LenProperties DEF WalkInv, BindsDistinct, WithinBounds, SolverTypeOK
<1>3. ArgFits(level, arg, Len(binds))
  <2>1. CASE Pattern \notin Var
    BY <1>1, <2>1 DEF ArgFits, Expected, Pattern, Given, Goal, Candidate
  <2>2. CASE Pattern \in Var
    <3>1. PICK k \in DOMAIN binds : binds[k].sym = Pattern
      BY <1>1, <2>2 DEF Compares, IsBound
    <3>2. ValueOf(Pattern, binds) = binds[k].value
      BY <3>1, ValueOfBinding DEF SolverTypeOK, WalkInv, BindsDistinct
    <3>3. binds[k] \in Binding /\ k \in 1 .. Len(binds)
      BY <3>1, LenProperties, ElementOfSeq DEF SolverTypeOK
    <3>4. binds[k] = [sym |-> Pattern, value |-> Given]
      BY <1>1, <2>2, <3>1, <3>2, <3>3 DEF Binding, Expected
    <3>5. QED
      BY <2>2, <3>3, <3>4 DEF ArgFits, Pattern, Given, Goal, Candidate
  <2>3. QED
    BY <2>1, <2>2
<1>4. \A i \in {arg} : ArgFits(level, i, Len(binds))'
  BY <1>1, <1>3 DEF ArgFits
<1>5. QED
  BY <1>1, <1>2, <1>4, ArgumentInv DEF SolverTypeOK

LEMMA BindVariableInv ==
  ASSUME SolverTypeOK, WalkInv, BindVariable PROVE WalkInv'
<1> DEFINE new == [sym |-> Pattern, value |-> Given]
<1>1. /\ Unifying /\ ~Compares /\ Len(binds) < MaxBindings
      /\ UNCHANGED <<facts, rule, base, level, frames, mark, pc>>
      /\ arg' = arg + 1 /\ binds' = Append(binds, new)
      /\ pc = "unify" /\ arg <= Len(Goal.terms) /\ arg \in Nat \ {0}
  BY DEF BindVariable, Unifying, SolverTypeOK
<1>2. /\ Goal.terms \in Seq(Term) /\ Candidate.terms \in Seq(Term)
      /\ Len(Goal.terms) = Len(Candidate.terms) /\ Len(Goal.terms) \in Nat
      /\ Len(binds) \in Nat /\ DOMAIN binds = 1 .. Len(binds)
  BY <1>1, UnifyingFacts
<1>3. Pattern \in Var /\ Given \in Term
  BY <1>1, <1>2, TermTyped DEF Compares, Pattern, Given
<1>4. new \in Binding
  BY <1>3 DEF Binding
<1> HIDE DEF new
<1>5. /\ binds' \in Seq(Binding) /\ Len(binds') = Len(binds) + 1
      /\ \A k \in 1 .. Len(binds) : binds'[k] = binds[k]
      /\ binds'[Len(binds) + 1] = new
      /\ DOMAIN binds' = 1 .. Len(binds')
  BY <1>1, <1>4, AppendProperties, LenProperties DEF SolverTypeOK
<1>6. BindsDistinct'
  <2>1. \A k \in 1 .. Len(binds) : binds[k].sym # new.sym
    BY <1>1, <1>2, <1>3 DEF Compares, IsBound, new
  <2>2. \A j, k \in 1 .. Len(binds) : binds[j].sym = binds[k].sym => j = k
    BY <1>2 DEF WalkInv, BindsDistinct
  <2>3. ASSUME NEW j \in DOMAIN binds', NEW k \in DOMAIN binds',
               binds'[j].sym = binds'[k].sym
        PROVE  j = k
    <3>1. (j \in 1 .. Len(binds) \/ j = Len(binds) + 1)
          /\ (k \in 1 .. Len(binds) \/ k = Len(binds) + 1)
      BY <1>2, <1>5
    <3>2. QED
      BY <1>5, <2>1, <2>2, <2>3, <3>1
  <2>4. QED
    BY <2>3 DEF BindsDistinct
<1>7. \A i \in {arg} : ArgFits(level, i, Len(binds))'
  <2>1. Len(binds) + 1 \in 1 .. Len(binds')
    BY <1>2, <1>5
  <2>2. binds'[Len(binds) + 1] = [sym |-> Pattern, value |-> Given]
    BY <1>5 DEF new
  <2>3. QED
    BY <1>1, <1>3, <2>1, <2>2 DEF ArgFits, Pattern, Given, Goal, Candidate
<1>8. Len(binds') <= MaxBindings /\ Len(binds) <= Len(binds')
  BY <1>1, <1>2, <1>5
<1>9. QED
  BY <1>1, <1>5, <1>6, <1>7, <1>8, ArgumentInv

\* What choosing a candidate does to the frames.
LEMMA ChooseFrames ==
  ASSUME SolverTypeOK, WalkInv, Choose
  PROVE  /\ \A m \in 0 .. level - 1 : frames'[m] = frames[m]
         /\ frames'[level].fact = frames[level].fact
         /\ frames'[level].bind_mark = mark
         /\ frames'[level].origin = PriorOrigin \cup Candidate.origin
         /\ level + 1 < Len(rule.body) => /\ frames'[level + 1].fact = 1
                                          /\ frames'[level + 1].bind_mark = Len(binds)
<1>0. /\ level \in 0 .. MaxBody-1 /\ level < Len(rule.body)
      /\ Len(rule.body) \in Nat /\ Len(rule.body) <= MaxBody /\ Len(binds) \in Nat
  <2>1. pc = "unify"
    BY DEF Choose
  <2>2. QED
    BY <2>1, UnifyingFacts DEF WalkInv, WithinBounds, SolverTypeOK
<1> DEFINE chosen == [frames EXCEPT
               ![level].bind_mark = mark,
               ![level].origin = PriorOrigin \cup Candidate.origin]
<1>1. /\ \A m \in 0 .. MaxBody-1 : m # level => chosen[m] = frames[m]
      /\ chosen[level].fact = frames[level].fact
      /\ chosen[level].bind_mark = mark
      /\ chosen[level].origin = PriorOrigin \cup Candidate.origin
      /\ DOMAIN chosen = 0 .. MaxBody-1
  BY <1>0 DEF SolverTypeOK, Frame
<1>2. frames' = IF level + 1 < Len(rule.body)
                THEN [chosen EXCEPT ![level + 1].fact = 1,
                                    ![level + 1].bind_mark = Len(binds)]
                ELSE chosen
  BY DEF Choose
<1>c. level + 1 < Len(rule.body) => chosen[level + 1] \in Frame
  BY <1>0, <1>1 DEF SolverTypeOK
<1> HIDE DEF chosen
<1>3. CASE level + 1 < Len(rule.body)
  <2>1. level + 1 \in 0 .. MaxBody-1
    BY <1>0, <1>3
  <2>2. frames' = [chosen EXCEPT ![level + 1].fact = 1,
                                 ![level + 1].bind_mark = Len(binds)]
    BY <1>2, <1>3
  <2>3. \A m \in 0 .. MaxBody-1 : m # level + 1 => frames'[m] = chosen[m]
    BY <1>1, <2>2
  <2>4. /\ frames'[level + 1].fact = 1
        /\ frames'[level + 1].bind_mark = Len(binds)
    BY <1>1, <1>3, <1>c, <2>1, <2>2 DEF Frame
  <2>5. QED
    BY <1>0, <1>1, <2>3, <2>4
<1>4. CASE ~(level + 1 < Len(rule.body))
  BY <1>0, <1>1, <1>2, <1>4
<1>5. QED
  BY <1>3, <1>4

LEMMA ChooseInv ==
  ASSUME SolverTypeOK, WalkInv, Choose PROVE WalkInv'
<1>1. /\ pc = "unify" /\ pc' = "walk" /\ arg > Len(Goal.terms)
      /\ level' = level + 1
      /\ UNCHANGED <<facts, rule, base, binds, mark, arg>>
  BY DEF Choose
<1>2. /\ level \in 0 .. MaxBody-1 /\ level < Len(rule.body)
      /\ Len(rule.body) \in Nat /\ Len(rule.body) <= MaxBody /\ Len(binds) \in Nat
      /\ frames[level].fact \in 1 .. base /\ Len(Goal.terms) \in Nat
      /\ base \in Nat
  BY <1>1, UnifyingFacts DEF WalkInv, WithinBounds, SolverTypeOK
<1>3. SolverTypeOK'
  BY StepTyped DEF SolverStep
<1>4. mark = frames[level].bind_mark /\ mark \in Nat /\ mark <= Len(binds)
  BY <1>1, <1>2 DEF WalkInv, MarksNest, SolverTypeOK
<1>5. /\ \A m \in 0 .. level - 1 : frames'[m] = frames[m]
      /\ frames'[level].fact = frames[level].fact
      /\ frames'[level].bind_mark = mark
      /\ frames'[level].origin = PriorOrigin \cup Candidate.origin
      /\ level + 1 < Len(rule.body) => /\ frames'[level + 1].fact = 1
                                       /\ frames'[level + 1].bind_mark = Len(binds)
  BY <1>4, ChooseFrames
<1>6. WithinBounds'
  <2>1. base <= Len(facts) /\ Len(binds) <= MaxBindings
    BY DEF WalkInv, WithinBounds
  <2>2. QED
    BY <1>1, <1>2, <1>5, <2>1 DEF WithinBounds
<1>7. MarksNest'
  <2>1. \A m \in 0 .. level : /\ frames'[m].bind_mark = frames[m].bind_mark
                             /\ frames'[m].bind_mark <= Len(binds)
                             /\ frames'[m].bind_mark \in Nat
    <3> TAKE m \in 0 .. level
    <3>1. m < Len(rule.body) /\ (m \in 0 .. level - 1 \/ m = level)
      BY <1>2
    <3>2. frames'[m].bind_mark = frames[m].bind_mark
      BY <1>4, <1>5, <3>1
    <3>3. QED
      BY <3>1, <3>2, MarkBelow
  <2>2. \A j, m \in 0 .. level : j <= m => frames'[j].bind_mark <= frames'[m].bind_mark
    BY <1>2, <2>1 DEF WalkInv, MarksNest
  <2>3. \A j, m \in 0 .. level + 1 : j <= m /\ m < Len(rule.body) =>
           frames'[j].bind_mark <= frames'[m].bind_mark
    BY <1>2, <1>5, <2>1, <2>2
  <2>4. \A m \in 0 .. level + 1 : m < Len(rule.body) =>
           frames'[m].bind_mark <= Len(binds)
    BY <1>2, <1>5, <2>1
  <2>5. QED
    BY <1>1, <1>2, <1>5, <2>3, <2>4 DEF MarksNest
<1>8. BindsDistinct'
  BY <1>1 DEF WalkInv, BindsDistinct
<1>9. \A m \in 0 .. level - 1 : LevelFits(m)'
  <2> TAKE m \in 0 .. level - 1
  <2>1. m + 1 < Len(rule.body) /\ m \in Nat /\ m + 1 \in 0 .. level
        /\ m \in 0 .. MaxBody-1 /\ m # level
    BY <1>2
  <2>2. frames'[m + 1].bind_mark = frames[m + 1].bind_mark
    BY <1>2, <1>4, <1>5, <2>1
  <2>3. BindsAfter(m)' = BindsAfter(m)
    BY <1>1, <2>1, <2>2 DEF BindsAfter
  <2>4. \A k \in 0 .. m : frames[k].fact \in 1 .. base /\ frames'[k] = frames[k]
    BY <1>2, <1>5, ChosenBelow
  <2>5. LevelFits(m)
    BY DEF WalkInv
  <2>6. QED
    BY <1>1, <2>1, <2>3, <2>4, <2>5, LevelKept
<1>10. ASSUME NEW m \in {level} PROVE LevelFits(m)'
  <2>1. m \in Nat /\ m = level
    BY <1>2
  <2>2. frames'[m].fact = frames[level].fact
    BY <1>5
  <2>3. Chosen(m)'
    BY <1>1, <2>1, <2>2 DEF WalkInv, UnifyFits, Chosen, Trusted
  <2>4. BindsAfter(m)' = Len(binds)
    BY <1>1, <1>5, <2>1 DEF BindsAfter
  <2>5. \A i \in 1 .. Len(rule.body[m + 1].terms) : ArgFits(m, i, BindsAfter(m))'
    <3> TAKE i \in 1 .. Len(rule.body[m + 1].terms)
    <3>1. arg \in Nat /\ i \in 1 .. arg - 1
      BY <1>1, <1>2, <2>1 DEF Goal, SolverTypeOK
    <3>2. ArgFits(level, i, Len(binds))
      BY <1>1, <3>1 DEF WalkInv, UnifyFits
    <3>3. QED
      BY <1>1, <2>1, <2>2, <2>4, <3>2 DEF ArgFits
  <2>6. frames'[m].origin = OriginThrough(m)'
    <3>1. \A k \in 0 .. level : frames'[k].fact = frames[k].fact
      BY <1>2, <1>5
    <3>2. OriginThrough(m)' = RuleOrigin \cup
             UNION {facts[frames[k].fact].origin : k \in 0 .. level}
      <4>1. {facts'[frames'[k].fact].origin : k \in 0 .. m}
              = {facts[frames[k].fact].origin : k \in 0 .. level}
        BY <1>1, <2>1, <3>1
      <4>2. QED
        BY <1>1, <4>1 DEF OriginThrough, RuleOrigin
    <3>3. frames'[m].origin = PriorOrigin \cup Candidate.origin
      BY <1>5, <2>1
    <3>4. PriorOrigin \cup Candidate.origin
            = RuleOrigin \cup UNION {facts[frames[k].fact].origin : k \in 0 .. level}
      <4>1. CASE level = 0
        <5>1. 0 .. level = {0}
          BY <4>1
        <5>2. {facts[frames[k].fact].origin : k \in 0 .. level} = {Candidate.origin}
          BY <4>1, <5>1 DEF Candidate
        <5>3. UNION {Candidate.origin} = Candidate.origin
          OBVIOUS
        <5>4. QED
          BY <4>1, <5>2, <5>3 DEF PriorOrigin
      <4>2. CASE level # 0
        <5> DEFINE FromLevel(k) == facts[frames[k].fact].origin
        <5>1. level - 1 \in 0 .. level - 1 /\ 0 .. level = (0 .. level - 1) \cup {level}
          BY <1>2, <4>2
        <5>2. frames[level - 1].origin
                = RuleOrigin \cup UNION {FromLevel(k) : k \in 0 .. level - 1}
          BY <5>1 DEF WalkInv, LevelFits, OriginThrough
        <5>3. FromLevel(level) = Candidate.origin
          BY DEF Candidate
        <5> HIDE DEF FromLevel
        <5>4. UNION {FromLevel(k) : k \in 0 .. level}
                = (UNION {FromLevel(k) : k \in 0 .. level - 1}) \cup FromLevel(level)
          BY <5>1
        <5>5. PriorOrigin = frames[level - 1].origin
          BY <4>2 DEF PriorOrigin
        <5>6. PriorOrigin \cup Candidate.origin
                = RuleOrigin \cup UNION {FromLevel(k) : k \in 0 .. level}
          BY <5>2, <5>3, <5>4, <5>5
        <5>7. QED
          BY <5>6 DEF FromLevel
      <4>3. QED
        BY <4>1, <4>2
    <3>5. QED
      BY <3>2, <3>3, <3>4
  <2>7. rule' = rule
    BY <1>1
  <2>8. QED
    BY <2>3, <2>5, <2>6, <2>7 DEF LevelFits
<1>11. \A m \in 0 .. level' - 1 : LevelFits(m)'
  <2> TAKE m \in 0 .. level' - 1
  <2>1. m \in 0 .. level - 1 \/ m \in {level}
    BY <1>1, <1>2
  <2>2. QED
    BY <1>9, <1>10, <2>1
<1>12. UnifyFits'
  BY <1>1 DEF UnifyFits
<1>13. QED
  BY <1>1, <1>6, <1>7, <1>8, <1>11, <1>12 DEF WalkInv

-----------------------------------------------------------------------------
(* What an answer is.                                                      *)

\* One argument of one chosen fact: the substitution gives it.
LEMMA ArgumentGround ==
  ASSUME SolverTypeOK, WalkInv, NEW l \in 0 .. level - 1,
         NEW j \in 1 .. Len(rule.body[l + 1].terms),
         rule.body[l + 1].terms[j] \in Var
  PROVE  /\ IsBound(rule.body[l + 1].terms[j], binds)
         /\ Substitution[rule.body[l + 1].terms[j]] = facts[frames[l].fact].terms[j]
<1> DEFINE pt == rule.body[l + 1].terms[j]
           ft == facts[frames[l].fact].terms[j]
<1>1. level \in Nat /\ Len(binds) \in Nat /\ Len(rule.body) \in Nat
      /\ level <= Len(rule.body)
  BY LenProperties DEF SolverTypeOK, WalkInv, WithinBounds, Rule
<1>2. BindsAfter(l) \in Nat /\ BindsAfter(l) <= Len(binds)
  <2>1. CASE l + 1 < Len(rule.body)
    <3>1. l + 1 \in 0 .. level
      BY <1>1
    <3>2. QED
      BY <2>1, <3>1, MarkBelow DEF BindsAfter
  <2>2. CASE ~(l + 1 < Len(rule.body))
    BY <1>1, <2>2 DEF BindsAfter
  <2>3. QED
    BY <2>1, <2>2
<1>3. PICK k \in 1 .. BindsAfter(l) : binds[k] = [sym |-> pt, value |-> ft]
  BY DEF WalkInv, LevelFits, ArgFits
<1>4. k \in DOMAIN binds
  BY <1>1, <1>2, LenProperties DEF SolverTypeOK
<1>5. binds[k].sym = pt /\ binds[k].value = ft
  BY <1>3
<1>6. ValueOf(pt, binds) = ft
  BY <1>4, <1>5, ValueOfBinding DEF SolverTypeOK, WalkInv, BindsDistinct
<1>7. IsBound(pt, binds)
  BY <1>4, <1>5 DEF IsBound
<1>8. QED
  BY <1>6, <1>7 DEF Substitution

\* A solver with a fact at every level sits on a sound answer.
THEOREM FullLevelsSound ==
  ASSUME SolverTypeOK, WalkInv, level = Len(rule.body)
  PROVE  AnswerSound
<1>1. /\ rule.body \in Seq(Predicate) /\ level \in Nat
      /\ DOMAIN rule.body = 1 .. level /\ level <= MaxBody
  BY LenProperties DEF SolverTypeOK, WalkInv, WithinBounds, Rule
<1>2. ASSUME NEW i \in DOMAIN rule.body
      PROVE  /\ facts[Choice[i]].origin \ rule.trust = {}
             /\ States(rule.body[i], facts[Choice[i]], Substitution)
             /\ \A j \in DOMAIN rule.body[i].terms :
                  rule.body[i].terms[j] \in Var => IsBound(rule.body[i].terms[j], binds)
  <2> DEFINE l == i - 1
             f == facts[frames[l].fact]
             terms == rule.body[i].terms
  <2>1. l \in 0 .. level - 1 /\ l + 1 = i /\ l \in Nat /\ l < MaxBody
        /\ l < Len(rule.body)
    BY <1>1
  <2>2. Choice[i] = frames[l].fact
    BY DEF Choice
  <2>3. LevelFits(l)
    BY <2>1 DEF WalkInv
  <2>4. f.origin \subseteq rule.trust /\ f.name = rule.body[i].name
        /\ Len(f.terms) = Len(terms) /\ frames[l].fact \in 1 .. base
    BY <2>1, <2>3 DEF LevelFits, Chosen, Trusted, SameShape
  <2>5. f \in Fact
    BY <2>1, <2>4, CandidateTyped DEF WalkInv
  <2>6. f.terms \in Seq(Term) /\ terms \in Seq(Term)
    BY <1>1, <2>1, <2>5, GoalTyped DEF Fact
  <2>7. /\ DOMAIN terms = 1 .. Len(terms) /\ DOMAIN f.terms = DOMAIN terms
        /\ f.terms = [j \in DOMAIN f.terms |-> f.terms[j]]
    BY <2>4, <2>6, LenProperties
  <2>8. ASSUME NEW j \in DOMAIN terms
        PROVE  /\ terms[j] \in Var => IsBound(terms[j], binds)
               /\ f.terms[j] = IF terms[j] \in Var THEN Substitution[terms[j]] ELSE terms[j]
    <3>1. CASE terms[j] \in Var
      <4>1. j \in 1 .. Len(rule.body[l + 1].terms) /\ rule.body[l + 1].terms[j] \in Var
        BY <2>1, <2>7, <3>1
      <4>2. /\ IsBound(rule.body[l + 1].terms[j], binds)
            /\ Substitution[rule.body[l + 1].terms[j]] = f.terms[j]
        BY <2>1, <4>1, ArgumentGround
      <4>3. QED
        BY <2>1, <3>1, <4>2
    <3>2. CASE terms[j] \notin Var
      <4>1. ArgFits(l, j, BindsAfter(l))
        BY <2>1, <2>3, <2>7 DEF LevelFits
      <4>2. QED
        BY <2>1, <3>2, <4>1 DEF ArgFits
    <3>3. QED
      BY <3>1, <3>2
  <2>9. f.terms = Ground(terms, Substitution)
    <3>1. f.terms = [j \in DOMAIN terms |->
             IF terms[j] \in Var THEN Substitution[terms[j]] ELSE terms[j]]
      BY <2>7, <2>8
    <3>2. QED
      BY <3>1 DEF Ground, Under
  <2>10. QED
    BY <2>2, <2>4, <2>8, <2>9 DEF States
<1>3. SolverOrigin = OriginOf(rule, facts, Choice)
  <2>1. DOMAIN Choice = 1 .. level
    BY <1>1 DEF Choice
  <2>2. CASE level = 0
    <3>1. {facts[Choice[i]].origin : i \in DOMAIN Choice} = {}
      BY <2>1, <2>2
    <3>2. UNION {facts[Choice[i]].origin : i \in DOMAIN Choice} = {}
      BY <3>1
    <3>3. QED
      BY <2>2, <3>2 DEF SolverOrigin, OriginOf, RuleOrigin
  <2>3. CASE level # 0
    <3>1. LevelFits(level - 1)
      BY <1>1, <2>3 DEF WalkInv
    <3>2. SolverOrigin = OriginThrough(level - 1)
      BY <2>3, <3>1 DEF LevelFits, SolverOrigin
    <3>3. {facts[frames[k].fact].origin : k \in 0 .. level - 1}
            = {facts[Choice[i]].origin : i \in DOMAIN Choice}
      <4>1. \A i \in 1 .. level : Choice[i] = frames[i - 1].fact
        BY <1>1 DEF Choice
      <4>2. \A k \in 0 .. level - 1 : k + 1 \in 1 .. level /\ (k + 1) - 1 = k
        BY <1>1
      <4>3. \A i \in 1 .. level : i - 1 \in 0 .. level - 1
        BY <1>1
      <4>4. \A k \in 0 .. level - 1 : Choice[k + 1] = frames[k].fact
        BY <4>1, <4>2
      <4>5. /\ \A k \in 0 .. level - 1 : \E i \in DOMAIN Choice :
                 facts[frames[k].fact].origin = facts[Choice[i]].origin
            /\ \A i \in DOMAIN Choice : \E k \in 0 .. level - 1 :
                 facts[frames[k].fact].origin = facts[Choice[i]].origin
        <5>1. \A k \in 0 .. level - 1 : k + 1 \in DOMAIN Choice
          BY <2>1, <4>2
        <5>2. \A i \in DOMAIN Choice : i - 1 \in 0 .. level - 1
          BY <2>1, <4>3
        <5>3. QED
          BY <2>1, <4>1, <4>4, <5>1, <5>2
      <4> DEFINE A == {facts[frames[k].fact].origin : k \in 0 .. level - 1}
                 B == {facts[Choice[i]].origin : i \in DOMAIN Choice}
      <4>6. ASSUME NEW o \in A PROVE o \in B
        <5>1. PICK k \in 0 .. level - 1 : o = facts[frames[k].fact].origin
          OBVIOUS
        <5>2. PICK i \in DOMAIN Choice : facts[Choice[i]].origin = o
          BY <4>5, <5>1
        <5>3. QED
          BY <5>2
      <4>7. ASSUME NEW o \in B PROVE o \in A
        <5>1. PICK i \in DOMAIN Choice : o = facts[Choice[i]].origin
          OBVIOUS
        <5>2. PICK k \in 0 .. level - 1 : facts[frames[k].fact].origin = o
          BY <4>5, <5>1
        <5>3. QED
          BY <5>2
      <4> HIDE DEF A, B
      <4>8. A = B
        BY <4>6, <4>7
      <4>9. QED
        BY <4>8 DEF A, B
    <3>4. QED
      BY <3>2, <3>3 DEF OriginThrough, OriginOf, RuleOrigin
  <2>4. QED
    BY <2>2, <2>3
<1>4. QED
  BY <1>2, <1>3 DEF AnswerSound, Explains

-----------------------------------------------------------------------------
(* The theorems.                                                           *)

\* Every turn of the walk, and every call for another answer, keeps what the
\* walk knows about its levels and its bindings.
THEOREM StepInv ==
  ASSUME SolverTypeOK, WalkInv, SolverStep \/ AskAgain
  PROVE  WalkInv'
<1>0. level \in Nat /\ Len(rule.body) \in Nat
  BY LenProperties DEF SolverTypeOK, Rule
<1>1. CASE Answer
  <2>1. UNCHANGED <<facts, rule, base, level, frames, binds, mark, arg>>
        /\ level = Len(rule.body) /\ pc' = "found"
    BY <1>1 DEF Answer
  <2>2. \A m \in 0 .. level - 1 : LevelFits(m)'
    BY <1>0, <2>1, LevelsUnmoved
  <2>3. QED
    BY <2>1, <2>2 DEF WalkInv, WithinBounds, MarksNest, BindsDistinct, UnifyFits
<1>2. CASE AskAgain
  <2>1. CASE level = 0
    <3>1. UNCHANGED <<facts, rule, base, level, frames, binds, mark, arg>>
          /\ pc' = "done" /\ 0 .. level - 1 = {}
      BY <1>2, <2>1 DEF AskAgain
    <3>2. QED
      BY <3>1 DEF WalkInv, WithinBounds, MarksNest, BindsDistinct, UnifyFits
  <2>2. CASE level # 0
    <3>1. /\ level - 1 \in Nat /\ level - 1 < level /\ NextCandidate(level - 1)
          /\ UNCHANGED <<facts, rule, base>> /\ pc' = "walk"
      BY <1>0, <1>2, <2>2 DEF AskAgain
    <3>2. QED
      BY <3>1, NextCandidateInv
  <2>3. QED
    BY <2>1, <2>2
<1>3. CASE Backtrack
  <2>1. CASE level = 0
    <3>1. UNCHANGED <<facts, rule, base, level, frames, binds, mark, arg>>
          /\ pc' = "done" /\ 0 .. level - 1 = {}
      BY <1>3, <2>1 DEF Backtrack
    <3>2. QED
      BY <3>1 DEF WalkInv, WithinBounds, MarksNest, BindsDistinct, UnifyFits
  <2>2. CASE level # 0
    <3>1. /\ level - 1 \in Nat /\ level - 1 < level /\ NextCandidate(level - 1)
          /\ UNCHANGED <<facts, rule, base>> /\ pc' = "walk"
      BY <1>0, <1>3, <2>2 DEF Backtrack, Searching
    <3>2. QED
      BY <3>1, NextCandidateInv
  <2>3. QED
    BY <2>1, <2>2
<1>4. CASE OutOfSteps
  <2>1. UNCHANGED <<facts, solverVars>> /\ pc' = "limit"
    BY <1>4 DEF OutOfSteps
  <2>2. \A m \in 0 .. level - 1 : LevelFits(m)'
    BY <1>0, <2>1, LevelsUnmoved DEF solverVars
  <2>3. QED
    BY <2>1, <2>2 DEF solverVars, WalkInv, WithinBounds, MarksNest,
                      BindsDistinct, UnifyFits
<1>5. QED
  BY <1>1, <1>2, <1>3, <1>4, PassOverInv, TryInv, ArgumentAgreesInv,
     BindVariableInv, UnifyFailsInv, ChooseInv DEF SolverStep

-----------------------------------------------------------------------------
(* What the walk has done.                                                 *)

LEMMA BodyTyped ==
  ASSUME SolverTypeOK
  PROVE  Len(rule.body) \in Nat /\ DOMAIN rule.body = 1 .. Len(rule.body)
BY LenProperties DEF SolverTypeOK, Rule

LEMMA BindingTyped ==
  ASSUME SolverTypeOK, NEW k \in DOMAIN binds
  PROVE  binds[k].sym \in Var
<1>1. binds \in Seq(Binding) /\ k \in 1 .. Len(binds)
  BY LenProperties DEF SolverTypeOK
<1>2. binds[k] \in Binding
  BY <1>1, ElementOfSeq
<1>3. QED
  BY <1>2 DEF Binding

\* A frame moved to its next candidate passes, beyond what it had, the
\* combinations that go by the candidate it leaves.
LEMMA AdvancedPassesOne ==
  ASSUME SolverTypeOK, WithinBounds, NEW l \in Nat, l < Len(rule.body),
         frames' = [frames EXCEPT ![l].fact = @ + 1], NEW t \in Combinations
  PROVE  /\ \A i \in 1 .. l : PassedAt(t, i)' <=> PassedAt(t, i)
         /\ AgreesBelow(t, l)' <=> AgreesBelow(t, l)
         /\ PassedAt(t, l + 1)' <=> PassedAt(t, l + 1) \/ AgreesBelow(t, l + 1)
<1>1. Len(rule.body) \in Nat /\ l \in 0 .. MaxBody-1
  BY BodyTyped DEF WithinBounds
<1>2. /\ frames'[l].fact = frames[l].fact + 1
      /\ \A m \in 0 .. MaxBody-1 : m # l => frames'[m] = frames[m]
      /\ frames[l].fact \in Nat
  BY <1>1, FrameAdvanced DEF SolverTypeOK, Frame
<1>3. \A j \in 1 .. l : frames'[j - 1].fact = frames[j - 1].fact
  BY <1>1, <1>2
<1>4. \A n \in 0 .. l : AgreesBelow(t, n)' <=> AgreesBelow(t, n)
  BY <1>3 DEF AgreesBelow
<1>5. ASSUME NEW i \in 1 .. l PROVE PassedAt(t, i)' <=> PassedAt(t, i)
  BY <1>3, <1>4 DEF PassedAt
<1>6. PassedAt(t, l + 1)' <=> t[l + 1] < frames[l].fact + 1 /\ AgreesBelow(t, l)
  <2>1. (l + 1) - 1 = l
    OBVIOUS
  <2>2. AgreesBelow(t, l)' <=> AgreesBelow(t, l)
    BY <1>4
  <2>3. PassedAt(t, l + 1)' <=> t[l + 1] < frames'[l].fact /\ AgreesBelow(t, l)'
    BY <2>1 DEF PassedAt
  <2>4. QED
    BY <1>2, <2>2, <2>3
<1>7. PassedAt(t, l + 1) <=> t[l + 1] < frames[l].fact /\ AgreesBelow(t, l)
  BY DEF PassedAt
<1>8. AgreesBelow(t, l + 1) <=> t[l + 1] = frames[l].fact /\ AgreesBelow(t, l)
  <2>1. \A j \in 1 .. l + 1 : j \in 1 .. l \/ j = l + 1
    OBVIOUS
  <2>2. 1 .. l \subseteq 1 .. l + 1 /\ l + 1 \in 1 .. l + 1
    OBVIOUS
  <2>3. QED
    BY <2>1, <2>2 DEF AgreesBelow
<1>9. t[l + 1] \in Nat
  <2>1. l + 1 \in DOMAIN rule.body
    BY <1>1, BodyTyped
  <2>2. t[l + 1] \in 1 .. base
    BY <2>1 DEF Combinations
  <2>3. QED
    BY <2>2 DEF SolverTypeOK
<1>10. QED
  BY <1>2, <1>4, <1>5, <1>6, <1>7, <1>8, <1>9

\* Agreeing below a full body is being the choice the walk sits on.
LEMMA ChoiceAgrees ==
  ASSUME SolverTypeOK, NEW t \in Combinations
  PROVE  AgreesBelow(t, Len(rule.body)) <=> t = Choice
<1>1. DOMAIN t = 1 .. Len(rule.body) /\ t = [i \in DOMAIN rule.body |-> t[i]]
  BY BodyTyped DEF Combinations
<1>2. DOMAIN rule.body = 1 .. Len(rule.body)
  BY BodyTyped
<1>3. QED
  BY <1>1, <1>2 DEF AgreesBelow, Choice

\* Going back from an answer passes that answer alone; going back from a
\* level that has run out passes nothing new.
LEMMA NextCandidatePasses ==
  ASSUME SolverTypeOK, WalkInv, level # 0, NextCandidate(level - 1),
         UNCHANGED <<rule, base>>, NEW t \in Combinations
  PROVE  /\ level = Len(rule.body) => (Passed(t)' <=> Passed(t) \/ t = Choice)
         /\ level < Len(rule.body) /\ ~HasCandidate => (Passed(t)' <=> Passed(t))
<1>1. /\ level \in Nat /\ Len(rule.body) \in Nat /\ level <= Len(rule.body)
      /\ DOMAIN rule.body = 1 .. Len(rule.body)
      /\ level - 1 \in Nat /\ level - 1 < Len(rule.body) /\ (level - 1) + 1 = level
  BY BodyTyped DEF SolverTypeOK, WalkInv, WithinBounds
<1>2. level' = level - 1 /\ frames' = [frames EXCEPT ![level - 1].fact = @ + 1]
  BY DEF NextCandidate
<1>n. PICK n \in Nat : n = level
  BY <1>1
<1>3. /\ \A i \in 1 .. n - 1 : PassedAt(t, i)' <=> PassedAt(t, i)
      /\ PassedAt(t, n)' <=> PassedAt(t, n) \/ AgreesBelow(t, n)
  <2>1. n - 1 \in Nat /\ n - 1 < Len(rule.body) /\ (n - 1) + 1 = n
        /\ frames' = [frames EXCEPT ![n - 1].fact = @ + 1]
    BY <1>1, <1>2, <1>n
  <2>2. QED
    BY <2>1, AdvancedPassesOne DEF WalkInv
<1>4. Passed(t)' <=> \E i \in 1 .. n : PassedAt(t, i)'
  <2>1. Passed(t)' <=> \E i \in DOMAIN rule.body : i <= (n - 1) + 1 /\ PassedAt(t, i)'
    BY <1>2, <1>n DEF Passed
  <2>2. QED
    BY <1>1, <1>n, <2>1
<1>5. Passed(t)' <=> (\E i \in 1 .. level : PassedAt(t, i)) \/ AgreesBelow(t, level)
  <2>1. \A i \in 1 .. n : i \in 1 .. n - 1 \/ i = n
    BY <1>1, <1>n
  <2>2. n \in 1 .. n /\ 1 .. n - 1 \subseteq 1 .. n
    BY <1>1, <1>n
  <2>3. QED
    BY <1>3, <1>4, <1>n, <2>1, <2>2
<1>6. ASSUME level = Len(rule.body) PROVE Passed(t)' <=> Passed(t) \/ t = Choice
  <2>1. Passed(t) <=> \E i \in 1 .. level : PassedAt(t, i)
    BY <1>1, <1>6 DEF Passed
  <2>2. AgreesBelow(t, level) <=> t = Choice
    BY <1>6, ChoiceAgrees
  <2>3. QED
    BY <1>5, <2>1, <2>2
<1>7. ASSUME level < Len(rule.body), ~HasCandidate PROVE Passed(t)' <=> Passed(t)
  <2>1. Passed(t) <=> (\E i \in 1 .. level : PassedAt(t, i)) \/ PassedAt(t, level + 1)
    <3>1. \A i \in 1 .. Len(rule.body) : i <= level + 1 <=> i \in 1 .. level \/ i = level + 1
      BY <1>1
    <3>2. level + 1 \in 1 .. Len(rule.body) /\ 1 .. level \subseteq 1 .. Len(rule.body)
      BY <1>1, <1>7
    <3>3. Passed(t) <=> \E i \in 1 .. Len(rule.body) : i <= level + 1 /\ PassedAt(t, i)
      BY <1>1 DEF Passed
    <3>4. QED
      BY <3>1, <3>2, <3>3
  <2>2. PassedAt(t, level + 1) <=> AgreesBelow(t, level)
    <3>1. t[level + 1] < frames[level].fact
      <4>1. level + 1 \in DOMAIN rule.body
        BY <1>1, <1>7
      <4>2. t[level + 1] \in 1 .. base
        BY <4>1 DEF Combinations
      <4>3. frames[level] \in Frame
        BY <1>1, <1>7 DEF SolverTypeOK, WalkInv, WithinBounds
      <4>4. frames[level].fact \in Nat /\ ~(frames[level].fact <= base) /\ base \in Nat
        BY <1>7, <4>3 DEF HasCandidate, SolverTypeOK, Frame
      <4>5. QED
        BY <4>2, <4>4
    <3>2. (level + 1) - 1 = level
      BY <1>1
    <3>3. QED
      BY <3>1, <3>2 DEF PassedAt
  <2>3. QED
    BY <1>5, <2>1, <2>2
<1>8. QED
  BY <1>6, <1>7

\* Dropping a candidate passes the combinations that go by it.
LEMMA DroppedPasses ==
  ASSUME SolverTypeOK, WalkInv, level < Len(rule.body),
         frames' = [frames EXCEPT ![level].fact = @ + 1],
         UNCHANGED <<rule, base, level>>, NEW t \in Combinations
  PROVE  Passed(t)' <=> Passed(t) \/ AgreesBelow(t, level + 1)
<1>1. /\ level \in Nat /\ Len(rule.body) \in Nat
      /\ DOMAIN rule.body = 1 .. Len(rule.body)
  BY BodyTyped DEF SolverTypeOK
<1>2. /\ \A i \in 1 .. level : PassedAt(t, i)' <=> PassedAt(t, i)
      /\ PassedAt(t, level + 1)' <=> PassedAt(t, level + 1) \/ AgreesBelow(t, level + 1)
  BY <1>1, AdvancedPassesOne DEF WalkInv
<1>3. \A i \in 1 .. Len(rule.body) : i <= level + 1 <=> i \in 1 .. level \/ i = level + 1
  BY <1>1
<1>4. level + 1 \in 1 .. Len(rule.body) /\ 1 .. level \subseteq 1 .. Len(rule.body)
  BY <1>1
<1>5. Passed(t) <=> (\E i \in 1 .. level : PassedAt(t, i)) \/ PassedAt(t, level + 1)
  BY <1>1, <1>3, <1>4 DEF Passed
<1>6. Passed(t)' <=> (\E i \in 1 .. level : PassedAt(t, i)') \/ PassedAt(t, level + 1)'
  <2>1. Passed(t)' <=> \E i \in DOMAIN rule.body : i <= level + 1 /\ PassedAt(t, i)'
    BY DEF Passed
  <2>2. QED
    BY <1>1, <1>3, <1>4, <2>1
<1>7. QED
  BY <1>2, <1>5, <1>6

\* Whatever substitution explains a combination that agrees with the choices
\* below level l gives a variable the value those choices bound it to.
LEMMA BindingForced ==
  ASSUME SolverTypeOK, NEW l \in Nat, l <= Len(rule.body),
         NEW t \in Combinations, AgreesBelow(t, l),
         NEW s, Explains(rule, facts, t, s),
         NEW k \in DOMAIN binds, Sourced(k, l)
  PROVE  s[binds[k].sym] = binds[k].value
<1>1. PICK m \in 0 .. l - 1 : \E i \in DOMAIN rule.body[m + 1].terms :
        binds[k] = [sym   |-> rule.body[m + 1].terms[i],
                    value |-> facts[frames[m].fact].terms[i]]
  BY DEF Sourced
<1>2. PICK i \in DOMAIN rule.body[m + 1].terms :
        binds[k] = [sym   |-> rule.body[m + 1].terms[i],
                    value |-> facts[frames[m].fact].terms[i]]
  BY <1>1
<1>3. m + 1 \in DOMAIN rule.body /\ m + 1 \in 1 .. l /\ (m + 1) - 1 = m
  BY BodyTyped
<1>4. t[m + 1] = frames[m].fact
  BY <1>3 DEF AgreesBelow
<1>5. facts[frames[m].fact].terms = Ground(rule.body[m + 1].terms, s)
  BY <1>3, <1>4 DEF Explains, States
<1>6. facts[frames[m].fact].terms[i] = Under(rule.body[m + 1].terms[i], s)
  BY <1>5 DEF Ground
<1>7. binds[k].sym = rule.body[m + 1].terms[i] /\ binds[k].value = facts[frames[m].fact].terms[i]
  BY <1>2
<1>8. binds[k].sym \in Var
  BY BindingTyped
<1>9. QED
  BY <1>6, <1>7, <1>8 DEF Under

\* No match goes by a fact the rule does not trust, or of another shape.
LEMMA PassedOverMatchesNot ==
  ASSUME SolverTypeOK, WalkInv, level < Len(rule.body),
         ~(Trusted(Candidate) /\ SameShape(Goal, Candidate)),
         NEW t \in Combinations, AgreesBelow(t, level + 1)
  PROVE  ~IsMatch(rule, facts, t)
<1> SUFFICES ASSUME NEW s, Explains(rule, facts, t, s) PROVE FALSE
  BY DEF IsMatch
<1>1. level \in Nat /\ level < MaxBody /\ level + 1 \in DOMAIN rule.body
      /\ level + 1 \in 1 .. level + 1 /\ (level + 1) - 1 = level
  <2>1. level \in Nat /\ Len(rule.body) \in Nat /\ DOMAIN rule.body = 1 .. Len(rule.body)
    BY BodyTyped DEF SolverTypeOK
  <2>2. Len(rule.body) <= MaxBody
    BY DEF WalkInv, WithinBounds
  <2>3. QED
    BY <2>1, <2>2
<1>2. t[level + 1] = frames[level].fact /\ t[level + 1] \in 1 .. base
  BY <1>1 DEF AgreesBelow, Combinations
<1>3. Candidate \in Fact
  BY <1>1, <1>2, CandidateTyped DEF WalkInv, Candidate
<1>4. Candidate.origin \ rule.trust = {} /\ States(Goal, Candidate, s)
  BY <1>1, <1>2 DEF Explains, Candidate, Goal
<1>5. Goal.terms \in Seq(Term) /\ Candidate.terms \in Seq(Term)
  BY <1>1, <1>3, GoalTyped DEF Fact, Goal
<1>6. DOMAIN Candidate.terms = DOMAIN Goal.terms
  BY <1>4 DEF States, Ground
<1>7. Len(Candidate.terms) = Len(Goal.terms)
  <2>1. PICK m \in Nat : m = Len(Candidate.terms)
    BY <1>5, LenProperties
  <2>2. PICK n \in Nat : n = Len(Goal.terms)
    BY <1>5, LenProperties
  <2>3. 1 .. m = 1 .. n
    BY <1>5, <1>6, <2>1, <2>2, LenProperties
  <2>4. m = n
    BY <2>3
  <2>5. QED
    BY <2>1, <2>2, <2>4
<1>8. Goal.name = Candidate.name
  BY <1>4 DEF States
<1>9. QED
  BY <1>4, <1>7, <1>8 DEF Trusted, SameShape

\* No match goes by a fact that differs from the goal in an argument.
LEMMA DifferenceMatchesNot ==
  ASSUME SolverTypeOK, WalkInv, BindsSourced,
         Unifying, Compares, Expected # Given,
         NEW t \in Combinations, AgreesBelow(t, level + 1)
  PROVE  ~IsMatch(rule, facts, t)
<1> SUFFICES ASSUME NEW s, Explains(rule, facts, t, s) PROVE FALSE
  BY DEF IsMatch
<1>1. pc = "unify" /\ level < Len(rule.body) /\ arg \in Nat \ {0} /\ arg <= Len(Goal.terms)
  BY DEF Unifying, WalkInv, UnifyFits, SolverTypeOK
<1>2. level \in Nat /\ level + 1 \in DOMAIN rule.body
      /\ level + 1 \in 1 .. level + 1 /\ (level + 1) - 1 = level
      /\ level + 1 \in Nat /\ level + 1 <= Len(rule.body)
  BY <1>1, BodyTyped DEF SolverTypeOK
<1>3. t[level + 1] = frames[level].fact
  BY <1>2 DEF AgreesBelow
<1>4. Candidate.terms = Ground(Goal.terms, s)
  BY <1>2, <1>3 DEF Explains, States, Candidate, Goal
<1>5. arg \in DOMAIN Goal.terms
  BY <1>1, <1>2, GoalTyped, LenProperties DEF Goal
<1>6. Given = Under(Pattern, s)
  BY <1>4, <1>5 DEF Given, Pattern, Ground
<1>7. CASE Pattern \notin Var
  BY <1>6, <1>7 DEF Under, Expected
<1>8. CASE Pattern \in Var
  <2>1. PICK k \in DOMAIN binds : binds[k].sym = Pattern
    BY <1>8 DEF Compares, IsBound
  <2>2. Sourced(k, level + 1)
    BY <1>1 DEF BindsSourced
  <2>3. s[Pattern] = binds[k].value
    BY <1>2, <2>1, <2>2, BindingForced
  <2>4. ValueOf(Pattern, binds) = binds[k].value
    BY <2>1, ValueOfBinding DEF WalkInv, BindsDistinct, SolverTypeOK
  <2>5. QED
    BY <1>6, <1>8, <2>3, <2>4 DEF Under, Expected
<1>9. QED
  BY <1>7, <1>8

-----------------------------------------------------------------------------
(* Slots for the bindings.                                                 *)

\* The variables of a body are finitely many.
LEMMA VarsOfFinite ==
  ASSUME NEW r \in Rule PROVE IsFiniteSet(VarsOf(r))
<1> DEFINE VarsIn(i) == {v \in Var : \E j \in DOMAIN r.body[i].terms : r.body[i].terms[j] = v}
           sets == [i \in DOMAIN r.body |-> VarsIn(i)]
           S == {VarsIn(i) : i \in DOMAIN r.body}
<1>1. r.body \in Seq(Predicate) /\ Len(r.body) \in Nat /\ DOMAIN r.body = 1 .. Len(r.body)
  BY LenProperties DEF Rule
<1>2. IsFiniteSet(DOMAIN r.body)
  <2>1. PICK n \in Int : n = Len(r.body)
    BY <1>1
  <2>2. IsFiniteSet(1 .. n)
    BY FS_Interval
  <2>3. QED
    BY <1>1, <2>1, <2>2
<1>3. sets \in Surjection(DOMAIN r.body, S)
  BY DEF Surjection
<1>4. IsFiniteSet(S)
  BY <1>2, <1>3, FS_Surjection
<1>5. ASSUME NEW i \in DOMAIN r.body PROVE IsFiniteSet(VarsIn(i))
  <2> DEFINE ts == r.body[i].terms
             T == {ts[j] : j \in DOMAIN ts}
  <2>0. r.body[i] \in Predicate
    BY <1>1, ElementOfSeq
  <2>1. ts \in Seq(Term)
    BY <2>0 DEF Predicate
  <2>2. Len(ts) \in Nat /\ DOMAIN ts = 1 .. Len(ts)
    BY <2>1, LenProperties
  <2>3. IsFiniteSet(DOMAIN ts)
    <3>1. PICK n \in Int : n = Len(ts)
      BY <2>2
    <3>2. IsFiniteSet(1 .. n)
      BY FS_Interval
    <3>3. QED
      BY <2>2, <3>1, <3>2
  <2>4. [j \in DOMAIN ts |-> ts[j]] \in Surjection(DOMAIN ts, T)
    BY DEF Surjection
  <2>5. IsFiniteSet(T)
    BY <2>3, <2>4, FS_Surjection
  <2>6. VarsIn(i) \in SUBSET T
    OBVIOUS
  <2>7. QED
    BY <2>5, <2>6, FS_Subset
<1>6. \A T \in S : IsFiniteSet(T)
  BY <1>5
<1>7. IsFiniteSet(UNION S)
  BY <1>4, <1>6, FS_UNION
<1>8. VarsOf(r) = UNION S
  BY DEF VarsOf
<1>9. QED
  BY <1>7, <1>8

\* A rule of few variables never runs out of slots for its bindings.
LEMMA SlotLeft ==
  ASSUME SolverTypeOK, WalkInv, BindsSourced, FewVariables(rule), Unifying, ~Compares
  PROVE  Len(binds) < MaxBindings
<1> DEFINE V == VarsOf(rule)
           n == Len(binds)
           f == [k \in 1 .. n |-> binds[k].sym]
<1>1. pc = "unify" /\ level < Len(rule.body) /\ arg \in Nat \ {0} /\ arg <= Len(Goal.terms)
      /\ level \in Nat /\ level + 1 <= Len(rule.body) /\ Len(rule.body) \in Nat
  BY BodyTyped DEF Unifying, WalkInv, UnifyFits, SolverTypeOK
<1>2. arg \in DOMAIN Goal.terms /\ level + 1 \in DOMAIN rule.body
  BY <1>1, GoalTyped, LenProperties DEF Goal
<1>3. Pattern \in V /\ Pattern \in Var
  BY <1>2 DEF Pattern, Goal, VarsOf, Compares
<1>4. n \in Nat /\ DOMAIN binds = 1 .. n
  BY LenProperties DEF SolverTypeOK
<1>5. ASSUME NEW k \in 1 .. n PROVE binds[k].sym \in V \ {Pattern}
  <2>1. binds[k].sym \in Var
    BY <1>4, BindingTyped
  <2>s. Sourced(k, level + 1) /\ (level + 1) - 1 = level
    BY <1>1, <1>4 DEF BindsSourced
  <2>2. PICK m \in 0 .. level : \E i \in DOMAIN rule.body[m + 1].terms :
          binds[k] = [sym   |-> rule.body[m + 1].terms[i],
                      value |-> facts[frames[m].fact].terms[i]]
    BY <2>s DEF Sourced
  <2>3. \E i \in DOMAIN rule.body[m + 1].terms : binds[k].sym = rule.body[m + 1].terms[i]
    BY <2>2
  <2>4. m + 1 \in DOMAIN rule.body
    BY <1>1, BodyTyped
  <2>5. binds[k].sym \in V
    BY <2>1, <2>3, <2>4 DEF VarsOf
  <2>6. binds[k].sym # Pattern
    BY <1>4 DEF Compares, IsBound
  <2>7. QED
    BY <2>5, <2>6
<1>6. f \in Injection(1 .. n, V \ {Pattern})
  <2>1. f \in [1 .. n -> V \ {Pattern}]
    BY <1>5
  <2>2. \A j, k \in 1 .. n : f[j] = f[k] => j = k
    BY <1>4 DEF WalkInv, BindsDistinct
  <2>3. QED
    BY <2>1, <2>2 DEF Injection, IsInjective
<1> HIDE DEF f
<1>7. IsFiniteSet(V)
  BY VarsOfFinite DEF SolverTypeOK
<1> HIDE DEF V, n
<1>8. IsFiniteSet(V \ {Pattern}) /\ Cardinality(V \ {Pattern}) = Cardinality(V) - 1
      /\ Cardinality(V) \in Nat
  BY <1>3, <1>7, FS_RemoveElement, FS_CardinalityType
<1>9. Cardinality(1 .. n) = n
  BY <1>4, FS_Interval
<1>10. Cardinality(1 .. n) <= Cardinality(V \ {Pattern})
  BY <1>6, <1>8, FS_Injection
<1>11. Cardinality(V) <= MaxBindings
  BY DEF FewVariables, V
<1>12. n < MaxBindings
  BY <1>4, <1>8, <1>9, <1>10, <1>11
<1>13. QED
  BY <1>12 DEF n

-----------------------------------------------------------------------------
(* Where the bindings come from, step by step.                             *)

\* A binding keeps its source as long as the facts chosen below it stay.
LEMMA SourceKept ==
  ASSUME NEW l \in Nat, NEW k, Sourced(k, l), binds'[k] = binds[k], rule' = rule,
         \A m \in 0 .. l - 1 : facts'[frames'[m].fact] = facts[frames[m].fact]
  PROVE  Sourced(k, l)'
BY DEF Sourced

\* What lies below a level lies below the next.
LEMMA SourceBelow ==
  ASSUME NEW l \in Nat, NEW m \in Nat, l <= m, NEW k, Sourced(k, l)
  PROVE  Sourced(k, m)
<1>1. 0 .. l - 1 \subseteq 0 .. m - 1
  OBVIOUS
<1>2. QED
  BY <1>1 DEF Sourced

\* Nothing moved.
LEMMA SourcesUnmoved ==
  ASSUME BindsSourced, level \in Nat,
         UNCHANGED <<facts, rule, level, frames, binds>>, pc' = "unify" => pc = "unify"
  PROVE  BindsSourced'
<1>1. ASSUME NEW m, NEW k, Sourced(k, m) PROVE Sourced(k, m)'
  BY <1>1 DEF Sourced
<1>2. PICK n \in Nat : n = level
  OBVIOUS
<1>3. \A m \in 0 .. n : m < Len(rule.body) => \A k \in 1 .. frames[m].bind_mark : Sourced(k, m)'
  BY <1>1, <1>2 DEF BindsSourced
<1>4. pc' = "unify" => \A k \in DOMAIN binds : Sourced(k, n + 1)'
  BY <1>1, <1>2 DEF BindsSourced
<1>5. level = Len(rule.body) => \A k \in DOMAIN binds : Sourced(k, n)'
  BY <1>1, <1>2 DEF BindsSourced
<1>6. QED
  BY <1>2, <1>3, <1>4, <1>5 DEF BindsSourced

\* Giving up the choice of level l, with the bindings it made.
LEMMA UndoneSourced ==
  ASSUME SolverTypeOK, WalkInv, BindsSourced, NEW l \in 0 .. level, l < Len(rule.body),
         frames' = [frames EXCEPT ![l].fact = @ + 1], level' = l,
         \A k \in 1 .. frames[l].bind_mark : binds'[k] = binds[k],
         UNCHANGED <<facts, rule>>, pc' # "unify"
  PROVE  BindsSourced'
<1>1. level \in Nat /\ Len(rule.body) \in Nat /\ l \in 0 .. MaxBody-1
  BY BodyTyped, MarkBelow DEF SolverTypeOK
<1>2. /\ frames'[l].bind_mark = frames[l].bind_mark
      /\ \A m \in 0 .. MaxBody-1 : m # l => frames'[m] = frames[m]
  BY <1>1, FrameAdvanced DEF SolverTypeOK
<1>3. ASSUME NEW m \in 0 .. l, NEW k \in 1 .. frames[m].bind_mark
      PROVE  Sourced(k, m)'
  <2>1. m \in 0 .. level /\ m < Len(rule.body) /\ m \in Nat
    BY <1>1
  <2>2. Sourced(k, m)
    BY <2>1 DEF BindsSourced
  <2>3. frames[m].bind_mark <= frames[l].bind_mark
    BY <1>1, <2>1 DEF WalkInv, MarksNest
  <2>4. frames[m].bind_mark \in Nat /\ frames[l].bind_mark \in Nat
    BY <2>1, MarkBelow
  <2>5. binds'[k] = binds[k]
    BY <2>3, <2>4
  <2>6. \A n \in 0 .. m - 1 : frames'[n] = frames[n]
    BY <1>1, <1>2
  <2>7. QED
    BY <2>1, <2>2, <2>5, <2>6, SourceKept
<1>4. \A m \in 0 .. l : frames'[m].bind_mark = frames[m].bind_mark
  BY <1>1, <1>2
<1>5. \A m \in 0 .. l : \A k \in 1 .. frames'[m].bind_mark : Sourced(k, m)'
  BY <1>3, <1>4
<1>6. QED
  BY <1>5 DEF BindsSourced

LEMMA BindVariableSourced ==
  ASSUME SolverTypeOK, WalkInv, BindsSourced, BindVariable PROVE BindsSourced'
<1>1. /\ pc = "unify" /\ level \in Nat /\ arg \in Nat \ {0} /\ arg <= Len(Goal.terms)
      /\ Len(rule.body) \in Nat /\ level < Len(rule.body) /\ Len(binds) \in Nat
      /\ DOMAIN binds = 1 .. Len(binds)
  BY BodyTyped, LenProperties DEF BindVariable, Unifying, WalkInv, UnifyFits, SolverTypeOK
<1>2. /\ UNCHANGED <<facts, rule, level, frames>>
      /\ binds' = Append(binds, [sym |-> Pattern, value |-> Given])
  BY DEF BindVariable
<1>3. /\ Len(binds') = Len(binds) + 1
      /\ \A k \in 1 .. Len(binds) : binds'[k] = binds[k]
      /\ binds'[Len(binds) + 1] = [sym |-> Pattern, value |-> Given]
      /\ DOMAIN binds' = 1 .. Len(binds) + 1
  <2>1. binds \in Seq(Binding) /\ binds' \in Seq(Binding)
    BY StepTyped DEF SolverStep, SolverTypeOK
  <2>2. QED
    BY <1>1, <1>2, <2>1, LenProperties
<1>4. ASSUME NEW m \in Nat, NEW k \in 1 .. Len(binds), Sourced(k, m)
      PROVE  Sourced(k, m)'
  BY <1>2, <1>3, <1>4, SourceKept
<1>5. ASSUME NEW m \in 0 .. level, NEW k \in 1 .. frames[m].bind_mark
      PROVE  Sourced(k, m)'
  <2>1. m < Len(rule.body) /\ m \in Nat
    BY <1>1
  <2>2. Sourced(k, m)
    BY <2>1 DEF BindsSourced
  <2>3. k \in 1 .. Len(binds)
    BY <1>1, <2>1, MarkBelow
  <2>4. QED
    BY <1>4, <2>1, <2>2, <2>3
<1>6. ASSUME NEW k \in DOMAIN binds' PROVE Sourced(k, level + 1)'
  <2>1. PICK n \in Nat : n = level
    BY <1>1
  <2>2. CASE k \in 1 .. Len(binds)
    <3>1. Sourced(k, n + 1)
      BY <1>1, <2>1, <2>2 DEF BindsSourced
    <3>2. Sourced(k, n + 1)'
      BY <1>4, <2>2, <3>1
    <3>3. QED
      BY <1>2, <2>1, <3>2
  <2>3. CASE k = Len(binds) + 1
    <3>1. arg \in DOMAIN Goal.terms
      BY <1>1, GoalTyped, LenProperties DEF Goal
    <3>2. binds'[k] = [sym |-> rule.body[n + 1].terms[arg],
                       value |-> facts[frames[n].fact].terms[arg]]
      BY <1>3, <2>1, <2>3 DEF Pattern, Given, Goal, Candidate
    <3>3. n \in 0 .. (n + 1) - 1 /\ arg \in DOMAIN rule.body[n + 1].terms
      BY <2>1, <3>1 DEF Goal
    <3>4. PICK i \in DOMAIN rule.body[n + 1].terms :
             binds'[k] = [sym |-> rule.body[n + 1].terms[i],
                          value |-> facts[frames[n].fact].terms[i]]
      BY <3>2, <3>3
    <3>5. Sourced(k, n + 1)'
      BY <1>2, <3>3, <3>4 DEF Sourced
    <3>6. QED
      BY <1>2, <2>1, <3>5
  <2>4. QED
    BY <1>1, <1>3, <2>2, <2>3
<1>7. level # Len(rule.body)
  BY <1>1
<1>8. QED
  BY <1>2, <1>5, <1>6, <1>7 DEF BindsSourced

LEMMA ChooseSourced ==
  ASSUME SolverTypeOK, WalkInv, BindsSourced, Choose PROVE BindsSourced'
<1>1. /\ pc = "unify" /\ pc' = "walk" /\ level' = level + 1
      /\ UNCHANGED <<facts, rule, base, binds, mark>>
  BY DEF Choose
<1>2. /\ level \in Nat /\ level < Len(rule.body) /\ Len(rule.body) \in Nat
      /\ DOMAIN binds = 1 .. Len(binds) /\ Len(binds) \in Nat
  BY <1>1, BodyTyped, LenProperties DEF WalkInv, UnifyFits, SolverTypeOK
<1>3. mark = frames[level].bind_mark
  BY <1>1, <1>2 DEF WalkInv, MarksNest
<1>4. PICK n \in Nat : n = level
  BY <1>2
<1>5. \A m \in 0 .. n : /\ frames'[m].fact = frames[m].fact
                       /\ frames'[m].bind_mark = frames[m].bind_mark
  <2>1. \A m \in 0 .. n : m \in 0 .. n - 1 \/ m = n
    OBVIOUS
  <2>2. QED
    BY <1>3, <1>4, <2>1, ChooseFrames
<1>6. ASSUME NEW m \in 0 .. n + 1, NEW k \in 1 .. Len(binds), Sourced(k, m)
      PROVE  Sourced(k, m)'
  <2>1. \A j \in 0 .. m - 1 : facts'[frames'[j].fact] = facts[frames[j].fact]
    BY <1>1, <1>5
  <2>2. QED
    BY <1>1, <1>6, <2>1, SourceKept
<1>7. ASSUME NEW m \in 0 .. n + 1, m < Len(rule.body), NEW k \in 1 .. frames'[m].bind_mark
      PROVE  Sourced(k, m)'
  <2>1. CASE m \in 0 .. n
    <3>1. k \in 1 .. frames[m].bind_mark /\ m \in 0 .. level
      BY <1>4, <1>5, <2>1
    <3>2. Sourced(k, m)
      BY <1>7, <3>1 DEF BindsSourced
    <3>3. k \in 1 .. Len(binds)
      BY <1>2, <1>7, <3>1, MarkBelow
    <3>4. QED
      BY <1>6, <3>2, <3>3
  <2>2. CASE m = n + 1
    <3>1. frames'[m].bind_mark = Len(binds)
      BY <1>4, <1>7, <2>2, ChooseFrames
    <3>2. Sourced(k, m)
      BY <1>1, <1>2, <1>4, <2>2, <3>1 DEF BindsSourced
    <3>3. QED
      BY <1>6, <3>1, <3>2
  <2>3. QED
    BY <2>1, <2>2
<1>8. ASSUME NEW k \in DOMAIN binds PROVE Sourced(k, n + 1)'
  <2>1. k \in 1 .. Len(binds)
    BY <1>2
  <2>2. Sourced(k, n + 1)
    BY <1>1, <1>4 DEF BindsSourced
  <2>3. QED
    BY <1>6, <2>1, <2>2
<1>9. QED
  BY <1>1, <1>4, <1>7, <1>8 DEF BindsSourced

\* Every binding comes, at every moment, from a choice that still stands.
LEMMA StepSourced ==
  ASSUME SolverTypeOK, WalkInv, BindsSourced, SolverStep \/ AskAgain
  PROVE  BindsSourced'
<1>0. /\ level \in Nat /\ Len(rule.body) \in Nat /\ Len(binds) \in Nat
      /\ DOMAIN binds = 1 .. Len(binds) /\ level <= Len(rule.body)
  BY BodyTyped, LenProperties DEF SolverTypeOK, WalkInv, WithinBounds
<1>1. ASSUME level # 0, NextCandidate(level - 1), UNCHANGED <<facts, rule>>, pc' # "unify"
      PROVE  BindsSourced'
  <2>1. PICK l \in Nat : l = level - 1
    BY <1>0, <1>1
  <2>2. l \in 0 .. level /\ l < Len(rule.body)
    BY <1>0, <2>1
  <2>3. /\ frames' = [frames EXCEPT ![l].fact = @ + 1] /\ level' = l
        /\ binds' = SubSeq(binds, 1, frames[l].bind_mark)
    BY <1>1, <2>1 DEF NextCandidate
  <2>4. \A k \in 1 .. frames[l].bind_mark : binds'[k] = binds[k]
    BY <2>2, <2>3, MarkBelow, Truncated DEF SolverTypeOK
  <2>5. QED
    BY <1>1, <2>2, <2>3, <2>4, UndoneSourced
<1>2. CASE Answer
  <2>1. UNCHANGED <<facts, rule, level, frames, binds>> /\ pc' = "found"
    BY <1>2 DEF Answer
  <2>2. QED
    BY <1>0, <2>1, SourcesUnmoved
<1>3. CASE AskAgain
  <2>1. CASE level = 0
    <3>1. UNCHANGED <<facts, rule, level, frames, binds>> /\ pc' = "done"
      BY <1>3, <2>1 DEF AskAgain
    <3>2. QED
      BY <1>0, <3>1, SourcesUnmoved
  <2>2. CASE level # 0
    <3>1. NextCandidate(level - 1) /\ pc' = "walk" /\ UNCHANGED <<facts, rule>>
      BY <1>3, <2>2 DEF AskAgain
    <3>2. QED
      BY <1>1, <2>2, <3>1
  <2>3. QED
    BY <2>1, <2>2
<1>4. CASE Backtrack
  <2>1. CASE level = 0
    <3>1. UNCHANGED <<facts, rule, level, frames, binds>> /\ pc' = "done"
      BY <1>4, <2>1 DEF Backtrack
    <3>2. QED
      BY <1>0, <3>1, SourcesUnmoved
  <2>2. CASE level # 0
    <3>1. NextCandidate(level - 1) /\ pc' = "walk" /\ UNCHANGED <<facts, rule>>
      BY <1>4, <2>2 DEF Backtrack, Searching
    <3>2. QED
      BY <1>1, <2>2, <3>1
  <2>3. QED
    BY <2>1, <2>2
<1>5. CASE OutOfSteps
  <2>1. UNCHANGED <<facts, rule, level, frames, binds>> /\ pc' = "limit"
    BY <1>5 DEF OutOfSteps, solverVars
  <2>2. QED
    BY <1>0, <2>1, SourcesUnmoved
<1>6. CASE PassOver \/ UnifyFails
  <2>1. /\ level < Len(rule.body) /\ level' = level /\ pc' = "walk"
        /\ frames' = [frames EXCEPT ![level].fact = @ + 1]
        /\ UNCHANGED <<facts, rule>>
    BY <1>6 DEF PassOver, Searching, UnifyFails, Unifying, WalkInv, UnifyFits
  <2>2. \A k \in 1 .. frames[level].bind_mark : binds'[k] = binds[k]
    <3>1. CASE PassOver
      BY <3>1 DEF PassOver
    <3>2. CASE UnifyFails
      <4>1. binds' = SubSeq(binds, 1, mark) /\ mark = frames[level].bind_mark
        BY <1>0, <2>1, <3>2 DEF UnifyFails, Unifying, WalkInv, MarksNest
      <4>2. QED
        BY <1>0, <2>1, <4>1, MarkBelow, Truncated DEF SolverTypeOK
    <3>3. QED
      BY <1>6, <3>1, <3>2
  <2>3. PICK l \in 0 .. level : l = level
    BY <1>0
  <2>4. QED
    BY <2>1, <2>2, <2>3, UndoneSourced
<1>7. CASE Try
  <2>1. /\ UNCHANGED <<facts, rule, level, frames, binds>> /\ pc' = "unify" /\ pc = "walk"
        /\ level < Len(rule.body)
    BY <1>7 DEF Try, Searching
  <2>2. Len(binds) = frames[level].bind_mark
    BY <2>1 DEF WalkInv, MarksNest
  <2>3. \A k \in DOMAIN binds : Sourced(k, level)
    BY <1>0, <2>1, <2>2 DEF BindsSourced
  <2>4. PICK n \in Nat : n = level
    BY <1>0
  <2>5. \A k \in DOMAIN binds : Sourced(k, n + 1)
    BY <2>3, <2>4, SourceBelow
  <2>s. ASSUME NEW m, NEW k, Sourced(k, m) PROVE Sourced(k, m)'
    BY <2>1, <2>s DEF Sourced
  <2>6. \A k \in DOMAIN binds : Sourced(k, n + 1)'
    BY <2>5, <2>s
  <2>7. \A m \in 0 .. level : m < Len(rule.body) =>
           \A k \in 1 .. frames[m].bind_mark : Sourced(k, m)'
    BY <2>s DEF BindsSourced
  <2>8. QED
    BY <2>1, <2>4, <2>6, <2>7 DEF BindsSourced
<1>8. CASE ArgumentAgrees
  <2>1. UNCHANGED <<facts, rule, level, frames, binds, pc>>
    BY <1>8 DEF ArgumentAgrees
  <2>2. QED
    BY <1>0, <2>1, SourcesUnmoved
<1>9. QED
  BY <1>2, <1>3, <1>4, <1>5, <1>6, <1>7, <1>8, BindVariableSourced, ChooseSourced
  DEF SolverStep

-----------------------------------------------------------------------------
(* The answers, step by step.                                              *)

LEMMA PassedUnmoved ==
  ASSUME UNCHANGED <<rule, level, frames>>, NEW t
  PROVE  Passed(t)' <=> Passed(t)
<1>1. \A i : PassedAt(t, i)' <=> PassedAt(t, i)
  BY DEF PassedAt, AgreesBelow
<1>2. Passed(t)' <=> \E i \in DOMAIN rule.body : i <= level + 1 /\ PassedAt(t, i)'
  BY DEF Passed
<1>3. QED
  BY <1>1, <1>2 DEF Passed

\* The answers stay exact when what a step passes beyond the choice it leaves
\* matches nothing.
LEMMA AnswersKept ==
  ASSUME NEW a \in BOOLEAN, NEW b \in BOOLEAN, AnswersPassed(a),
         UNCHANGED <<facts, rule, base, answers>>,
         \A t \in Combinations : IsMatch(rule, facts, t) =>
           ((Passed(t)' \/ (b /\ t = Choice')) <=> (Passed(t) \/ (a /\ t = Choice)))
  PROVE  AnswersPassed(b)'
<1>1. Combinations' = Combinations /\ Answered' = Answered
  BY DEF Combinations, Answered
<1>2. \A t : IsMatch(rule, facts, t)' <=> IsMatch(rule, facts, t)
  BY DEF IsMatch, Explains, States, Ground, Under
<1> DEFINE S == {t \in Combinations : /\ IsMatch(rule, facts, t)
                                      /\ Passed(t) \/ (a /\ t = Choice)}
           T == {t \in Combinations : /\ IsMatch(rule, facts, t)'
                                      /\ Passed(t)' \/ (b /\ t = Choice')}
<1>3. S = T
  BY <1>2
<1>4. Answered = S
  BY DEF AnswersPassed
<1>5. AnswersPassed(b)' <=> Answered' = T
  BY <1>1 DEF AnswersPassed
<1>6. QED
  BY <1>1, <1>3, <1>4, <1>5

\* The last combination is passed: none is missing.
LEMMA AnswersCompleted ==
  ASSUME NEW a \in BOOLEAN, AnswersPassed(a),
         UNCHANGED <<facts, rule, base, answers>>,
         \A t \in Combinations : Passed(t) \/ (a /\ t = Choice)
  PROVE  AnswersAll'
<1>1. Combinations' = Combinations /\ Answered' = Answered
  BY DEF Combinations, Answered
<1>2. \A t : IsMatch(rule, facts, t)' <=> IsMatch(rule, facts, t)
  BY DEF IsMatch, Explains, States, Ground, Under
<1> DEFINE S == {t \in Combinations : IsMatch(rule, facts, t)}
           T == {t \in Combinations : IsMatch(rule, facts, t)'}
<1>3. S = T
  BY <1>2
<1>4. Answered = S
  BY DEF AnswersPassed
<1>5. AnswersAll' <=> Answered' = T
  BY <1>1 DEF AnswersAll
<1>6. QED
  BY <1>1, <1>3, <1>4, <1>5

LEMMA AllUnmoved ==
  ASSUME UNCHANGED <<facts, rule, base, answers>>
  PROVE  AnswersAll' <=> AnswersAll
<1>1. Combinations' = Combinations /\ Answered' = Answered
  BY DEF Combinations, Answered
<1>2. \A t : IsMatch(rule, facts, t)' <=> IsMatch(rule, facts, t)
  BY DEF IsMatch, Explains, States, Ground, Under
<1> DEFINE S == {t \in Combinations : IsMatch(rule, facts, t)}
           T == {t \in Combinations : IsMatch(rule, facts, t)'}
<1>3. S = T
  BY <1>2
<1>4. AnswersAll' <=> Answered' = T
  BY <1>1 DEF AnswersAll
<1>5. AnswersAll <=> Answered = S
  BY DEF AnswersAll
<1>6. QED
  BY <1>1, <1>3, <1>4, <1>5

\* Dropping a candidate that no match goes by.
LEMMA DroppedExact ==
  ASSUME SolverTypeOK, WalkInv, AnswersPassed(FALSE), level < Len(rule.body),
         frames' = [frames EXCEPT ![level].fact = @ + 1],
         UNCHANGED <<facts, rule, base, level, answers>>,
         \A t \in Combinations : AgreesBelow(t, level + 1) => ~IsMatch(rule, facts, t)
  PROVE  AnswersPassed(FALSE)'
<1>1. \A t \in Combinations : IsMatch(rule, facts, t) => (Passed(t)' <=> Passed(t))
  BY DroppedPasses
<1>2. QED
  BY <1>1, AnswersKept

\* Choosing a candidate passes nothing: the next level starts at the first
\* fact.
LEMMA ChooseExact ==
  ASSUME SolverTypeOK, WalkInv, AnswersPassed(FALSE), Choose
  PROVE  AnswersPassed(FALSE)'
<1>1. /\ pc = "unify" /\ level' = level + 1 /\ UNCHANGED <<facts, rule, base, answers>>
  BY DEF Choose
<1>2. /\ level \in Nat /\ level < Len(rule.body) /\ Len(rule.body) \in Nat
      /\ DOMAIN rule.body = 1 .. Len(rule.body)
  BY <1>1, BodyTyped DEF WalkInv, UnifyFits, SolverTypeOK
<1>3. PICK n \in Nat : n = level
  BY <1>2
<1>4. \A m \in 0 .. n : frames'[m].fact = frames[m].fact
  <2>1. \A m \in 0 .. n : m \in 0 .. n - 1 \/ m = n
    OBVIOUS
  <2>2. QED
    BY <1>3, <2>1, ChooseFrames
<1>5. ASSUME NEW t \in Combinations PROVE Passed(t)' <=> Passed(t)
  <2>1. \A i \in 1 .. n + 1 : PassedAt(t, i)' <=> PassedAt(t, i)
    <3> TAKE i \in 1 .. n + 1
    <3>1. \A j \in 1 .. i : frames'[j - 1].fact = frames[j - 1].fact
      BY <1>4
    <3>2. \A j \in 1 .. i - 1 : frames'[j - 1].fact = frames[j - 1].fact
      BY <3>1
    <3>3. AgreesBelow(t, i - 1)' <=> AgreesBelow(t, i - 1)
      BY <3>2 DEF AgreesBelow
    <3>4. frames'[i - 1].fact = frames[i - 1].fact
      BY <3>1
    <3>5. QED
      BY <3>3, <3>4 DEF PassedAt
  <2>2. ASSUME n + 2 \in DOMAIN rule.body PROVE ~PassedAt(t, n + 2)'
    <3>1. n + 1 < Len(rule.body) /\ (n + 2) - 1 = n + 1
      BY <1>2, <2>2
    <3>2. frames'[n + 1].fact = 1
      BY <1>3, <3>1, ChooseFrames
    <3>3. t[n + 2] \in 1 .. base /\ base \in Nat
      BY <2>2 DEF Combinations, SolverTypeOK
    <3>4. ~(t[n + 2] < frames'[n + 1].fact)
      BY <3>2, <3>3
    <3>5. QED
      BY <3>1, <3>4 DEF PassedAt
  <2>3. Passed(t)' <=> \E i \in DOMAIN rule.body : i <= n + 2 /\ PassedAt(t, i)'
    <3>1. level' + 1 = n + 2
      BY <1>1, <1>3
    <3>2. QED
      BY <1>1, <3>1 DEF Passed
  <2>4. Passed(t) <=> \E i \in DOMAIN rule.body : i <= n + 1 /\ PassedAt(t, i)
    BY <1>3 DEF Passed
  <2>5. \A i \in DOMAIN rule.body : i <= n + 2 <=> i \in 1 .. n + 1 \/ i = n + 2
    BY <1>2
  <2>6. \A i \in DOMAIN rule.body : i <= n + 1 <=> i \in 1 .. n + 1
    BY <1>2
  <2>7. QED
    BY <2>1, <2>2, <2>3, <2>4, <2>5, <2>6
<1>6. QED
  BY <1>1, <1>5, AnswersKept

\* An answer is a match the walk has not passed, and so one it has not given;
\* every match still to come is later in the order of nested loops.
LEMMA AnswerIsNext ==
  ASSUME SolverTypeOK, WalkInv, AnswersPassed(FALSE), level = Len(rule.body)
  PROVE  /\ Choice \in Combinations
         /\ IsMatch(rule, facts, Choice)
         /\ Choice \notin Answered
         /\ \A u \in Combinations : /\ IsMatch(rule, facts, u) /\ u \notin Answered
                                    /\ u # Choice
                                    => Before(Choice, u)
<1>1. /\ level \in Nat /\ DOMAIN rule.body = 1 .. level
      /\ Choice = [i \in DOMAIN rule.body |-> frames[i - 1].fact]
  BY BodyTyped DEF SolverTypeOK, Choice
<1>2. Choice \in Combinations
  <2>1. \A i \in DOMAIN rule.body : frames[i - 1].fact \in 1 .. base
    BY <1>1, ChosenBelow
  <2>2. QED
    BY <1>1, <2>1 DEF Combinations
<1>3. IsMatch(rule, facts, Choice)
  <2>1. Explains(rule, facts, Choice, Substitution)
    BY FullLevelsSound DEF AnswerSound
  <2>2. Substitution \in [Var -> Term]
    <3>1. ASSUME NEW v \in Var, IsBound(v, binds) PROVE ValueOf(v, binds) \in Term
      <4>1. PICK k \in DOMAIN binds : binds[k].sym = v
        BY <3>1 DEF IsBound
      <4>2. ValueOf(v, binds) = binds[k].value
        BY <4>1, ValueOfBinding DEF WalkInv, BindsDistinct, SolverTypeOK
      <4>3. binds \in Seq(Binding) /\ k \in 1 .. Len(binds)
        BY LenProperties DEF SolverTypeOK
      <4>4. binds[k] \in Binding
        BY <4>3, ElementOfSeq
      <4>5. QED
        BY <4>2, <4>4 DEF Binding
    <3>2. \A v \in Var : v \in Term
      BY DEF Term
    <3>3. QED
      BY <3>1, <3>2 DEF Substitution
  <2>3. QED
    BY <2>1, <2>2 DEF IsMatch
<1>4. ~Passed(Choice)
  <2> SUFFICES ASSUME NEW i \in DOMAIN rule.body, PassedAt(Choice, i) PROVE FALSE
    BY DEF Passed
  <2>1. Choice[i] < frames[i - 1].fact /\ Choice[i] = frames[i - 1].fact
    BY <1>1 DEF PassedAt
  <2>2. Choice[i] \in Nat
    BY <1>2 DEF Combinations, SolverTypeOK
  <2>3. QED
    BY <2>1, <2>2
<1>5. Choice \notin Answered
  BY <1>4 DEF AnswersPassed
<1>6. ASSUME NEW u \in Combinations, IsMatch(rule, facts, u), u \notin Answered, u # Choice
      PROVE  Before(Choice, u)
  <2>1. ~Passed(u)
    BY <1>6 DEF AnswersPassed
  <2> DEFINE D == {i \in DOMAIN rule.body : u[i] # Choice[i]}
  <2>2. D # {} /\ D \subseteq Nat
    BY <1>1, <1>2, <1>6 DEF Combinations
  <2>3. PICK i \in D : \A j \in D : i <= j
    BY <2>2, LeastOf
  <2>4. i \in 1 .. level /\ \A j \in 1 .. i - 1 : u[j] = Choice[j]
    <3>1. i \in 1 .. level
      BY <1>1
    <3>2. ASSUME NEW j \in 1 .. i - 1 PROVE u[j] = Choice[j]
      <4>1. j \in DOMAIN rule.body /\ ~(i <= j)
        BY <1>1, <3>1
      <4>2. QED
        BY <2>3, <4>1
    <3>3. QED
      BY <3>1, <3>2
  <2>5. AgreesBelow(u, i - 1)
    <3>1. \A j \in 1 .. i - 1 : j \in DOMAIN rule.body
      BY <1>1, <2>4
    <3>2. QED
      BY <1>1, <2>4, <3>1 DEF AgreesBelow
  <2>6. ~(u[i] < Choice[i])
    <3>1. i <= level + 1 /\ Choice[i] = frames[i - 1].fact
      BY <1>1, <2>4
    <3>2. QED
      BY <2>1, <2>5, <3>1 DEF Passed, PassedAt
  <2>7. u[i] \in Nat /\ Choice[i] \in Nat /\ u[i] # Choice[i]
    BY <1>2 DEF Combinations, SolverTypeOK
  <2>8. Choice[i] < u[i] /\ i \in DOMAIN Choice
    BY <1>1, <2>6, <2>7
  <2>9. QED
    BY <2>4, <2>8 DEF Before
<1>7. QED
  BY <1>2, <1>3, <1>5, <1>6

LEMMA AnswerExact ==
  ASSUME SolverTypeOK, WalkInv, AnswersPassed(FALSE), Answer
  PROVE  AnswersPassed(TRUE)'
<1>1. /\ level = Len(rule.body) /\ UNCHANGED <<facts, rule, base, level, frames>>
      /\ answers' = Append(answers, Choice)
  BY DEF Answer, Choice
<1>2. Choice \in Combinations /\ IsMatch(rule, facts, Choice)
  BY <1>1, AnswerIsNext
<1>3. Answered' = Answered \cup {Choice}
  <2>1. answers \in Seq(Seq(Nat)) /\ answers' \in Seq(Seq(Nat))
    BY StepTyped DEF SolverStep, SolverTypeOK
  <2>2. /\ DOMAIN answers = 1 .. Len(answers) /\ Len(answers) \in Nat
        /\ DOMAIN answers' = 1 .. Len(answers) + 1
        /\ \A k \in 1 .. Len(answers) : answers'[k] = answers[k]
        /\ answers'[Len(answers) + 1] = Choice
    BY <1>1, <2>1, LenProperties
  <2>3. \A k \in DOMAIN answers' : k \in DOMAIN answers \/ k = Len(answers) + 1
    BY <2>2
  <2>4. Len(answers) + 1 \in DOMAIN answers' /\ \A k \in DOMAIN answers : k \in DOMAIN answers'
    BY <2>2
  <2>5. QED
    BY <2>2, <2>3, <2>4 DEF Answered
<1>4. \A t : Passed(t)' <=> Passed(t)
  BY <1>1, PassedUnmoved
<1>5. Choice' = Choice /\ Combinations' = Combinations
  BY <1>1 DEF Choice, Combinations
<1>6. \A t : IsMatch(rule, facts, t)' <=> IsMatch(rule, facts, t)
  BY <1>1 DEF IsMatch, Explains, States, Ground, Under
<1> DEFINE S == {t \in Combinations : IsMatch(rule, facts, t) /\ Passed(t)}
           T == {t \in Combinations : /\ IsMatch(rule, facts, t)'
                                      /\ Passed(t)' \/ t = Choice'}
<1>7. Answered = S
  BY DEF AnswersPassed
<1>8. T = S \cup {Choice}
  BY <1>2, <1>4, <1>5, <1>6
<1>9. AnswersPassed(TRUE)' <=> Answered' = T
  BY <1>5 DEF AnswersPassed
<1>10. QED
  BY <1>3, <1>7, <1>8, <1>9

\* A turn of the walk keeps the answers exact: the matches passed, no others,
\* and all of them when it is done.
THEOREM StepExact ==
  ASSUME SolverTypeOK, WalkInv, BindsSourced, FewVariables(rule),
         AnswersPassed(FALSE), SolverStep
  PROVE  /\ pc \in {"walk", "unify"}
         /\ pc' \in {"walk", "unify"} => AnswersPassed(FALSE)'
         /\ pc' = "found" => AnswersPassed(TRUE)'
         /\ pc' = "done" => AnswersAll'
<1>0. /\ level \in Nat /\ Len(rule.body) \in Nat /\ level <= Len(rule.body)
      /\ DOMAIN rule.body = 1 .. Len(rule.body) /\ base \in Nat
  BY BodyTyped DEF SolverTypeOK, WalkInv, WithinBounds
<1>1. CASE Answer
  <2>1. pc = "walk" /\ pc' = "found"
    BY <1>1 DEF Answer
  <2>2. QED
    BY <1>1, <2>1, AnswerExact
<1>2. CASE Backtrack
  <2>1. pc = "walk" /\ level < Len(rule.body) /\ ~HasCandidate
        /\ UNCHANGED <<facts, rule, base, answers>>
    BY <1>2 DEF Backtrack, Searching
  <2>2. CASE level = 0
    <3>1. pc' = "done"
      BY <1>2, <2>2 DEF Backtrack
    <3>2. ASSUME NEW t \in Combinations PROVE Passed(t)
      <4>1. 1 \in DOMAIN rule.body /\ 1 <= level + 1 /\ 1 .. 1 - 1 = {}
        BY <1>0, <2>1, <2>2
      <4>2. t[1] \in 1 .. base
        BY <4>1 DEF Combinations
      <4>3. frames[0].fact \in Nat
        BY <1>0, <2>1, <2>2 DEF SolverTypeOK, Frame
      <4>4. t[1] < frames[1 - 1].fact
        BY <1>0, <2>1, <2>2, <4>2, <4>3 DEF HasCandidate
      <4>5. PassedAt(t, 1)
        BY <4>1, <4>4 DEF PassedAt, AgreesBelow
      <4>6. QED
        BY <4>1, <4>5 DEF Passed
    <3>3. QED
      BY <2>1, <3>1, <3>2, AnswersCompleted
  <2>3. CASE level # 0
    <3>1. pc' = "walk" /\ NextCandidate(level - 1)
      BY <1>2, <2>1, <2>3 DEF Backtrack
    <3>2. \A t \in Combinations : Passed(t)' <=> Passed(t)
      BY <2>1, <2>3, <3>1, NextCandidatePasses
    <3>3. AnswersPassed(FALSE)'
      BY <2>1, <3>2, AnswersKept
    <3>4. QED
      BY <2>1, <3>1, <3>3
  <2>4. QED
    BY <2>2, <2>3
<1>3. CASE OutOfSteps
  BY <1>3 DEF OutOfSteps, Searching
<1>4. CASE PassOver
  <2>1. /\ pc = "walk" /\ pc' = "walk" /\ level < Len(rule.body)
        /\ ~(Trusted(Candidate) /\ SameShape(Goal, Candidate))
        /\ frames' = [frames EXCEPT ![level].fact = @ + 1]
        /\ UNCHANGED <<facts, rule, base, level, answers>>
    BY <1>4 DEF PassOver, Searching
  <2>2. \A t \in Combinations : AgreesBelow(t, level + 1) => ~IsMatch(rule, facts, t)
    BY <2>1, PassedOverMatchesNot
  <2>3. QED
    BY <2>1, <2>2, DroppedExact
<1>5. CASE UnifyFails
  <2>1. /\ pc = "unify" /\ pc' = "walk" /\ level < Len(rule.body) /\ Unifying
        /\ frames' = [frames EXCEPT ![level].fact = @ + 1]
        /\ UNCHANGED <<facts, rule, base, level, answers>>
    BY <1>5 DEF UnifyFails, Unifying, WalkInv, UnifyFits
  <2>2. ~(~Compares /\ Len(binds) >= MaxBindings)
    <3>1. ~Compares => Len(binds) < MaxBindings
      BY <2>1, SlotLeft
    <3>2. Len(binds) \in Nat
      BY LenProperties DEF SolverTypeOK
    <3>3. QED
      BY <3>1, <3>2
  <2>3. Compares /\ Expected # Given
    BY <1>5, <2>2 DEF UnifyFails
  <2>4. \A t \in Combinations : AgreesBelow(t, level + 1) => ~IsMatch(rule, facts, t)
    BY <2>1, <2>3, DifferenceMatchesNot
  <2>5. QED
    BY <2>1, <2>4, DroppedExact
<1>6. CASE Try \/ ArgumentAgrees \/ BindVariable
  <2>1. /\ pc \in {"walk", "unify"} /\ pc' = "unify"
        /\ UNCHANGED <<facts, rule, base, level, frames, answers>>
    BY <1>6 DEF Try, Searching, ArgumentAgrees, BindVariable, Unifying
  <2>2. \A t : Passed(t)' <=> Passed(t)
    BY <2>1, PassedUnmoved
  <2>3. AnswersPassed(FALSE)'
    BY <2>1, <2>2, AnswersKept
  <2>4. QED
    BY <2>1, <2>3
<1>7. CASE Choose
  <2>1. pc = "unify" /\ pc' = "walk"
    BY <1>7 DEF Choose
  <2>2. QED
    BY <1>7, <2>1, ChooseExact
<1>8. QED
  BY <1>1, <1>2, <1>3, <1>4, <1>5, <1>6, <1>7 DEF SolverStep

\* So does a call for the next answer: it passes the one it leaves.
THEOREM AskExact ==
  ASSUME SolverTypeOK, WalkInv, level = Len(rule.body), AnswersPassed(TRUE), AskAgain
  PROVE  /\ pc' = "walk" => AnswersPassed(FALSE)'
         /\ pc' = "done" => AnswersAll'
         /\ pc' \in {"walk", "done"}
<1>1. level \in Nat /\ DOMAIN rule.body = 1 .. level /\ UNCHANGED <<facts, rule, base, answers>>
  BY BodyTyped DEF SolverTypeOK, AskAgain
<1>2. CASE level = 0
  <2>1. pc' = "done"
    BY <1>2 DEF AskAgain
  <2>2. ASSUME NEW t \in Combinations PROVE t = Choice
    <3>1. AgreesBelow(t, level)
      BY <1>2 DEF AgreesBelow
    <3>2. QED
      BY <3>1, ChoiceAgrees
  <2>3. QED
    BY <1>1, <2>1, <2>2, AnswersCompleted
<1>3. CASE level # 0
  <2>1. pc' = "walk" /\ NextCandidate(level - 1)
    BY <1>3 DEF AskAgain
  <2>2. \A t \in Combinations : Passed(t)' <=> Passed(t) \/ t = Choice
    BY <1>1, <1>3, <2>1, NextCandidatePasses
  <2>3. AnswersPassed(FALSE)'
    BY <1>1, <2>2, AnswersKept
  <2>4. QED
    BY <2>1, <2>3
<1>4. QED
  BY <1>2, <1>3

\* A walk begins with no answer, no binding and nothing passed.
LEMMA WalkBeginsExact ==
  ASSUME SolverTypeOK, level = 0, binds = <<>>, answers = <<>>, frames[0].fact = 1,
         frames[0].bind_mark = 0, pc = "walk"
  PROVE  BindsSourced /\ AnswersPassed(FALSE)
<1>1. DOMAIN rule.body = 1 .. Len(rule.body) /\ Len(rule.body) \in Nat /\ base \in Nat
  BY BodyTyped DEF SolverTypeOK
<1>2. BindsSourced
  <2>1. \A l \in 0 .. level : l = 0
    OBVIOUS
  <2>2. 1 .. frames[0].bind_mark = {}
    OBVIOUS
  <2>3. QED
    BY <2>1, <2>2 DEF BindsSourced
<1>3. Answered = {}
  BY DEF Answered
<1>4. ASSUME NEW t \in Combinations PROVE ~Passed(t)
  <2> SUFFICES ASSUME NEW i \in DOMAIN rule.body, i <= level + 1, PassedAt(t, i) PROVE FALSE
    BY DEF Passed
  <2>1. i = 1 /\ 1 - 1 = 0
    BY <1>1
  <2>2. t[1] < 1
    BY <2>1 DEF PassedAt
  <2>3. t[1] \in 1 .. base
    BY <2>1 DEF Combinations
  <2>4. QED
    BY <1>1, <2>2, <2>3
<1>5. QED
  BY <1>2, <1>3, <1>4 DEF AnswersPassed
=============================================================================
