------------------------------ MODULE BsSolver ------------------------------
(***************************************************************************)
(* The backtracking walk of 130_engine.inc (bs_solver_init, bs_unify,      *)
(* bs_solver_next): which combinations of facts match a rule body, found   *)
(* one at a time by a resumable machine with one frame per body position.  *)
(*                                                                         *)
(* One action is one turn of one of the three loops: the walk itself, the  *)
(* scan of candidates at a level, and bs_unify's pass over the arguments.  *)
(* Positions in facts and in predicates count from 1, frames from 0.       *)
(*                                                                         *)
(* The modules that call the walk extend this one: BsWalk, which walks one *)
(* body and asks for every answer, and BsEngine.                           *)
(***************************************************************************)
EXTENDS BsDatalog, FiniteSets

CONSTANTS MaxBody,       \* BS_MAX_BODY
          MaxBindings    \* BS_MAX_BINDINGS

ASSUME SolverAssumption == /\ MaxBody \in Nat \ {0}
                           /\ MaxBindings \in Nat

VARIABLES
  facts,    \* bs_world.facts[0 .. fact_count-1]
  steps,    \* bs_world.steps, the work budget left
  rule,     \* the rule or query being matched
  base,     \* bs_solver.base_facts
  level,    \* bs_solver.level
  frames,   \* bs_solver.frames
  binds,    \* bs_solver.binds[0 .. bind_count-1]
  mark,     \* bs_solver_next's local: bind_count before this candidate
  arg,      \* bs_unify's local i
  answers,  \* history: the answers this walk has given
  pc        \* where the walk is; a caller's modules add their own places

solverVars == <<rule, base, level, frames, binds, mark, arg, answers>>
walkVars == <<facts, steps, solverVars, pc>>

Frame == [fact : Nat, bind_mark : Nat, origin : Origin]
Binding == [sym : Var, value : Term]

\* "walk": in bs_solver_next.  "unify": in bs_unify.  "found": suspended on
\* an answer.  "done": no answer left.  "limit": BS_ERR_LIMIT.
WalkPlaces == {"walk", "unify", "found", "done", "limit"}

\* A loop that charges saturates at zero (bs_spend).
Spend(n) == IF steps > n THEN steps - n ELSE 0

-----------------------------------------------------------------------------
(* Bindings.                                                               *)

IsBound(sym, b) == \E k \in DOMAIN b : b[k].sym = sym

\* The first entry wins, as in the loop.
ValueOf(sym, b) == b[CHOOSE k \in DOMAIN b :
                       /\ b[k].sym = sym
                       /\ \A j \in 1 .. k-1 : b[j].sym # sym].value

-----------------------------------------------------------------------------
(* What the walk is looking at.                                            *)

\* A slip: one trusted block is enough to trust the fact.
TrustedInPart(f) == f.origin \cap rule.trust # {}

Trusted(f) == f.origin \subseteq rule.trust

RuleOrigin == {rule.block}

Goal == rule.body[level + 1]
Candidate == facts[frames[level].fact]
Pattern == Goal.terms[arg]
Given == Candidate.terms[arg]

SameShape(p, f) == p.name = f.name /\ Len(p.terms) = Len(f.terms)

\* A constant is compared with the fact's term, and so is a bound variable.
Compares == Pattern \notin Var \/ IsBound(Pattern, binds)
Expected == IF Pattern \in Var THEN ValueOf(Pattern, binds) ELSE Pattern

PriorOrigin == IF level = 0 THEN RuleOrigin ELSE frames[level - 1].origin

-----------------------------------------------------------------------------
(* The walk.                                                               *)

NoFrame == [fact |-> 0, bind_mark |-> 0, origin |-> {}]

\* A slip: the bindings of the last walk are still there.
BeginWalkBound(r) ==
  IF Len(r.body) > MaxBody
  THEN pc' = "limit" /\ UNCHANGED solverVars
  ELSE /\ pc' = "walk"
       /\ rule' = r
       /\ base' = Len(facts)
       /\ level' = 0
       /\ frames' = [frames EXCEPT ![0] =
            [fact |-> 1, bind_mark |-> 0, origin |-> {r.block}]]
       /\ mark' = 0
       /\ arg' = 1
       /\ answers' = <<>>
       /\ UNCHANGED binds

\* bs_solver_init.  The frames above the first keep what an earlier walk left.
BeginWalk(r) ==
  IF Len(r.body) > MaxBody
  THEN pc' = "limit" /\ UNCHANGED solverVars
  ELSE /\ pc' = "walk"
       /\ rule' = r
       /\ base' = Len(facts)
       /\ level' = 0
       /\ binds' = <<>>
       /\ frames' = [frames EXCEPT ![0] =
            [fact |-> 1, bind_mark |-> 0, origin |-> {r.block}]]
       /\ mark' = 0
       /\ arg' = 1
       /\ answers' = <<>>

\* A slip: the bindings of the level given up stay.
NextCandidateLeak(l) ==
  /\ level' = l
  /\ frames' = [frames EXCEPT ![l].fact = @ + 1]
  /\ UNCHANGED binds

\* Give up the choice made at level l and move to its next candidate.
NextCandidate(l) ==
  /\ level' = l
  /\ binds' = SubSeq(binds, 1, frames[l].bind_mark)
  /\ frames' = [frames EXCEPT ![l].fact = @ + 1]

\* Every body predicate has its fact: an answer.
Answer ==
  /\ pc = "walk"
  /\ level = Len(rule.body)
  /\ pc' = "found"
  /\ answers' = Append(answers, [i \in DOMAIN rule.body |-> frames[i-1].fact])
  /\ UNCHANGED <<facts, steps, rule, base, level, frames, binds, mark, arg>>

\* The next call of bs_solver_next undoes the last answer's final choice.
AskAgain ==
  /\ IF level = 0
     THEN pc' = "done" /\ UNCHANGED <<level, frames, binds>>
     ELSE pc' = "walk" /\ NextCandidate(level - 1)
  /\ UNCHANGED <<facts, steps, rule, base, mark, arg, answers>>

Searching == pc = "walk" /\ level < Len(rule.body)
HasCandidate == frames[level].fact <= base

\* No candidate is left here: go back to the previous body predicate.
Backtrack ==
  /\ Searching /\ ~HasCandidate
  /\ IF level = 0
     THEN pc' = "done" /\ UNCHANGED <<level, frames, binds>>
     ELSE NextCandidate(level - 1) /\ UNCHANGED pc
  /\ UNCHANGED <<facts, steps, rule, base, mark, arg, answers>>

OutOfSteps ==
  /\ Searching /\ HasCandidate
  /\ steps = 0
  /\ pc' = "limit"
  /\ UNCHANGED <<facts, steps, solverVars>>

\* Two slips: a candidate that is passed over is not charged for, or is met
\* again.
PassOverFree ==
  /\ Searching /\ HasCandidate
  /\ steps > 0
  /\ ~(Trusted(Candidate) /\ SameShape(Goal, Candidate))
  /\ frames' = [frames EXCEPT ![level].fact = @ + 1]
  /\ UNCHANGED <<facts, steps, rule, base, level, binds, mark, arg, answers, pc>>

PassOverStays ==
  /\ Searching /\ HasCandidate
  /\ steps > 0
  /\ ~(Trusted(Candidate) /\ SameShape(Goal, Candidate))
  /\ UNCHANGED walkVars

\* A candidate the rule does not trust, or of another name or arity, is
\* passed over; it has cost its step.
PassOver ==
  /\ Searching /\ HasCandidate
  /\ steps > 0
  /\ ~(Trusted(Candidate) /\ SameShape(Goal, Candidate))
  /\ steps' = steps - 1
  /\ frames' = [frames EXCEPT ![level].fact = @ + 1]
  /\ UNCHANGED <<facts, rule, base, level, binds, mark, arg, answers, pc>>

Try ==
  /\ Searching /\ HasCandidate
  /\ steps > 0
  /\ Trusted(Candidate) /\ SameShape(Goal, Candidate)
  /\ steps' = steps - 1
  /\ mark' = Len(binds)
  /\ arg' = 1
  /\ pc' = "unify"
  /\ UNCHANGED <<facts, rule, base, level, frames, binds, answers>>

Unifying == pc = "unify" /\ arg <= Len(Goal.terms)

ArgumentAgrees ==
  /\ Unifying
  /\ Compares /\ Expected = Given
  /\ steps' = Spend(1)
  /\ arg' = arg + 1
  /\ UNCHANGED <<facts, rule, base, level, frames, binds, mark, answers, pc>>

BindVariable ==
  /\ Unifying
  /\ ~Compares /\ Len(binds) < MaxBindings
  /\ binds' = Append(binds, [sym |-> Pattern, value |-> Given])
  /\ arg' = arg + 1
  /\ UNCHANGED <<facts, steps, rule, base, level, frames, mark, answers, pc>>

\* A difference, or no slot left for a new variable: undo this candidate's
\* bindings and move on.
UnifyFails ==
  /\ Unifying
  /\ \/ Compares /\ Expected # Given /\ steps' = Spend(1)
     \/ ~Compares /\ Len(binds) >= MaxBindings /\ UNCHANGED steps
  /\ binds' = SubSeq(binds, 1, mark)
  /\ frames' = [frames EXCEPT ![level].fact = @ + 1]
  /\ pc' = "walk"
  /\ UNCHANGED <<facts, rule, base, level, mark, arg, answers>>

\* A slip: the next level goes on from where it last was.
ChooseKeepsPlace ==
  /\ pc = "unify" /\ arg > Len(Goal.terms)
  /\ level' = level + 1
  /\ frames' = [l \in DOMAIN frames |->
       IF l = level
       THEN [frames[l] EXCEPT !.bind_mark = mark,
                              !.origin = PriorOrigin \cup Candidate.origin]
       ELSE IF l = level + 1 /\ level + 1 < Len(rule.body)
            THEN [frames[l] EXCEPT !.bind_mark = Len(binds),
                                   !.fact = IF @ = 0 THEN 1 ELSE @]
            ELSE frames[l]]
  /\ pc' = "walk"
  /\ UNCHANGED <<facts, steps, rule, base, binds, mark, arg, answers>>

\* The candidate fits: record the choice and open the next level.
Choose ==
  LET chosen == [frames EXCEPT
                   ![level].bind_mark = mark,
                   ![level].origin = PriorOrigin \cup Candidate.origin]
  IN  /\ pc = "unify" /\ arg > Len(Goal.terms)
      /\ level' = level + 1
      /\ frames' = IF level + 1 < Len(rule.body)
                   THEN [chosen EXCEPT ![level + 1].fact = 1,
                                       ![level + 1].bind_mark = Len(binds)]
                   ELSE chosen
      /\ pc' = "walk"
      /\ UNCHANGED <<facts, steps, rule, base, binds, mark, arg, answers>>

\* One turn inside bs_solver_next: everything but the caller's own decision
\* to ask for another answer.
SolverStep == \/ Answer \/ Backtrack \/ OutOfSteps \/ PassOver \/ Try
              \/ ArgumentAgrees \/ BindVariable \/ UnifyFails \/ Choose

\* A slip: the origin of the first body predicate alone.
SolverOriginFirst == IF Len(rule.body) = 0 THEN RuleOrigin ELSE frames[0].origin

\* bs_solver_origin: the origin of the answer the solver is sitting on.
SolverOrigin == IF Len(rule.body) = 0 THEN RuleOrigin
                ELSE frames[Len(rule.body) - 1].origin

-----------------------------------------------------------------------------
(* Types.                                                                  *)

SolverTypeOK ==
  /\ facts \in Seq(Fact)
  /\ steps \in Nat
  /\ rule \in Rule
  /\ base \in Nat
  /\ level \in 0 .. MaxBody
  /\ frames \in [0 .. MaxBody-1 -> Frame]
  /\ binds \in Seq(Binding)
  /\ mark \in Nat
  /\ arg \in Nat \ {0}
  /\ answers \in Seq(Seq(Nat))

-----------------------------------------------------------------------------
(* What the walk knows at every moment.                                    *)

\* Among the first n bindings, argument i of body predicate l+1 agrees with
\* the fact chosen at level l.
ArgFits(l, i, n) ==
  LET pt == rule.body[l + 1].terms[i]
      ft == facts[frames[l].fact].terms[i]
  IN  IF pt \in Var
      THEN \E k \in 1 .. n : binds[k] = [sym |-> pt, value |-> ft]
      ELSE pt = ft

Chosen(l) ==
  /\ frames[l].fact \in 1 .. base
  /\ Trusted(facts[frames[l].fact])
  /\ SameShape(rule.body[l + 1], facts[frames[l].fact])

\* How many bindings the levels up to l had made.
BindsAfter(l) == IF l + 1 < Len(rule.body) THEN frames[l + 1].bind_mark
                                           ELSE Len(binds)

OriginThrough(l) ==
  RuleOrigin \cup UNION {facts[frames[k].fact].origin : k \in 0 .. l}

LevelFits(l) ==
  /\ Chosen(l)
  /\ \A i \in 1 .. Len(rule.body[l + 1].terms) : ArgFits(l, i, BindsAfter(l))
  /\ frames[l].origin = OriginThrough(l)

\* A level's mark is where the level below left the bindings, so truncating
\* to it undoes this level and no other.
MarksNest ==
  /\ \A l, m \in 0 .. level : l <= m /\ m < Len(rule.body) =>
       frames[l].bind_mark <= frames[m].bind_mark
  /\ \A l \in 0 .. level : l < Len(rule.body) =>
       frames[l].bind_mark <= Len(binds)
  /\ pc = "walk" /\ level < Len(rule.body) =>
       Len(binds) = frames[level].bind_mark
  /\ pc = "unify" => mark = frames[level].bind_mark

BindsDistinct ==
  \A j, k \in DOMAIN binds : binds[j].sym = binds[k].sym => j = k

WithinBounds ==
  /\ Len(rule.body) <= MaxBody
  /\ level <= Len(rule.body)
  /\ base <= Len(facts)
  /\ Len(binds) <= MaxBindings
  /\ level < Len(rule.body) => frames[level].fact \in 1 .. base + 1

UnifyFits ==
  pc = "unify" =>
    /\ level < Len(rule.body)
    /\ Chosen(level)
    /\ arg <= Len(Goal.terms) + 1
    /\ \A i \in 1 .. arg - 1 : ArgFits(level, i, Len(binds))

\* The inductive invariant of the walk.
WalkInv ==
  /\ WithinBounds
  /\ MarksNest
  /\ BindsDistinct
  /\ \A l \in 0 .. level - 1 : LevelFits(l)
  /\ UnifyFits
  /\ pc = "found" => level = Len(rule.body)

-----------------------------------------------------------------------------
(* What a caller relies on.                                                *)

\* The bindings as a substitution; a variable with none stands for itself.
Substitution ==
  [v \in Var |-> IF IsBound(v, binds) THEN ValueOf(v, binds) ELSE v]

Choice == [i \in DOMAIN rule.body |-> frames[i - 1].fact]

\* What a solver sitting on an answer must have: facts the rule trusts whole,
\* bindings that turn the body into exactly those facts and bind every
\* variable of it, and for origin the rule's block and every block those
\* facts came from.
AnswerSound ==
  /\ Explains(rule, facts, Choice, Substitution)
  /\ \A i \in DOMAIN rule.body : \A j \in DOMAIN rule.body[i].terms :
       rule.body[i].terms[j] \in Var => IsBound(rule.body[i].terms[j], binds)
  /\ SolverOrigin = OriginOf(rule, facts, Choice)

-----------------------------------------------------------------------------
(* What the walk has done so far: which combinations of facts are behind   *)
(* it, and that its answers are the matches among those.                   *)

VarsOf(r) == {v \in Var : \E i \in DOMAIN r.body :
                            \E j \in DOMAIN r.body[i].terms : r.body[i].terms[j] = v}

\* The body names no more variables than bs_solver.binds has slots: past
\* that, bs_unify says "no match" of facts that do.
FewVariables(r) == Cardinality(VarsOf(r)) <= MaxBindings

\* A fact for each body predicate, from the facts there were at the start.
Combinations == [DOMAIN rule.body -> 1 .. base]

AgreesBelow(t, l) == \A j \in 1 .. l : t[j] = frames[j - 1].fact

\* In the order of nested loops t comes before the frames, which differ from
\* it first at t's place i.
PassedAt(t, i) == t[i] < frames[i - 1].fact /\ AgreesBelow(t, i - 1)

Passed(t) == \E i \in DOMAIN rule.body : i <= level + 1 /\ PassedAt(t, i)

Answered == {answers[k] : k \in DOMAIN answers}

\* The answers are the matches the walk has passed and, where it sits on
\* one, the choice it sits on.
AnswersPassed(sitting) ==
  Answered = {t \in Combinations : /\ IsMatch(rule, facts, t)
                                   /\ Passed(t) \/ (sitting /\ t = Choice)}

AnswersAll == Answered = {t \in Combinations : IsMatch(rule, facts, t)}

\* Binding k is what the fact chosen at some level below l made it.
Sourced(k, l) ==
  \E m \in 0 .. l - 1 : \E i \in DOMAIN rule.body[m + 1].terms :
    binds[k] = [sym   |-> rule.body[m + 1].terms[i],
                value |-> facts[frames[m].fact].terms[i]]

\* No binding is left over from a choice that was undone.
BindsSourced ==
  /\ \A l \in 0 .. level : l < Len(rule.body) =>
       \A k \in 1 .. frames[l].bind_mark : Sourced(k, l)
  /\ pc = "unify" => \A k \in DOMAIN binds : Sourced(k, level + 1)
  /\ level = Len(rule.body) => \A k \in DOMAIN binds : Sourced(k, level)
=============================================================================
