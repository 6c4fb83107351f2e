------------------------------ MODULE BsEngine ------------------------------
(***************************************************************************)
(* The fixpoint of 130_engine.inc (bs_world_run, bs_world_run_with,        *)
(* bs_rule_apply, bs_head_instantiate, bs_fact_same) over the walk of      *)
(* BsSolver: rounds over the rules, the expressions every answer must      *)
(* satisfy, the fact its head states, the scan for one already known, and  *)
(* the limits a run can meet on the way.                                   *)
(*                                                                         *)
(* The pools of a world are sequences; of the term pool only how much of   *)
(* it derived facts use is kept.                                           *)
(***************************************************************************)
EXTENDS BsSolver

CONSTANTS Worlds,        \* the loaded worlds: facts, rules, budget, rounds
          FactCap,       \* bs_world.fact_cap
          TermCap,       \* the room loading left in the term pool
          DefaultRounds, \* bs_limits_default().max_iterations
          MaxRuns        \* how often the host runs one world, at most

World == [facts : Seq(Fact), rules : Seq(Rule), checks : Seq(Check),
          policies : Seq(Policy), steps : Nat, rounds : Nat]

ASSUME EngineAssumption ==
  /\ Name # {}
  /\ Worlds \subseteq World
  /\ FactCap \in Nat /\ TermCap \in Nat
  /\ DefaultRounds \in Nat \ {0}
  /\ MaxRuns \in Nat

VARIABLES
  world,      \* the world as it was loaded
  terms,      \* terms the derived facts take up
  round,      \* bs_world_run_with's round
  next,       \* and i, its place among the rules
  produced,   \* facts this round has added
  test,       \* bs_solver_expressions' k
  candidate,  \* bs_rule_apply's candidate
  scan,       \* and i, its place among the facts
  status,     \* what the run returned, "none" while it goes on
  runs        \* how many runs the host has asked for

runVars == <<round, next, produced, runs>>
answerVars == <<test, candidate, scan>>
engineVars == <<walkVars, world, terms, runVars, answerVars, status>>

\* "next": between rules.  "test": an answer's
\* expressions.  "dup": the scan for the same fact.  "again": back to the
\* solver.  "ran": no run is going on.
EnginePlaces == WalkPlaces \cup {"next", "test", "dup", "again", "ran"}

\* The solver before its first walk; its memory is the arena's.
NoPredicate == [name |-> CHOOSE n \in Name : TRUE, terms |-> <<>>]
NoRule == [head |-> NoPredicate, is_query |-> TRUE, body |-> <<>>,
           expr |-> <<>>, trust |-> {}, block |-> 0]
NoFact == [name |-> NoPredicate.name, terms |-> <<>>, origin |-> {}]

\* max_iterations, where 0 stands for the default.
Rounds == IF world.rounds = 0 THEN DefaultRounds ELSE world.rounds

EngineStart ==
  /\ world \in Worlds
  /\ facts = world.facts
  /\ steps = world.steps
  /\ rule = NoRule /\ base = 0 /\ level = 0 /\ binds = <<>>
  /\ frames = [l \in 0 .. MaxBody-1 |-> NoFrame]
  /\ mark = 0 /\ arg = 1 /\ answers = <<>>
  /\ terms = 0
  /\ round = 0 /\ next = 1 /\ produced = 0
  /\ test = 1 /\ candidate = NoFact /\ scan = 1
  /\ status = "none" /\ runs = 0

Stop(code) == pc' = "ran" /\ status' = code

-----------------------------------------------------------------------------
(* Rounds.                                                                 *)

\* bs_world_run, which a host may call again on the same world: what the
\* last run derived and spent stays so.  The arena has room for a solver, or
\* not.
Run ==
  /\ pc = "ran" /\ runs < MaxRuns
  /\ runs' = runs + 1
  /\ round' = 0 /\ next' = 1 /\ produced' = 0
  /\ \/ pc' = "next" /\ status' = "none"
     \/ Stop("NOMEM")
  /\ UNCHANGED <<facts, steps, solverVars, world, terms, answerVars>>

\* A slip: the loop over the rules stays at a query.
SkipQueryStays ==
  /\ pc = "next" /\ next <= Len(world.rules)
  /\ world.rules[next].is_query
  /\ UNCHANGED engineVars

SkipQuery ==
  /\ pc = "next" /\ next <= Len(world.rules)
  /\ world.rules[next].is_query
  /\ next' = next + 1
  /\ UNCHANGED <<walkVars, world, terms, round, produced, answerVars, status, runs>>

ApplyRule ==
  /\ pc = "next" /\ next <= Len(world.rules)
  /\ ~world.rules[next].is_query
  /\ BeginWalk(world.rules[next])
  /\ next' = next + 1
  /\ UNCHANGED <<facts, steps, world, terms, round, produced, answerVars, status, runs>>

RuleDone ==
  /\ pc = "done"
  /\ pc' = "next"
  /\ UNCHANGED <<facts, steps, solverVars, world, terms, runVars, answerVars, status>>

\* A slip: the last round allowed is taken for the fixpoint.
EndRoundCalm ==
  /\ pc = "next" /\ next > Len(world.rules)
  /\ \/ produced = 0 /\ Stop("OK") /\ UNCHANGED runVars
     \/ produced > 0 /\ round + 1 = Rounds /\ Stop("OK") /\ UNCHANGED runVars
     \/ /\ produced > 0 /\ round + 1 < Rounds
        /\ round' = round + 1 /\ next' = 1 /\ produced' = 0
        /\ UNCHANGED <<pc, status, runs>>
  /\ UNCHANGED <<facts, steps, solverVars, world, terms, answerVars>>

\* A round that added nothing is the last; so is the last one allowed.
EndRound ==
  /\ pc = "next" /\ next > Len(world.rules)
  /\ \/ produced = 0 /\ Stop("OK") /\ UNCHANGED runVars
     \/ produced > 0 /\ round + 1 = Rounds /\ Stop("LIMIT") /\ UNCHANGED runVars
     \/ /\ produced > 0 /\ round + 1 < Rounds
        /\ round' = round + 1 /\ next' = 1 /\ produced' = 0
        /\ UNCHANGED <<pc, status, runs>>
  /\ UNCHANGED <<facts, steps, solverVars, world, terms, answerVars>>

\* The walk, or the body it was given, met a limit.
WalkLimit ==
  /\ pc = "limit"
  /\ Stop("LIMIT")
  /\ UNCHANGED <<facts, steps, solverVars, world, terms, runVars, answerVars>>

-----------------------------------------------------------------------------
(* An answer's expressions (bs_solver_expressions, bs_expr_evaluate).      *)

Missing(t) == t \in Var /\ ~IsBound(t, binds)
Resolved(t) == IF t \in Var THEN ValueOf(t, binds) ELSE t

Evaluable(e) == ~Missing(e.left) /\ ~Missing(e.right)

\* Equality is strict: it fails on operands of two types, and a variable a
\* fact states is of a type of its own.
Clashes(e) == \/ e.op = "overflow"
              \/ (Resolved(e.left) \in Var) # (Resolved(e.right) \in Var)

Breaks(e) == Evaluable(e) => Clashes(e)

\* Steps up to where it breaks: each operand, the operator, the comparison
\* and the end of the expression are one each.
TestCost(e) == IF Missing(e.left) THEN 1
               ELSE IF Missing(e.right) THEN 2
               ELSE IF Clashes(e) THEN 3 ELSE 5

Passes(e) == (Resolved(e.left) = Resolved(e.right)) <=> (e.op = "equal")

Consider ==
  /\ pc = "found"
  /\ pc' = "test" /\ test' = 1
  /\ UNCHANGED <<facts, steps, solverVars, world, terms, runVars,
                 candidate, scan, status>>

Testing == pc = "test" /\ test <= Len(rule.expr)

\* The machine stops when a step it takes is the last of the budget.
TestLimit ==
  /\ Testing /\ steps <= TestCost(rule.expr[test])
  /\ steps' = 0
  /\ Stop("LIMIT")
  /\ UNCHANGED <<facts, solverVars, world, terms, runVars, answerVars>>

\* An expression that fails is a failure of the whole run, not of the match.
TestBreaks ==
  /\ Testing /\ steps > TestCost(rule.expr[test])
  /\ Breaks(rule.expr[test])
  /\ steps' = Spend(TestCost(rule.expr[test]))
  /\ Stop("ERROR")
  /\ UNCHANGED <<facts, solverVars, world, terms, runVars, answerVars>>

TestDecides ==
  /\ Testing /\ steps > TestCost(rule.expr[test])
  /\ ~Breaks(rule.expr[test])
  /\ steps' = Spend(TestCost(rule.expr[test]))
  /\ IF Passes(rule.expr[test]) THEN test' = test + 1 /\ UNCHANGED pc
                                ELSE pc' = "again" /\ UNCHANGED test
  /\ UNCHANGED <<facts, solverVars, world, terms, runVars, candidate, scan, status>>

\* The solver goes on from the answer just dealt with.
NextAnswer ==
  /\ pc = "again"
  /\ AskAgain
  /\ UNCHANGED <<world, terms, runVars, answerVars, status>>

-----------------------------------------------------------------------------
(* The fact an answer derives.                                             *)

Instantiating == pc = "test" /\ test > Len(rule.expr)
Room == terms + Len(rule.head.terms) <= TermCap
Hole == \E i \in DOMAIN rule.head.terms : Missing(rule.head.terms[i])

\* The head under the answer's bindings, from what the answer came from.
Instance == [name |-> rule.head.name,
             terms |-> [i \in DOMAIN rule.head.terms |-> Resolved(rule.head.terms[i])],
             origin |-> SolverOrigin]

\* bs_head_instantiate.
Instantiate ==
  /\ Instantiating /\ Room /\ ~Hole
  /\ candidate' = Instance
  /\ terms' = terms + Len(rule.head.terms)
  /\ scan' = 1
  /\ pc' = "dup"
  /\ UNCHANGED <<facts, steps, solverVars, world, runVars, test, status>>

NoTermLeft ==
  /\ Instantiating /\ ~Room
  /\ Stop("NOMEM")
  /\ UNCHANGED <<facts, steps, solverVars, world, terms, runVars, answerVars>>

HeadUnbound ==
  /\ Instantiating /\ Room /\ Hole
  /\ terms' = terms + Len(rule.head.terms)
  /\ Stop("UNBOUND")
  /\ UNCHANGED <<facts, steps, solverVars, world, runVars, answerVars>>

\* A slip: the same sentence counts as the same fact, wherever it came from.
SameSentence(f, g) == SameShape(f, g) /\ f.terms = g.terms

\* bs_fact_same, and the term comparisons it pays for.
Same(f, g) == f = g

FirstDifference(f, g) == CHOOSE i \in DOMAIN f.terms :
                           /\ f.terms[i] # g.terms[i]
                           /\ \A j \in 1 .. i-1 : f.terms[j] = g.terms[j]

Compared(f, g) == IF ~SameShape(f, g) \/ f.origin # g.origin THEN 0
                  ELSE IF f.terms = g.terms THEN Len(f.terms)
                  ELSE FirstDifference(f, g)

Scanning == pc = "dup" /\ scan <= Len(facts)

ScanOn ==
  /\ Scanning /\ ~Same(facts[scan], candidate)
  /\ steps' = Spend(1 + Compared(facts[scan], candidate))
  /\ scan' = scan + 1
  /\ UNCHANGED <<facts, solverVars, pc, world, terms, runVars, test, candidate, status>>

\* A slip: the terms of a fact already known stay reserved.
KnownLeaks ==
  /\ Scanning /\ Same(facts[scan], candidate)
  /\ steps' = Spend(1 + Compared(facts[scan], candidate))
  /\ IF steps' = 0 THEN Stop("LIMIT") ELSE pc' = "again" /\ UNCHANGED status
  /\ UNCHANGED <<facts, solverVars, world, terms, runVars, answerVars>>

\* Already known: the terms go back, unless the budget ended with the scan.
Known ==
  /\ Scanning /\ Same(facts[scan], candidate)
  /\ steps' = Spend(1 + Compared(facts[scan], candidate))
  /\ IF steps' = 0
     THEN Stop("LIMIT") /\ UNCHANGED terms
     ELSE /\ pc' = "again" /\ UNCHANGED status
          /\ terms' = terms - Len(candidate.terms)
  /\ UNCHANGED <<facts, solverVars, world, runVars, answerVars>>

Scanned == pc = "dup" /\ scan > Len(facts)

Learn ==
  /\ Scanned /\ steps > 0 /\ Len(facts) < FactCap
  /\ facts' = Append(facts, candidate)
  /\ produced' = produced + 1
  /\ pc' = "again"
  /\ UNCHANGED <<steps, solverVars, world, terms, round, next, answerVars, status, runs>>

\* The budget ended with the scan, or there is no room for the fact.
CannotLearn ==
  /\ Scanned
  /\ \/ steps = 0 /\ Stop("LIMIT")
     \/ steps > 0 /\ Len(facts) >= FactCap /\ Stop("NOMEM")
  /\ UNCHANGED <<facts, steps, solverVars, world, terms, runVars, answerVars>>

-----------------------------------------------------------------------------

\* A turn of the walk leaves the run alone.
WalkOn == SolverStep /\ UNCHANGED <<world, terms, runVars, answerVars, status>>

\* What bs_world_run_with does once it has a solver.
RunStep == \/ SkipQuery \/ ApplyRule \/ RuleDone \/ EndRound \/ WalkLimit
           \/ WalkOn \/ Consider \/ TestLimit \/ TestBreaks \/ TestDecides
           \/ NextAnswer \/ Instantiate \/ NoTermLeft \/ HeadUnbound
           \/ ScanOn \/ Known \/ Learn \/ CannotLearn

Ran == pc = "ran" /\ UNCHANGED engineVars

EngineInit == EngineStart /\ pc = "ran"
EngineNext == Run \/ RunStep \/ Ran

\* Nothing else runs while bs_world_run does; the host need not call it.
EngineSpec == EngineInit /\ [][EngineNext]_engineVars /\ WF_engineVars(RunStep)

-----------------------------------------------------------------------------
(* Types, and what the run knows at every moment.                          *)

\* Every variable of the run has its type.
RunTypeOK ==
  /\ world \in World
  /\ terms \in 0 .. TermCap
  /\ round \in Nat /\ next \in Nat \ {0} /\ produced \in Nat
  /\ test \in Nat \ {0} /\ candidate \in Fact /\ scan \in Nat \ {0}
  /\ status \in {"none", "OK", "LIMIT", "NOMEM", "ERROR", "UNBOUND"}
  /\ runs \in 0 .. MaxRuns

EngineTypeOK == SolverTypeOK /\ RunTypeOK /\ pc \in EnginePlaces

Loaded == Len(world.facts)

\* The facts grow at their end alone, past the loaded ones.
FactsGrow ==
  /\ Loaded <= Len(facts)
  /\ \A k \in 1 .. Loaded : facts[k] = world.facts[k]

\* A place where the solver is sitting on an answer.
AtAnswer == pc \in {"found", "test", "dup", "again"}

\* The rule being applied, and how far its answer has come.
Applying ==
  /\ AtAnswer \/ pc \in {"walk", "unify"} =>
       \E n \in DOMAIN world.rules : rule = world.rules[n] /\ ~rule.is_query
  /\ AtAnswer => level = Len(rule.body)
  /\ pc = "test" => \A k \in 1 .. test - 1 :
                      k <= Len(rule.expr) /\ Holds(rule.expr[k], Substitution)

\* A fact the rules conclude from the facts fs.
Concluded(f, fs) ==
  \E n \in DOMAIN world.rules : /\ ~world.rules[n].is_query
                                /\ f \in Consequences(world.rules[n], fs)

Candidacy ==
  pc = "dup" => /\ Concluded(candidate, facts)
                /\ scan <= Len(facts) + 1
                /\ \A k \in 1 .. scan - 1 : facts[k] # candidate
                /\ Len(candidate.terms) <= terms

\* The inductive invariant of a run.
EngineInv == WalkInv /\ FactsGrow /\ Applying /\ Candidacy

\* What a rule concludes from the facts is among them.
AllKnown(r) ==
  \A f \in Consequences(r, facts) : \E k \in DOMAIN facts : facts[k] = f

\* What a match of the rule being applied concludes is among the facts.
ConclusionsKnown(t) ==
  \A s \in [Var -> Term] :
    /\ Explains(rule, facts, t, s)
    /\ \A k \in DOMAIN rule.expr : Holds(rule.expr[k], s)
    => \E j \in DOMAIN facts : facts[j] = Concludes(rule, facts, t, s)

\* The answers the run is through with: all but the one it sits on.
DealtWith == {t \in Answered : pc \in {"found", "test", "dup"} => t # Choice}

\* The walk of a rule whose variables have slots has missed no match.
NoneMissed ==
  FewVariables(rule) => /\ pc \in {"walk", "unify"} => AnswersPassed(FALSE)
                        /\ AtAnswer => AnswersPassed(TRUE)
                        /\ pc = "done" => AnswersAll

\* A walk of the round's rule is going on, or has just ended.
InWalk == AtAnswer \/ pc \in {"walk", "unify", "done"}

\* While a round has added nothing: the facts are the ones it began with, so
\* every rule it has applied would conclude the same of them again, and of
\* the rule it is at, every answer it is through with.
RoundSoFar ==
  produced = 0 /\ pc \notin {"ran", "limit"} =>
    /\ \A n \in 1 .. next - 1 :
         /\ n \in DOMAIN world.rules
         /\ ~world.rules[n].is_query
         /\ FewVariables(world.rules[n])
         /\ InWalk => n # next - 1
         => AllKnown(world.rules[n])
    /\ InWalk => /\ next - 1 \in DOMAIN world.rules
                 /\ rule = world.rules[next - 1]
                 /\ base = Len(facts)
                 /\ BindsSourced
                 /\ NoneMissed
                 /\ \A t \in DealtWith : ConclusionsKnown(t)
    /\ pc = "dup" => ~Hole /\ candidate = Instance

\* Every derived fact is what some rule concludes from facts before it, with
\* the origin of exactly those facts and that rule, and is none of them: the
\* engine derives only consequences, says where each came from, and derives
\* none twice (130_engine.inc:9-15, 340-361).
DerivedOnce ==
  \A k \in Loaded + 1 .. Len(facts) :
    /\ Concluded(facts[k], SubSeq(facts, 1, k - 1))
    /\ \A j \in 1 .. k - 1 : facts[j] # facts[k]

\* The rules conclude nothing that is not among the facts.
Settled == \A n \in DOMAIN world.rules :
             ~world.rules[n].is_query /\ FewVariables(world.rules[n])
               => AllKnown(world.rules[n])

\* The facts that stem from the blocks in T alone.
FactsOf(T) == {f \in {facts[k] : k \in DOMAIN facts} : f.origin \subseteq T}

\* No block can add to, or take from, what stems from others: whatever set of
\* blocks one looks at, a finished run knows exactly the facts those blocks
\* give on their own (130_engine.inc:9-15, "the whole mechanism that stops an
\* appended block from granting itself rights").
NoEscalation ==
  pc = "ran" /\ status = "OK" =>
    \A T \in SUBSET Everyone : IsMeaning(world, FactsOf(T), T)

Finished == pc = "ran" /\ status = "OK" => Settled

\* What a run knows at every moment: what its walk does, where every fact
\* came from, that the candidate follows and is none of those compared, what
\* a round that has added nothing has shown, and, when it returns OK, that
\* it has come to the fixpoint (130_engine.inc, bs_world_run_with).
EngineKnows == EngineInv /\ RoundSoFar /\ DerivedOnce /\ Finished

\* A rule that bs_rule_bound passes never leaves a hole in a fact: checking
\* at load time is enough (130_engine.inc:126-128, 100_world.inc:104-110).
BoundRulesFill == status = "UNBOUND" => ~HeadBound(rule)

\* What the terms of the facts behind the first n take up.
RoomOf(fs, n) ==
  LET room[k \in n .. Len(fs)] == IF k = n THEN 0 ELSE room[k - 1] + Len(fs[k].terms)
  IN  room[Len(fs)]

\* What the derived facts take up, and the one that may become a fact.
Taken == RoomOf(facts, Loaded) + (IF pc = "dup" THEN Len(candidate.terms) ELSE 0)

\* Every derived fact has terms of its own, whatever answers were dropped and
\* whatever runs were given up before; and a first run that is not given up
\* keeps no term besides (130_engine.inc:337-365, "Give back the terms").
TermsAccounted ==
  /\ Taken <= terms
  /\ runs <= 1 /\ status \in {"none", "OK"} => Taken = terms

\* How a run stands.
Standing == IF pc # "ran" THEN "open"
            ELSE CASE status = "none" -> "idle"
                   [] status = "OK" -> "closed"
                   [] OTHER -> "given up"

\* What a run promises.
I == INSTANCE BsInference WITH known <- facts, status <- Standing

\* The engine implements the abstract run: it adds consequences of what it
\* knows, each once, and says it is closed only when there is none left
\* (130_engine.inc, "until a round produces nothing new").
InfersConsequences == I!Spec

\* Every run returns.
RunReturns == pc # "ran" ~> pc = "ran"
=============================================================================
