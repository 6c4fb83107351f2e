---------------------------- MODULE BsAuthorize ----------------------------
(***************************************************************************)
(* Authorization (145_authorize.inc): run the world to a fixpoint, ask     *)
(* every check, then walk the policies until one matches.                  *)
(*                                                                         *)
(* The run is BsEngine's and the queries are walked by BsSolver's walk,    *)
(* tested by the engine's expressions; this module adds who asks what and  *)
(* what becomes of the answers.                                            *)
(***************************************************************************)
EXTENDS BsEngine

\* The queries of every check and of every policy are in the pool of rules, a
\* check's of its own block (110_load.inc, the checks of a block;
\* 140_parse.inc, bs_p_queries and bs_p_body).
ASSUME AuthAssumption ==
  \A w \in Worlds :
    /\ \A i \in DOMAIN w.checks :
         /\ w.checks[i].query_at + w.checks[i].query_count <= Len(w.rules)
         /\ \A r \in Queries(w.rules, w.checks[i]) : r.block = w.checks[i].block
    /\ \A i \in DOMAIN w.policies :
         w.policies[i].query_at + w.policies[i].query_count <= Len(w.rules)

VARIABLES
  phase,     \* "idle", "run", "check" or "policy": how far bs_authorize is
  ask,       \* i, the check or the policy being asked
  query,     \* the query of it being asked
  seen,      \* bs_query_all's any
  per_block, \* a check's place in its block,
  block,     \* and the block those places count in
  failed,    \* the checks that did not hold
  out        \* the host's verdict

askVars == <<ask, query, seen, per_block, block, failed>>
decisionVars == <<phase, askVars, out>>
authVars == <<engineVars, decisionVars>>

\* "open": at the head of the loop over the checks.  "pick": at the head of
\* a loop over the queries.
AuthPlaces == EnginePlaces \cup {"open", "pick"}

\* A verdict as memset leaves it, with the kind set after.
Cleared == [kind |-> "none", policy |-> 0, failed |-> <<>>]

\* No check has been asked yet.
NoBlock == MaxBlocks + 1

Asking == phase \in {"check", "policy"}

\* What is being asked, and which query of it.
Asked == IF phase = "check" THEN world.checks[ask] ELSE world.policies[ask]
Query == world.rules[Asked.query_at + query]

\* Only a `check all` wants every answer to pass.
WantsAll == phase = "check" /\ Asked.kind = "all"

-----------------------------------------------------------------------------
(* The call, and the run of the rules.                                     *)

\* bs_authorize clears the verdict and runs the world; the arena has room
\* for a solver, or not.
Authorize ==
  /\ phase = "idle"
  /\ Run
  /\ phase' = "run"
  /\ out' = Cleared
  /\ UNCHANGED askVars

RunOn == phase = "run" /\ RunStep /\ UNCHANGED decisionVars

Return(code) == phase' = "idle" /\ Stop(code)

\* A failure of the run, or of a query, is bs_authorize's own.
Failed ==
  /\ phase # "idle" /\ pc = "ran" /\ status # "OK"
  /\ phase' = "idle"
  /\ UNCHANGED <<engineVars, askVars, out>>

\* The fixpoint is reached; there is room for the report, or not.
RunDone ==
  /\ phase = "run" /\ pc = "ran" /\ status = "OK"
  /\ \/ /\ phase' = "check" /\ pc' = "open" /\ status' = "none"
        /\ ask' = 1 /\ query' = 1 /\ seen' = FALSE
        /\ per_block' = 0 /\ block' = NoBlock /\ failed' = <<>>
     \/ Return("NOMEM") /\ UNCHANGED askVars
  /\ UNCHANGED <<facts, steps, solverVars, world, terms, runVars, answerVars, out>>

-----------------------------------------------------------------------------
(* One query (bs_query_any, bs_query_all).                                 *)

QueriesLeft == query <= Asked.query_count

AskQuery ==
  /\ Asking /\ pc = "pick" /\ (phase = "policy" => ask <= Len(world.policies))
  /\ QueriesLeft
  /\ BeginWalk(Query)
  /\ seen' = FALSE
  /\ UNCHANGED <<facts, steps, world, terms, runVars, answerVars, status>>
  /\ UNCHANGED <<phase, ask, query, per_block, block, failed, out>>

\* A turn of the walk, or of an answer's expressions.
QueryOn ==
  /\ Asking
  /\ WalkOn \/ WalkLimit \/ TestLimit \/ TestBreaks \/ TestDecides
  /\ UNCHANGED decisionVars

AnswerFound ==
  /\ Asking
  /\ Consider
  /\ seen' = TRUE
  /\ UNCHANGED <<phase, ask, query, per_block, block, failed, out>>

\* Where an answer stands: its expressions have all passed, or one did not;
\* or there is no answer left.
Accepted == pc = "test" /\ test > Len(rule.expr)
Rejected == pc = "again"
Exhausted == pc = "done"

Judging == Asking /\ (Accepted \/ Rejected \/ Exhausted)

\* One more answer is wanted: any that passes will do, but every one must.
NextMatch ==
  /\ Judging
  /\ IF WantsAll THEN Accepted ELSE Rejected
  /\ AskAgain
  /\ UNCHANGED <<world, terms, runVars, answerVars, status, decisionVars>>

\* A slip: the words of the specification, true when nothing matches.
YesVacuous == IF WantsAll THEN Exhausted ELSE Accepted

\* The query's answer; `check all` asks for at least one match as well.
Yes == IF WantsAll THEN Exhausted /\ seen ELSE Accepted
No == IF WantsAll THEN Rejected \/ (Exhausted /\ ~seen) ELSE Exhausted

-----------------------------------------------------------------------------
(* What the answers amount to (bs_check_holds, bs_policy_matches).         *)

\* A slip: the count goes on from block to block.
OpenCheckCounting ==
  /\ phase = "check" /\ pc = "open" /\ ask <= Len(world.checks)
  /\ block' = world.checks[ask].block
  /\ query' = 1 /\ pc' = "pick"
  /\ UNCHANGED <<facts, steps, solverVars, world, terms, runVars, answerVars, status>>
  /\ UNCHANGED <<phase, ask, seen, per_block, failed, out>>

\* Places are counted anew when the block is not the last check's.
OpenCheck ==
  /\ phase = "check" /\ pc = "open" /\ ask <= Len(world.checks)
  /\ block' = world.checks[ask].block
  /\ per_block' = IF block = block' THEN per_block ELSE 0
  /\ query' = 1 /\ pc' = "pick"
  /\ UNCHANGED <<facts, steps, solverVars, world, terms, runVars, answerVars, status>>
  /\ UNCHANGED <<phase, ask, seen, failed, out>>

Report == [check |-> ask, block |-> Asked.block, index |-> per_block]

\* A slip: the checks after the first that failed are not asked.
CheckSettledFirst(holds) ==
  /\ failed' = IF holds THEN failed ELSE Append(failed, Report)
  /\ per_block' = per_block + 1
  /\ ask' = IF holds THEN ask + 1 ELSE Len(world.checks) + 1
  /\ pc' = "open"
  /\ UNCHANGED <<phase, query, seen, block, out, status>>

\* The check is settled; the next one follows whatever the outcome.
CheckSettled(holds) ==
  /\ failed' = IF holds THEN failed ELSE Append(failed, Report)
  /\ per_block' = per_block + 1
  /\ ask' = ask + 1
  /\ pc' = "open"
  /\ UNCHANGED <<phase, query, seen, block, out, status>>

\* A slip: the policy alone decides.
VerdictUnchecked == IF Asked.kind = "deny" THEN "deny" ELSE "allow"

Verdict == IF Asked.kind = "deny" \/ failed # <<>> THEN "deny" ELSE "allow"

\* The policy matches: it is the last one asked.
PolicyDecides ==
  /\ out' = [kind |-> Verdict, policy |-> ask, failed |-> failed]
  /\ Return("OK")
  /\ UNCHANGED askVars

\* A query that matches settles what was asked, for `reject` against it.
QueryYes ==
  /\ Judging /\ Yes
  /\ \/ phase = "check" /\ CheckSettled(Asked.kind # "reject")
     \/ phase = "policy" /\ PolicyDecides
  /\ UNCHANGED <<facts, steps, solverVars, world, terms, runVars, answerVars>>

QueryNo ==
  /\ Judging /\ No
  /\ query' = query + 1 /\ pc' = "pick"
  /\ UNCHANGED <<facts, steps, solverVars, world, terms, runVars, answerVars, status>>
  /\ UNCHANGED <<phase, ask, seen, per_block, block, failed, out>>

\* No query matched: a check fails, unless it was to reject; a policy gives
\* way to the next.
NoQueryMatched ==
  /\ Asking /\ pc = "pick" /\ (phase = "policy" => ask <= Len(world.policies))
  /\ ~QueriesLeft
  /\ \/ phase = "check" /\ CheckSettled(Asked.kind = "reject")
     \/ /\ phase = "policy"
        /\ ask' = ask + 1 /\ query' = 1
        /\ UNCHANGED <<pc, status, phase, seen, per_block, block, failed, out>>
  /\ UNCHANGED <<facts, steps, solverVars, world, terms, runVars, answerVars>>

ChecksDone ==
  /\ phase = "check" /\ pc = "open" /\ ask > Len(world.checks)
  /\ phase' = "policy" /\ pc' = "pick" /\ ask' = 1 /\ query' = 1
  /\ UNCHANGED <<facts, steps, solverVars, world, terms, runVars, answerVars, status>>
  /\ UNCHANGED <<seen, per_block, block, failed, out>>

NoPolicy ==
  /\ phase = "policy" /\ pc = "pick" /\ ask > Len(world.policies)
  /\ out' = [kind |-> "none", policy |-> 0, failed |-> failed]
  /\ Return("OK")
  /\ UNCHANGED <<facts, steps, solverVars, world, terms, runVars, answerVars, askVars>>

-----------------------------------------------------------------------------

AuthStep == \/ RunOn \/ Failed \/ RunDone
            \/ OpenCheck \/ AskQuery \/ QueryOn \/ AnswerFound \/ NextMatch
            \/ QueryYes \/ QueryNo \/ NoQueryMatched \/ ChecksDone \/ NoPolicy

Idle == phase = "idle" /\ UNCHANGED authVars

AuthInit == /\ EngineInit
            /\ phase = "idle"
            /\ ask = 1 /\ query = 1 /\ seen = FALSE
            /\ per_block = 0 /\ block = NoBlock /\ failed = <<>>
            /\ out = Cleared

AuthNext == Authorize \/ AuthStep \/ Idle

\* Nothing else runs while bs_authorize does; the host need not call it.
AuthSpec == AuthInit /\ [][AuthNext]_authVars /\ WF_authVars(AuthStep)

-----------------------------------------------------------------------------

ReportOf == [check : Nat \ {0}, block : 0 .. MaxBlocks, index : Nat]
VerdictOf == [kind : {"none", "allow", "deny"}, policy : Nat, failed : Seq(ReportOf)]

\* Every variable of an authorization has its type.
AuthTypeOK ==
  /\ SolverTypeOK /\ RunTypeOK
  /\ pc \in AuthPlaces
  /\ phase \in {"idle", "run", "check", "policy"}
  /\ ask \in Nat \ {0} /\ query \in Nat \ {0} /\ seen \in BOOLEAN
  /\ per_block \in Nat /\ block \in 0 .. NoBlock
  /\ failed \in Seq(ReportOf)
  /\ out \in VerdictOf

\* What is being asked is there to ask.
AskPlaced ==
  /\ phase = "check" /\ pc # "ran" => /\ ask <= Len(world.checks) + 1
                                      /\ pc # "open" => ask <= Len(world.checks)
  /\ phase = "policy" /\ pc # "ran" => /\ pc # "open" /\ ask <= Len(world.policies) + 1
                                       /\ pc # "pick" => ask <= Len(world.policies)

\* The queries are asked of the fixpoint, by a walk that keeps what it knows
\* while the rules run; there is no verdict before the last one is answered.
AuthInv ==
  /\ WalkInv /\ FactsGrow /\ DerivedOnce /\ Finished /\ AskPlaced
  /\ phase = "idle" => pc = "ran"
  /\ phase = "run" => pc \in EnginePlaces /\ EngineKnows
  /\ Asking => pc # "dup" /\ Settled
  /\ Asking /\ pc = "ran" => status # "OK"
  /\ phase # "idle" \/ status # "OK" => out = Cleared

-----------------------------------------------------------------------------
(* What has been asked.                                                    *)

\* Whichever substitution explains the match t: the expression e holds, they
\* all do, or one of them does not.
HoldsFor(e, t) == \A s \in [Var -> Term] : Explains(rule, facts, t, s) => Holds(e, s)
PassesAlways(t) ==
  \A s \in [Var -> Term] : Explains(rule, facts, t, s) => Passing(rule, s)
PassesNever(t) ==
  \A s \in [Var -> Term] : Explains(rule, facts, t, s) => ~Passing(rule, s)

\* The answers that did not settle the query: all but the one at hand.
Judged == {t \in Answered : AtAnswer => t # Choice}

\* The walk is the query's, over all the facts, and has missed no match.
WalkOfQuery ==
  /\ QueriesLeft /\ rule = Query
  /\ base = Len(facts) /\ BindsSourced /\ NoneMissed
  /\ AtAnswer => level = Len(rule.body)

\* What the answers have said so far: nothing that settles the query.
AnswersSoFar ==
  /\ Answered # {} <=> seen \/ pc = "found"
  /\ \A t \in Judged : IF WantsAll THEN PassesAlways(t) ELSE PassesNever(t)
  /\ pc = "test" => \A k \in 1 .. test - 1 : /\ k <= Len(rule.expr)
                                            /\ HoldsFor(rule.expr[k], Choice)
  /\ pc = "again" => PassesNever(Choice)

QuerySoFar == Asking /\ InWalk => WalkOfQuery /\ AnswersSoFar

\* What the kind of the check asks of one query.
Satisfied(r) == IF WantsAll THEN All(r, facts) ELSE Some(r, facts)

\* The reports say which of the first n checks fail, in their order.
ReportsFit(reports, n) ==
  /\ \A i \in 1 .. n : (\E k \in DOMAIN reports : reports[k].check = i)
                        <=> ~CheckMet(world, world.checks[i], facts)
  /\ \A k \in DOMAIN reports : reports[k].check \in 1 .. n
  /\ \A j, k \in DOMAIN reports : j < k => reports[j].check < reports[k].check

NoneMatched(n) == \A i \in 1 .. n : ~PolicyMatched(world, world.policies[i], facts)

\* No query before this one has settled what is asked, no check before it is
\* misreported, and no policy before it matches.
AskedSoFar ==
  Asking /\ pc # "ran" =>
    /\ phase = "check" => ReportsFit(failed, ask - 1)
    /\ phase = "policy" => ReportsFit(failed, Len(world.checks)) /\ NoneMatched(ask - 1)
    /\ pc # "open" /\ (phase = "policy" => ask <= Len(world.policies)) =>
         /\ query <= Asked.query_count + 1
         /\ \A i \in 1 .. query - 1 : ~Satisfied(world.rules[Asked.query_at + i])

-----------------------------------------------------------------------------
(* The report.                                                             *)

\* Which check within its block the check at k is, counting from 0.
PlaceInBlock(k) ==
  Cardinality({j \in 1 .. k - 1 : world.checks[j].block = world.checks[k].block})

\* The checks of every block stand together in the pool.
ChecksTogether ==
  \A j, k, m \in DOMAIN world.checks :
    j < k /\ k < m /\ world.checks[j].block = world.checks[m].block
      => world.checks[k].block = world.checks[j].block

\* A report says where its check is.
Placed(reports) ==
  \A n \in DOMAIN reports : LET f == reports[n]
                            IN  /\ f.check \in DOMAIN world.checks
                                /\ f.block = world.checks[f.check].block
                                /\ f.index = PlaceInBlock(f.check)

\* A failed check can be found by the block and the number the report gives:
\* "which check within that block" (20_api.inc, bs_failed_check.index).
ReportsPlace == Placed(out.failed)

\* It can when no block's checks are split by another's in the pool, as when
\* the authorizer's source is parsed once, after or before the blocks.
ReportsPlaceTogether == ChecksTogether => ReportsPlace

\* Where the count of the checks of a block has come to.
CountSoFar ==
  phase = "check" =>
    /\ pc = "open" /\ ask = 1 => block = NoBlock
    /\ pc = "open" /\ ask > 1 => /\ block = world.checks[ask - 1].block
                                 /\ per_block = PlaceInBlock(ask - 1) + 1
    /\ pc \notin {"open", "ran"} => /\ block = world.checks[ask].block
                                    /\ per_block = PlaceInBlock(ask)

\* Every report so far says where its check is.
ReportsSoFar ==
  ChecksTogether => CountSoFar /\ (Asking => Placed(failed)) /\ ReportsPlace

-----------------------------------------------------------------------------
(* The verdict.                                                            *)

\* What an authorization knows at every moment of it (145_authorize.inc,
\* bs_query_any, bs_query_all, bs_check_holds, bs_policy_matches).
AuthKnows == AuthTypeOK /\ AuthInv /\ QuerySoFar /\ AskedSoFar /\ ReportsSoFar

\* The world calls for the verdict v: the rules have nothing more to say; the
\* report lists the checks that fail, all of them, in their order; the policy
\* is the first that matches, and allows only when it says so and no check
\* failed.
CalledFor(v) ==
  /\ Settled
  /\ ReportsFit(v.failed, Len(world.checks))
  /\ \/ /\ v.policy = 0 /\ v.kind = "none"
        /\ NoneMatched(Len(world.policies))
     \/ /\ v.policy \in DOMAIN world.policies
        /\ NoneMatched(v.policy - 1)
        /\ PolicyMatched(world, world.policies[v.policy], facts)
        /\ v.kind = IF world.policies[v.policy].kind = "allow" /\ v.failed = <<>>
                    THEN "allow" ELSE "deny"

\* The verdict of an OK is the one its world calls for; without an OK there is
\* no verdict (20_api.inc, bs_authorize; 145_authorize.inc:1-14).
RightlyDecided ==
  phase = "idle" => IF status = "OK" THEN CalledFor(out) ELSE out = Cleared

\* Appending a block can only take rights away: an authorization that allows
\* would have allowed without any one of the appended blocks that no other
\* block chose to trust and that states no policy, as no block of a token can
\* (130_engine.inc:9-15, 145_authorize.inc:1-14).
OnlyNarrows ==
  out.kind = "allow" =>
    \A blk \in 1 .. MaxBlocks - 1 :
      Untrusted(world, blk) /\ WithoutPolicies(world, blk) =>
        LET w == Without(world, blk)
            K == FactsOf(Everyone \ {blk})
        IN  IsMeaning(w, K, Everyone) /\ Allowed(w, K)
=============================================================================
