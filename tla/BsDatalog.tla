----------------------------- MODULE BsDatalog -----------------------------
(***************************************************************************)
(* The data of a world (20_api.inc: bs_term, bs_predicate, bs_fact,        *)
(* bs_rule), and what matching a rule body means, said without the engine. *)
(*                                                                         *)
(* A world keeps terms in one pool and a predicate as a run of it; here a  *)
(* predicate holds its terms.  Terms are scalars: a Value stands for one   *)
(* integer, string, date, byte string or boolean, two of which are the     *)
(* same exactly when bs_term_eq says so.  A variable may stand in a fact,  *)
(* because the wire loader does not refuse it; equality then compares      *)
(* variable numbers.  Origins are sets of block bits.                      *)
(***************************************************************************)
EXTENDS Naturals, Sequences

CONSTANTS Name,        \* predicate names: interned symbol numbers
          Value,       \* scalar terms
          Var,         \* variable terms
          MaxBlocks    \* BS_MAX_BLOCKS: block bits are 0 .. MaxBlocks-1

ASSUME DatalogAssumption == MaxBlocks \in Nat /\ Var \cap Value = {}

Term == Value \cup Var

Authorizer == MaxBlocks                  \* the origin bit no block may hold
Origin == SUBSET (0 .. MaxBlocks)

Predicate == [name : Name, terms : Seq(Term)]
Fact == [name : Name, terms : Seq(Term), origin : Origin]

\* An expression `left op right`; "overflow" stands for an operator that
\* fails on its operands.
Test == [op : {"equal", "unequal", "overflow"}, left : Term, right : Term]

Rule == [head     : Predicate,
         is_query : BOOLEAN,
         body     : Seq(Predicate),
         expr     : Seq(Test),
         trust    : Origin,
         block    : 0 .. MaxBlocks]

\* A check and a policy hold a run of the rule pool, a query each: the ones
\* at query_at+1 .. query_at+query_count, counting from 1.
Check == [query_at : Nat, query_count : Nat, kind : {"one", "all", "reject"},
          block : 0 .. MaxBlocks]
Policy == [query_at : Nat, query_count : Nat, kind : {"allow", "deny"}]

Queries(rules, c) == {rules[c.query_at + i] : i \in 1 .. c.query_count}

\* A slip: only the first variable of the head is looked for.
HeadBoundFirst(r) ==
  \A i \in DOMAIN r.head.terms : i = 1 /\ r.head.terms[i] \in Var =>
    \E j \in DOMAIN r.body : \E k \in DOMAIN r.body[j].terms :
      r.body[j].terms[k] = r.head.terms[i]

\* What bs_rule_bound asks of a rule before it is loaded: every variable of
\* its head is in its body.  A world built by hand need not have asked.
HeadBound(r) ==
  \A i \in DOMAIN r.head.terms : r.head.terms[i] \in Var =>
    \E j \in DOMAIN r.body : \E k \in DOMAIN r.body[j].terms :
      r.body[j].terms[k] = r.head.terms[i]

-----------------------------------------------------------------------------
(* What matching means: a tuple t gives body predicate i the fact           *)
(* fs[t[i]], every fact is one the rule trusts whole, and one substitution  *)
(* turns every body predicate into its fact.                                *)

Under(t, s) == IF t \in Var THEN s[t] ELSE t

Ground(terms, s) == [i \in DOMAIN terms |-> Under(terms[i], s)]

States(pred, f, s) == f.name = pred.name /\ f.terms = Ground(pred.terms, s)

Explains(r, fs, t, s) ==
  \A i \in DOMAIN r.body : /\ fs[t[i]].origin \ r.trust = {}
                           /\ States(r.body[i], fs[t[i]], s)

IsMatch(r, fs, t) == \E s \in [Var -> Term] : Explains(r, fs, t, s)

Tuples(r, fs) == [DOMAIN r.body -> DOMAIN fs]

Matches(r, fs) == {t \in Tuples(r, fs) : IsMatch(r, fs, t)}

\* Where the sentence a match supports comes from: the rule's own block and
\* everything the matched facts came from.
OriginOf(r, fs, t) == {r.block} \cup UNION {fs[t[i]].origin : i \in DOMAIN t}

\* The order of nested loops, the first body predicate outermost.
Before(t, u) == \E i \in DOMAIN t : /\ t[i] < u[i]
                                    /\ \A j \in 1 .. i-1 : t[j] = u[j]

-----------------------------------------------------------------------------
(* What a rule concludes: for every match whose expressions hold, its head   *)
(* under the match's substitution, from everything the match came from.     *)

Holds(e, s) ==
  \/ e.op = "equal" /\ Under(e.left, s) = Under(e.right, s)
  \/ e.op = "unequal" /\ Under(e.left, s) # Under(e.right, s)

Concludes(r, fs, t, s) ==
  [name |-> r.head.name, terms |-> Ground(r.head.terms, s),
   origin |-> OriginOf(r, fs, t)]

Consequences(r, fs) ==
  UNION {{Concludes(r, fs, t, s) :
            s \in {u \in [Var -> Term] : /\ Explains(r, fs, t, u)
                                        /\ \A k \in DOMAIN r.expr : Holds(r.expr[k], u)}} :
          t \in Tuples(r, fs)}

-----------------------------------------------------------------------------
(* What a query of a check or a policy asks of the facts fs.               *)

\* The substitutions that answer it.
Answering(r, fs) ==
  {s \in [Var -> Term] : \E t \in Tuples(r, fs) : Explains(r, fs, t, s)}

Passing(r, s) == \A k \in DOMAIN r.expr : Holds(r.expr[k], s)

Some(r, fs) == \E s \in Answering(r, fs) : Passing(r, s)

\* Vacuous truth does not count: a body that matches nothing fails.
All(r, fs) == Answering(r, fs) # {} /\ \A s \in Answering(r, fs) : Passing(r, s)

CheckMet(w, c, fs) ==
  LET qs == Queries(w.rules, c)
  IN  \/ c.kind = "one" /\ \E r \in qs : Some(r, fs)
      \/ c.kind = "all" /\ \E r \in qs : All(r, fs)
      \/ c.kind = "reject" /\ \A r \in qs : ~Some(r, fs)

PolicyMatched(w, p, fs) == \E r \in Queries(w.rules, p) : Some(r, fs)

-----------------------------------------------------------------------------
(* What a world means, without the engine: the least set of facts that     *)
(* holds the loaded ones and every consequence of the rules.               *)

\* The part of the world w that stems from the blocks in T alone.
StatedBy(w, T) == {f \in {w.facts[k] : k \in DOMAIN w.facts} : f.origin \subseteq T}
RulesBy(w, T) == {r \in {w.rules[n] : n \in DOMAIN w.rules} : ~r.is_query /\ r.block \in T}

\* A set of facts as what a tuple chooses from.
Indexed(K) == [f \in K |-> f]

\* What the facts in K and the blocks in T, and nothing else, lead to.
Follows(w, K, T) ==
  {f \in UNION {Consequences(r, Indexed(K)) : r \in RulesBy(w, T)} : f.origin \subseteq T}

Closed(w, K, T) == StatedBy(w, T) \subseteq K /\ Follows(w, K, T) \subseteq K

\* K is what the blocks in T mean on their own.
IsMeaning(w, K, T) ==
  Closed(w, K, T) /\ \A J \in SUBSET K : Closed(w, J, T) => J = K

-----------------------------------------------------------------------------
(* The world without a block.                                              *)

Everyone == 0 .. MaxBlocks

\* Nobody but b itself chose to trust the block b.
Untrusted(w, b) == \A n \in DOMAIN w.rules : w.rules[n].block # b => b \notin w.rules[n].trust

\* No policy is b's.
WithoutPolicies(w, b) ==
  \A i \in DOMAIN w.policies : \A r \in Queries(w.rules, w.policies[i]) : r.block # b

\* The facts and checks of b are not there, and its rules do not apply.  What
\* is left keeps its place.
Without(w, b) ==
  [w EXCEPT !.facts = [k \in {n \in DOMAIN @ : b \notin @[n].origin} |-> @[k]],
            !.checks = [k \in {n \in DOMAIN @ : @[n].block # b} |-> @[k]],
            !.rules = [n \in DOMAIN @ |-> IF @[n].block = b
                                          THEN [@[n] EXCEPT !.is_query = TRUE]
                                          ELSE @[n]]]

\* Every check holds of the facts in K, and the first policy that matches
\* allows.
Allowed(w, K) ==
  /\ \A i \in DOMAIN w.checks : CheckMet(w, w.checks[i], Indexed(K))
  /\ \E i \in DOMAIN w.policies :
       /\ w.policies[i].kind = "allow"
       /\ PolicyMatched(w, w.policies[i], Indexed(K))
       /\ \A j \in 1 .. i - 1 : ~PolicyMatched(w, w.policies[j], Indexed(K))
=============================================================================
