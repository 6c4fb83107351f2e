------------------------------- MODULE BsLoad -------------------------------
(***************************************************************************)
(* Loading a token into a world (110_load.inc): the facts of every block,  *)
(* then the rules and the checks of every block, each symbol translated    *)
(* into the one table the evaluation uses and each scope resolved to the   *)
(* set of blocks it trusts.  One action is one turn of a loader's loop: a  *)
(* symbol translated, a run of a pool reserved, a statement placed.        *)
(***************************************************************************)
EXTENDS BsMessage

CONSTANTS Tokens,       \* the tokens a host may load
          Limits,       \* the room it may give: bs_limits and bs_symtab_init's extra
          Tables(_, _), \* `from` and `tab`: what the host reads block b of t against
          Seed(_)       \* and what it seeds the symbol table with

Pools == {"terms", "preds", "exprs", "ops"}
Limit == [terms : Nat, preds : Nat, exprs : Nat, ops : Nat,
          facts : Nat, rules : Nat, checks : Nat, extra : Nat]

ASSUME LoadAssumption ==
  /\ Tokens \subseteq Seq(Message)
  /\ \A t \in Tokens : /\ Len(t) \in 1 .. MaxBlocks
                       /\ Seed(t) \in Seq(Text)
                       /\ \A b \in 0 .. Len(t) - 1 : Tables(t, b) \in TablesOf
  /\ Limits \subseteq Limit

-----------------------------------------------------------------------------
(* Scopes (bs_scope_resolve, bs_trust_load).                               *)

\* A scope that names no kind there is, or a key past the table, is refused.
Resolvable(t, b, s) == /\ s.kind # "unknown"
                       /\ s.kind = "key" => s.key < Len(Tables(t, b).keys)

\* A slip: every block there is.
PreviousAll(t, b) == 0 .. Len(t) - 1

\* Every block up to the one that says so.
Previous(t, b) == 0 .. b

SignedBy(t, key) == {i \in 0 .. Len(t) - 1 : t[i + 1].external = key}

Resolved(t, b, s) ==
  CASE s.kind = "authority" -> {0}
    [] s.kind = "previous" -> Previous(t, b)
    [] s.kind = "key" -> SignedBy(t, Tables(t, b).keys[s.key + 1])

\* A slip: what the block trusts stays trusted.
TrustAdded(t, b, scopes, fallback) ==
  {Authorizer, b} \cup fallback \cup UNION {Resolved(t, b, s) : s \in ToSet(scopes)}

\* The block itself and the authorizer always; then what the annotations
\* name, or the fallback when there is none.
Trust(t, b, scopes, fallback) ==
  {Authorizer, b} \cup IF scopes = <<>> THEN fallback
                       ELSE UNION {Resolved(t, b, s) : s \in ToSet(scopes)}

-----------------------------------------------------------------------------
(* The loader.                                                             *)

VARIABLES
  token,    \* bs_token, parsed and verified
  limits,   \* the capacities of the world's pools and of the symbol table
  entries,  \* bs_symtab.entries[0 .. count-1]
  facts,    \* bs_world.facts[0 .. fact_count-1]
  rules,    \* bs_world.rules[0 .. rule_count-1]
  checks,   \* bs_world.checks[0 .. check_count-1]
  used,     \* how much of the other pools is reserved
  block,    \* the block being loaded
  phase,    \* which loop over it is running
  msg,      \* the place of that loop, counting from 1
  query,    \* the place among a check's queries
  at,       \* and where in the rule pool they begin
  trust,    \* bs_world_load_logic's block_trust
  made,     \* the finished predicates of this clause, the head first
  cur,      \* the predicate being read
  tests,    \* the finished expressions of this clause
  given,    \* the operands read of the next one
  pc,       \* which turn comes next
  status    \* what the loaders returned, "none" while they run

poolVars == <<entries, facts, rules, checks, used>>
placeVars == <<block, phase, msg, query, at, trust>>
clauseVars == <<made, cur, tests, given>>
loadVars == <<token, limits, poolVars, placeVars, clauseVars, pc, status>>

Here == token[block + 1]
From == Tables(token, block)

\* The clause at hand; a fact is a head alone.
CurrentClause ==
  CASE phase = "facts" -> [head |-> Here.facts[msg], body |-> <<>>,
                           expr |-> <<>>, scopes |-> <<>>]
    [] phase = "rules" -> Here.rules[msg]
    [] phase = "checks" -> Here.checks[msg].queries[query]

\* The predicate that is read next.
Wanted == IF made = <<>> THEN CurrentClause.head ELSE CurrentClause.body[Len(made)]
NextTest == CurrentClause.expr[Len(tests) + 1]

NoTerms == [name |-> 0, terms |-> <<>>]

Refuse(code) == pc' = "stopped" /\ status' = code

-----------------------------------------------------------------------------
(* Symbols.  Each is translated from the block's tables to `entries`.      *)

\* The symbol the next turn reads, if that is what it does.
Reading == \/ pc = "name"
           \/ pc = "terms" /\ Len(cur.terms) < Len(Wanted.terms)
           \/ pc = "operand"

Incoming ==
  CASE pc = "name" -> Wanted.name
    [] pc = "terms" -> Wanted.terms[Len(cur.terms) + 1].sym
    [] pc = "operand" -> (IF given = <<>> THEN NextTest.left ELSE NextTest.right).sym

Spelling == TextOf(From.symbols, Incoming)
Nameable == CanName(From.symbols, Incoming)
SymbolRoom == Known(entries, Spelling) \/ Len(entries) < Len(Seed(token)) + limits.extra

\* bs_symtab_translate succeeds, and this is the number it gives.
Translates == Nameable /\ SymbolRoom /\ entries' = Interned(entries, Spelling)

\* A slip: a block of the chain keeps its own numbers.
NumberAsIs == IF Here.external = NoKey THEN Incoming ELSE NumberOf(entries, Spelling)

Number == NumberOf(entries, Spelling)

Unnamed == /\ Reading /\ ~Nameable
           /\ Refuse("MALFORMED")
           /\ UNCHANGED <<token, limits, poolVars, placeVars, clauseVars>>

NoSymbolRoom == /\ Reading /\ Nameable /\ ~SymbolRoom
                /\ Refuse("NOMEM")
                /\ UNCHANGED <<token, limits, poolVars, placeVars, clauseVars>>

ReadName ==
  /\ pc = "name" /\ Translates
  /\ cur' = [name |-> Number, terms |-> <<>>]
  /\ pc' = "room"
  /\ UNCHANGED <<token, limits, facts, rules, checks, used, placeVars,
                 made, tests, given, status>>

ReadTerm ==
  /\ pc = "terms" /\ Len(cur.terms) < Len(Wanted.terms) /\ Translates
  /\ LET t == [kind |-> Wanted.terms[Len(cur.terms) + 1].kind, sym |-> Number]
     IN  cur' = [name |-> cur.name, terms |-> Append(cur.terms, t)]
  /\ UNCHANGED <<token, limits, facts, rules, checks, used, placeVars,
                 made, tests, given, pc, status>>

ReadOperand ==
  LET t == IF given = <<>> THEN NextTest.left ELSE NextTest.right
      loaded == [kind |-> t.kind, sym |-> Number]
  IN  /\ pc = "operand" /\ Translates
      /\ IF given = <<>>
         THEN /\ given' = <<loaded>> /\ pc' = "value"
              /\ UNCHANGED tests
         ELSE /\ tests' = Append(tests, [op |-> NextTest.op, left |-> given[1],
                                         right |-> loaded])
              /\ given' = <<>> /\ pc' = "tests"
      /\ UNCHANGED <<token, limits, facts, rules, checks, used, placeVars,
                     made, cur, status>>

-----------------------------------------------------------------------------
(* Room in the pools.                                                      *)

\* What a turn reserves, and the turn that follows: a predicate's terms, a
\* body's predicates, a clause's expressions, an expression's two values and
\* its operator, and the term of a value.
Demand ==
  CASE pc = "room" -> [pool |-> "terms", n |-> Len(Wanted.terms), then |-> "terms"]
    [] pc = "body" -> [pool |-> "preds", n |-> Len(CurrentClause.body), then |-> "preds"]
    [] pc = "exprs" -> [pool |-> "exprs", n |-> Len(CurrentClause.expr), then |-> "tests"]
    [] pc = "ops" -> [pool |-> "ops", n |-> 3, then |-> "value"]
    [] pc = "value" -> [pool |-> "terms", n |-> 1, then |-> "operand"]

Reserving == pc \in {"room", "body", "exprs", "ops", "value"}

Fits == used[Demand.pool] + Demand.n <= limits[Demand.pool]

Reserve ==
  /\ Reserving /\ Fits
  /\ used' = [used EXCEPT ![Demand.pool] = @ + Demand.n]
  /\ pc' = Demand.then
  /\ UNCHANGED <<token, limits, entries, facts, rules, checks, placeVars,
                 clauseVars, status>>

PoolFull ==
  /\ Reserving /\ ~Fits
  /\ Refuse("NOMEM")
  /\ UNCHANGED <<token, limits, poolVars, placeVars, clauseVars>>

-----------------------------------------------------------------------------
(* One clause (bs_predicate_load, bs_rule_load).                           *)

OpenClause == /\ made' = <<>> /\ cur' = NoTerms /\ tests' = <<>> /\ given' = <<>>
              /\ pc' = "name"

PredicateDone ==
  /\ pc = "terms" /\ Len(cur.terms) = Len(Wanted.terms)
  /\ made' = Append(made, cur)
  /\ pc' = IF phase = "facts" THEN "place"
           ELSE IF made = <<>> THEN "body" ELSE "preds"
  /\ UNCHANGED <<token, limits, poolVars, placeVars, cur, tests, given, status>>

NextPredicate ==
  /\ pc = "preds"
  /\ pc' = IF Len(made) <= Len(CurrentClause.body) THEN "name" ELSE "exprs"
  /\ UNCHANGED <<token, limits, poolVars, placeVars, clauseVars, status>>

NextExpression ==
  /\ pc = "tests"
  /\ pc' = IF Len(tests) < Len(CurrentClause.expr) THEN "ops" ELSE "place"
  /\ UNCHANGED <<token, limits, poolVars, placeVars, clauseVars, status>>

-----------------------------------------------------------------------------
(* Statements.                                                             *)

Loaded(is_query) ==
  [head |-> made[1], is_query |-> is_query, body |-> Tail(made), expr |-> tests,
   trust |-> Trust(token, block, CurrentClause.scopes, trust), block |-> block]

ScopesResolve(scopes) == \A s \in ToSet(scopes) : Resolvable(token, block, s)

PlaceFact ==
  /\ pc = "place" /\ phase = "facts"
  /\ facts' = Append(facts, [name |-> made[1].name, terms |-> made[1].terms,
                             origin |-> {block}])
  /\ msg' = msg + 1 /\ pc' = "next"
  /\ UNCHANGED <<token, limits, entries, rules, checks, used, clauseVars,
                 block, phase, query, at, trust, status>>

BadScope ==
  /\ pc = "place" /\ phase # "facts" /\ ~ScopesResolve(CurrentClause.scopes)
  /\ Refuse("MALFORMED")
  /\ UNCHANGED <<token, limits, poolVars, placeVars, clauseVars>>

\* A rule is asked at once whether its body binds its head (bs_rule_bound);
\* a query has a head nobody reads.
PlaceRule ==
  /\ pc = "place" /\ phase = "rules" /\ ScopesResolve(CurrentClause.scopes)
  /\ HeadBound(Loaded(FALSE))
  /\ rules' = Append(rules, Loaded(FALSE))
  /\ msg' = msg + 1 /\ pc' = "next"
  /\ UNCHANGED <<token, limits, entries, facts, checks, used, clauseVars,
                 block, phase, query, at, trust, status>>

UnboundRule ==
  /\ pc = "place" /\ phase = "rules" /\ ScopesResolve(CurrentClause.scopes)
  /\ ~HeadBound(Loaded(FALSE))
  /\ Refuse("UNBOUND")
  /\ UNCHANGED <<token, limits, poolVars, placeVars, clauseVars>>

PlaceQuery ==
  /\ pc = "place" /\ phase = "checks" /\ ScopesResolve(CurrentClause.scopes)
  /\ rules' = Append(rules, Loaded(TRUE))
  /\ query' = query + 1 /\ pc' = "query"
  /\ UNCHANGED <<token, limits, entries, facts, checks, used, clauseVars,
                 block, phase, msg, at, trust, status>>

-----------------------------------------------------------------------------
(* The loops over a block (bs_world_load_facts, bs_world_load_logic).      *)

NextFact ==
  /\ pc = "next" /\ phase = "facts" /\ msg <= Len(Here.facts)
  /\ IF Len(facts) < limits.facts
     THEN OpenClause /\ UNCHANGED status
     ELSE Refuse("NOMEM") /\ UNCHANGED clauseVars
  /\ UNCHANGED <<token, limits, poolVars, placeVars>>

\* The facts of every block come before the logic of any: what the host does.
FactsDone ==
  /\ pc = "next" /\ phase = "facts" /\ msg > Len(Here.facts)
  /\ msg' = 1
  /\ IF block + 1 < Len(token)
     THEN block' = block + 1 /\ UNCHANGED phase
     ELSE block' = 0 /\ phase' = "scope"
  /\ UNCHANGED <<token, limits, poolVars, clauseVars, query, at, trust, pc, status>>

\* What the block trusts, before any clause of it states its own preference.
BlockTrust ==
  /\ pc = "next" /\ phase = "scope"
  /\ IF ScopesResolve(Here.scopes)
     THEN /\ trust' = Trust(token, block, Here.scopes, {0})
          /\ phase' = "rules"
          /\ UNCHANGED <<pc, status>>
     ELSE Refuse("MALFORMED") /\ UNCHANGED <<trust, phase>>
  /\ UNCHANGED <<token, limits, poolVars, clauseVars, block, msg, query, at>>

NextRule ==
  /\ pc = "next" /\ phase = "rules" /\ msg <= Len(Here.rules)
  /\ IF Len(rules) < limits.rules
     THEN OpenClause /\ UNCHANGED status
     ELSE Refuse("NOMEM") /\ UNCHANGED clauseVars
  /\ UNCHANGED <<token, limits, poolVars, placeVars>>

RulesDone ==
  /\ pc = "next" /\ phase = "rules" /\ msg > Len(Here.rules)
  /\ phase' = "checks" /\ msg' = 1
  /\ UNCHANGED <<token, limits, poolVars, clauseVars, block, query, at, trust, pc, status>>

\* A slip: a check with no query is let through.
MeaninglessKind(c) == c.kind = "unknown"

Meaningless(c) == c.kind = "unknown" \/ c.queries = <<>>

\* The room for all the queries of a check is asked for at once.
NextCheck ==
  LET c == Here.checks[msg]
  IN  /\ pc = "next" /\ phase = "checks" /\ msg <= Len(Here.checks)
      /\ IF Meaningless(c)
         THEN Refuse("MALFORMED") /\ UNCHANGED <<query, at>>
         ELSE IF Len(rules) + Len(c.queries) > limits.rules
         THEN Refuse("NOMEM") /\ UNCHANGED <<query, at>>
         ELSE query' = 1 /\ at' = Len(rules) /\ pc' = "query" /\ UNCHANGED status
      /\ UNCHANGED <<token, limits, poolVars, clauseVars, block, phase, msg, trust>>

NextQuery ==
  /\ pc = "query" /\ query <= Len(Here.checks[msg].queries)
  /\ OpenClause
  /\ UNCHANGED <<token, limits, poolVars, placeVars, status>>

PlaceCheck ==
  /\ pc = "query" /\ query > Len(Here.checks[msg].queries)
  /\ Len(checks) < limits.checks
  /\ checks' = Append(checks, [query_at |-> at, query_count |-> query - 1,
                               kind |-> Here.checks[msg].kind, block |-> block])
  /\ msg' = msg + 1 /\ pc' = "next"
  /\ UNCHANGED <<token, limits, entries, facts, rules, used, clauseVars,
                 block, phase, query, at, trust, status>>

\* Its queries are loaded, and there is no room for the check.
NoCheckRoom ==
  /\ pc = "query" /\ query > Len(Here.checks[msg].queries)
  /\ Len(checks) >= limits.checks
  /\ Refuse("NOMEM")
  /\ UNCHANGED <<token, limits, poolVars, placeVars, clauseVars>>

ChecksDone ==
  /\ pc = "next" /\ phase = "checks" /\ msg > Len(Here.checks)
  /\ IF block + 1 < Len(token)
     THEN /\ block' = block + 1 /\ phase' = "scope" /\ msg' = 1
          /\ UNCHANGED <<pc, status>>
     ELSE Refuse("OK") /\ UNCHANGED <<block, phase, msg>>
  /\ UNCHANGED <<token, limits, poolVars, clauseVars, query, at, trust>>

-----------------------------------------------------------------------------

LoadStep == \/ ReadName \/ ReadTerm \/ ReadOperand \/ Unnamed \/ NoSymbolRoom
            \/ Reserve \/ PoolFull \/ PredicateDone \/ NextPredicate \/ NextExpression
            \/ PlaceFact \/ PlaceRule \/ PlaceQuery \/ PlaceCheck
            \/ BadScope \/ UnboundRule \/ NoCheckRoom
            \/ NextFact \/ FactsDone \/ BlockTrust \/ NextRule \/ RulesDone
            \/ NextCheck \/ NextQuery \/ ChecksDone

Stopped == pc = "stopped" /\ UNCHANGED loadVars

\* bs_symtab_init and bs_world_init: the table is seeded with the token's own
\* symbols, in their order, and the pools are empty.
LoadInit ==
  /\ token \in Tokens /\ limits \in Limits
  /\ entries = Seed(token)
  /\ facts = <<>> /\ rules = <<>> /\ checks = <<>>
  /\ used = [p \in Pools |-> 0]
  /\ block = 0 /\ phase = "facts" /\ msg = 1 /\ query = 1 /\ at = 0
  /\ trust = {}
  /\ made = <<>> /\ cur = NoTerms /\ tests = <<>> /\ given = <<>>
  /\ pc = "next" /\ status = "none"

LoadNext == LoadStep \/ Stopped

LoadSpec == LoadInit /\ [][LoadNext]_loadVars

-----------------------------------------------------------------------------

Places == {"next", "query", "name", "room", "terms", "body", "preds", "exprs",
           "tests", "ops", "value", "operand", "place", "stopped"}

\* Every variable of the loader has its type.
LoadTypeOK ==
  /\ entries \in Seq(Text)
  /\ facts \in Seq(Fact) /\ rules \in Seq(Rule) /\ checks \in Seq(Check)
  /\ used \in [Pools -> Nat]
  /\ \A p \in Pools : used[p] <= limits[p]
  /\ Len(facts) <= limits.facts /\ Len(rules) <= limits.rules
  /\ Len(checks) <= limits.checks
  /\ Len(entries) <= Len(Seed(token)) + limits.extra
  /\ block \in 0 .. MaxBlocks - 1
  /\ phase \in {"facts", "scope", "rules", "checks"}
  /\ msg \in Nat \ {0} /\ query \in Nat \ {0} /\ at \in Nat /\ trust \in Origin
  /\ made \in Seq(Predicate) /\ cur \in Predicate
  /\ tests \in Seq(Test) /\ given \in Seq(Texts \cup Variables)
  /\ pc \in Places
  /\ status \in {"none", "OK", "MALFORMED", "NOMEM", "UNBOUND"}

\* The numbers the loaded statements hold.
NumbersOf(pred) == {pred.name} \cup {pred.terms[k].sym : k \in DOMAIN pred.terms}

TestNumbers(e) == {e.left.sym, e.right.sym}

ClauseNumbers(r) ==
  NumbersOf(r.head) \cup (UNION {NumbersOf(r.body[i]) : i \in DOMAIN r.body})
  \cup (UNION {TestNumbers(r.expr[e]) : e \in DOMAIN r.expr})

WorldNumbers == (UNION {NumbersOf(facts[n]) : n \in DOMAIN facts})
                \cup (UNION {ClauseNumbers(rules[n]) : n \in DOMAIN rules})

\* Two numbers in a world are equal exactly when they spell the same,
\* whichever blocks stated them and whichever tables numbered them: two facts
\* that read the same are the same fact, and no two others are
\* (105_symtab.inc:10-16, 115-122).
OneSymbolOneText ==
  \A i, j \in WorldNumbers :
    /\ CanName(entries, i)
    /\ TextOf(entries, i) = TextOf(entries, j) => i = j

-----------------------------------------------------------------------------
(* What the loader knows at every moment.                                  *)

\* A number is canonical in a table that would give it to its own text.
Canonical(table, i) == CanName(table, i) /\ NumberOf(table, TextOf(table, i)) = i

AllCanonical(table, S) == \A i \in S : Canonical(table, i)

\* So are all the numbers of the world and of the clause at hand.
NumbersCanonical ==
  /\ \A n \in DOMAIN facts : AllCanonical(entries, NumbersOf(facts[n]))
  /\ \A n \in DOMAIN rules : AllCanonical(entries, ClauseNumbers(rules[n]))
  /\ \A n \in DOMAIN made : AllCanonical(entries, NumbersOf(made[n]))
  /\ \A n \in DOMAIN tests : AllCanonical(entries, TestNumbers(tests[n]))
  /\ \A n \in DOMAIN given : Canonical(entries, given[n].sym)
  /\ pc \in {"room", "terms"} => AllCanonical(entries, NumbersOf(cur))

InClause == pc \notin {"next", "query", "stopped"}

AtStatement ==
  \/ phase = "facts" /\ msg \in DOMAIN Here.facts
  \/ phase = "rules" /\ msg \in DOMAIN Here.rules
  \/ /\ phase = "checks" /\ msg \in DOMAIN Here.checks
     /\ query \in DOMAIN Here.checks[msg].queries

\* There is room for the statement at hand, and the queries of a check fill
\* the run that was asked for.
RoomAhead ==
  /\ phase = "facts" /\ InClause => Len(facts) < limits.facts
  /\ phase = "rules" /\ InClause => Len(rules) < limits.rules
  /\ phase = "checks" /\ (InClause \/ pc = "query") =>
       /\ Len(rules) = at + query - 1
       /\ at + Len(Here.checks[msg].queries) <= limits.rules

\* The loops stand on a statement there is, with room for it, and a check is
\* one that means something.
OnStatement ==
  /\ block < Len(token)
  /\ RoomAhead
  /\ InClause => AtStatement
  /\ pc = "query" => phase = "checks" /\ msg \in DOMAIN Here.checks
  /\ phase = "checks" /\ (InClause \/ pc = "query") => Here.checks[msg].kind # "unknown"

\* The clause at hand is read in its order: head, body, expressions.
InOrder ==
  /\ pc \in {"name", "room", "terms"} => Len(made) <= Len(CurrentClause.body)
  /\ InClause /\ pc \notin {"name", "room", "terms"} => made # <<>>
  /\ pc \in {"ops", "value", "operand"} => Len(tests) < Len(CurrentClause.expr)

\* The inductive invariant of the loader: wherever it stops, the loops stand
\* on a statement there is, with room for it, the clause is read in its order,
\* and every number read from any block is the one its text has in `entries`.
LoadInv ==
  /\ token \in Tokens /\ limits \in Limits
  /\ OnStatement
  /\ InOrder
  /\ NumbersCanonical
=============================================================================
