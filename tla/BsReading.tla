----------------------------- MODULE BsReading -----------------------------
(***************************************************************************)
(* What a token says, spelled out: the text of every statement as the one  *)
(* who signed its block wrote it, and the trust each clause asked for.     *)
(* The loader is compared with it.                                         *)
(***************************************************************************)
EXTENDS BsLoad, FiniteSets

\* Who signs a block of the chain has seen the blocks before it; a third
\* party has seen none.
SignersTables(t, b) ==
  IF t[b + 1].external # NoKey THEN Collect(<<t[b + 1]>>, FALSE)
  ELSE TokenTables(SubSeq(t, 1, b + 1))

\* What a symbol spells, if anything.
Spelled(table, i) == IF CanName(table, i) THEN <<TextOf(table, i)>> ELSE <<>>

SpelledTerm(table, u) == [kind |-> u.kind, text |-> Spelled(table, u.sym)]

SpelledPredicate(table, p) ==
  [name |-> Spelled(table, p.name),
   terms |-> [k \in DOMAIN p.terms |-> SpelledTerm(table, p.terms[k])]]

SpelledTest(table, e) == [op |-> e.op, left |-> SpelledTerm(table, e.left),
                          right |-> SpelledTerm(table, e.right)]

SpelledClause(table, c) ==
  [head |-> SpelledPredicate(table, c.head),
   body |-> [i \in DOMAIN c.body |-> SpelledPredicate(table, c.body[i])],
   expr |-> [e \in DOMAIN c.expr |-> SpelledTest(table, c.expr[e])]]

\* The tables the host reads a block against go on from those its signer had.
TablesGoOn ==
  \A t \in Tokens : \A b \in 0 .. Len(t) - 1 :
    /\ IsPrefix(SignersTables(t, b).symbols, Tables(t, b).symbols)
    /\ IsPrefix(SignersTables(t, b).keys, Tables(t, b).keys)

-----------------------------------------------------------------------------
(* The statements of a token.                                              *)

PerBlock(t, Part(_, _)) == FlattenSeq([i \in DOMAIN t |-> Part(t, i - 1)])

\* The scope annotations that count: a clause's own, or its block's, or the
\* authority.
Annotations(t, b, c) ==
  IF c.scopes # <<>> THEN c.scopes
  ELSE IF t[b + 1].scopes # <<>> THEN t[b + 1].scopes
  ELSE <<[kind |-> "authority"]>>

\* Block i is one an annotation of block b names.
Names(t, b, s, i) ==
  \/ s.kind = "authority" /\ i = 0
  \/ s.kind = "previous" /\ i <= b
  \/ /\ s.kind = "key" /\ s.key < Len(SignersTables(t, b).keys)
     /\ t[i + 1].external = SignersTables(t, b).keys[s.key + 1]

TrustAsked(t, b, c) ==
  {Authorizer, b} \cup
  {i \in 0 .. Len(t) - 1 : \E s \in ToSet(Annotations(t, b, c)) : Names(t, b, s, i)}

StatedClause(t, b, c, is_query) ==
  [said |-> SpelledClause(SignersTables(t, b).symbols, c), is_query |-> is_query,
   trust |-> TrustAsked(t, b, c), block |-> b]

FactsOf(t, b) ==
  [n \in DOMAIN t[b + 1].facts |->
     [said |-> SpelledPredicate(SignersTables(t, b).symbols, t[b + 1].facts[n]),
      origin |-> {b}]]

RulesOf(t, b) ==
  [n \in DOMAIN t[b + 1].rules |-> StatedClause(t, b, t[b + 1].rules[n], FALSE)]

QueriesOf(t, b, c) ==
  [n \in DOMAIN c.queries |-> StatedClause(t, b, c.queries[n], TRUE)]

ClausesOf(t, b) ==
  RulesOf(t, b) \o FlattenSeq([m \in DOMAIN t[b + 1].checks |->
                                 QueriesOf(t, b, t[b + 1].checks[m])])

ChecksOf(t, b) ==
  [m \in DOMAIN t[b + 1].checks |->
     [kind |-> t[b + 1].checks[m].kind, block |-> b,
      queries |-> QueriesOf(t, b, t[b + 1].checks[m])]]

\* The clauses of a token as they are on the wire.
WireClauses(t, b) ==
  t[b + 1].rules \o FlattenSeq([m \in DOMAIN t[b + 1].checks |->
                                  t[b + 1].checks[m].queries])

-----------------------------------------------------------------------------
(* The world, read back through the interning table.                       *)

WorldFacts == [n \in DOMAIN facts |->
                 [said |-> SpelledPredicate(entries, facts[n]), origin |-> facts[n].origin]]

WorldClause(r) == [said |-> SpelledClause(entries, r), is_query |-> r.is_query,
                   trust |-> r.trust, block |-> r.block]

WorldRules == [n \in DOMAIN rules |-> WorldClause(rules[n])]

WorldChecks ==
  [n \in DOMAIN checks |->
     [kind |-> checks[n].kind, block |-> checks[n].block,
      queries |-> [i \in 1 .. checks[n].query_count |->
                     WorldClause(rules[checks[n].query_at + i])]]]

-----------------------------------------------------------------------------
(* What a token needs to be loaded.                                        *)

AsClause(p) == [head |-> p, body |-> <<>>, expr |-> <<>>, scopes |-> <<>>]

Statements(t, b) == [n \in DOMAIN t[b + 1].facts |-> AsClause(t[b + 1].facts[n])]
                    \o WireClauses(t, b)

\* Every symbol and every scope means something, every check asks something.
Readable(t, b, tables) ==
  /\ \A c \in ToSet(Statements(t, b)) :
       /\ \A i \in ClauseNumbers(c) : CanName(tables.symbols, i)
       /\ \A s \in ToSet(c.scopes) \cup ToSet(t[b + 1].scopes) :
            /\ s.kind # "unknown"
            /\ s.kind = "key" => s.key < Len(tables.keys)
  /\ \A s \in ToSet(t[b + 1].scopes) : s.kind # "unknown" /\
                                       (s.kind = "key" => s.key < Len(tables.keys))
  /\ \A c \in ToSet(t[b + 1].checks) : c.kind # "unknown" /\ c.queries # <<>>

\* Every signer could read what he signed.
Sensible(t) == \A b \in 0 .. Len(t) - 1 : Readable(t, b, SignersTables(t, b))

\* The same, with what the token as a whole offers.
WellFormed(t) == \A b \in 0 .. Len(t) - 1 : Readable(t, b, Tables(t, b))

\* A clause whose body names every variable of its head.
BindsHead(said) ==
  \A k \in DOMAIN said.head.terms : said.head.terms[k].kind = "variable" =>
    \E i \in DOMAIN said.body : said.head.terms[k] \in ToSet(said.body[i].terms)

AllBound(t) ==
  \A b \in 0 .. Len(t) - 1 : \A n \in DOMAIN t[b + 1].rules :
    BindsHead(SpelledClause(Tables(t, b).symbols, t[b + 1].rules[n]))

\* The sum of the first n of ns, and of all of them.
SumTo(ns, n) ==
  LET sum[k \in 0 .. Len(ns)] == IF k = 0 THEN 0 ELSE sum[k - 1] + ns[k]
  IN  sum[n]

SumOf(ns) == SumTo(ns, Len(ns))

\* The terms of each predicate of a clause, the head first.
TermTakes(c) == [n \in 1 .. Len(c.body) + 1 |->
                   Len((IF n = 1 THEN c.head ELSE c.body[n - 1]).terms)]

\* What a clause takes of each pool it has a run in.
PoolTake(p, c) ==
  CASE p = "terms" -> SumOf(TermTakes(c)) + 2 * Len(c.expr)
    [] p = "preds" -> Len(c.body)
    [] p = "exprs" -> Len(c.expr)
    [] p = "ops" -> 3 * Len(c.expr)

\* What each statement takes of anything there is only so much of.
Resources == Pools \cup {"facts", "rules", "checks"}

FactTake(p, f) == IF p \in Pools THEN PoolTake(p, AsClause(f)) ELSE IF p = "facts" THEN 1 ELSE 0

ClauseTake(p, c) == IF p \in Pools THEN PoolTake(p, c) ELSE IF p = "rules" THEN 1 ELSE 0

QueryTakes(p, c) == [q \in DOMAIN c.queries |-> ClauseTake(p, c.queries[q])]

CheckTake(p, c) == SumOf(QueryTakes(p, c)) + IF p = "checks" THEN 1 ELSE 0

FactTakes(p, m) == [n \in DOMAIN m.facts |-> FactTake(p, m.facts[n])]
RuleTakes(p, m) == [n \in DOMAIN m.rules |-> ClauseTake(p, m.rules[n])]
CheckTakes(p, m) == [n \in DOMAIN m.checks |-> CheckTake(p, m.checks[n])]

FactsTake(p, t) == [i \in DOMAIN t |-> SumOf(FactTakes(p, t[i]))]
LogicTake(p, t) == [i \in DOMAIN t |-> SumOf(RuleTakes(p, t[i])) + SumOf(CheckTakes(p, t[i]))]

Needs(p, t) == SumOf(FactsTake(p, t)) + SumOf(LogicTake(p, t))

\* The texts a token needs that its table does not begin with.
NewTexts(t) ==
  (UNION {{Spelled(Tables(t, b).symbols, i) :
             i \in UNION {ClauseNumbers(c) : c \in ToSet(Statements(t, b))}} : b \in 0 .. Len(t) - 1})
  \ ({<<>>} \cup {<<s>> : s \in ToSet(WellKnown) \cup ToSet(Seed(t))})

\* There is room for all of it.
Suffices(t, lim) ==
  /\ \A p \in Resources : Needs(p, t) <= lim[p]
  /\ Cardinality(NewTexts(t)) <= lim.extra

-----------------------------------------------------------------------------

\* At every moment, and wherever a load breaks off, the world says what the
\* blocks say, each as its signer wrote it, from the first statement on and
\* with nothing added: no symbol is read through another block's table, no
\* clause trusts more or less than it asked for, no rule is taken for a
\* query, no check is without one of its queries.  A load that succeeds has
\* left nothing out (110_load.inc:344-348, 444-487, 918-1042).
LoadsWhatIsStated ==
  Sensible(token) =>
    /\ IsPrefix(WorldFacts, PerBlock(token, FactsOf))
    /\ IsPrefix(WorldRules, PerBlock(token, ClausesOf))
    /\ IsPrefix(WorldChecks, PerBlock(token, ChecksOf))
    /\ status = "OK" => /\ Len(facts) = Len(PerBlock(token, FactsOf))
                        /\ Len(rules) = Len(PerBlock(token, ClausesOf))
                        /\ Len(checks) = Len(PerBlock(token, ChecksOf))

\* A load fails for the reason it gives, and a token that gives it no reason
\* is loaded: what is refused is malformed, or has an unbound rule, or is
\* larger than the room the host gave; what is accepted is none of these.
RefusesForCause ==
  /\ status = "MALFORMED" => ~WellFormed(token)
  /\ status = "UNBOUND" => ~AllBound(token)
  /\ status = "NOMEM" => ~Suffices(token, limits)
  /\ status = "OK" => WellFormed(token) /\ AllBound(token) /\ Suffices(token, limits)

-----------------------------------------------------------------------------
(* What is read at every moment.                                           *)

FactParts == [i \in DOMAIN token |-> FactsOf(token, i - 1)]
ClauseParts == [i \in DOMAIN token |-> ClausesOf(token, i - 1)]
CheckParts == [i \in DOMAIN token |-> ChecksOf(token, i - 1)]
QueryParts == [m \in DOMAIN Here.checks |-> QueriesOf(token, block, Here.checks[m])]

\* The first n parts, one after the other.
FirstParts(parts, n) == FlattenSeq(SubSeq(parts, 1, n))

\* The first n of a part.
FirstOf(part, n) == SubSeq(part, 1, n)

InCheck == phase = "checks" /\ (InClause \/ pc = "query")

FactsRead ==
  WorldFacts = IF phase = "facts"
               THEN FirstParts(FactParts, block) \o FirstOf(FactsOf(token, block), msg - 1)
               ELSE FlattenSeq(FactParts)

QueriesRead == IF InCheck THEN FirstOf(QueryParts[msg], query - 1) ELSE <<>>

LogicRead ==
  CASE phase \in {"facts", "scope"} -> <<>>
    [] phase = "rules" -> FirstOf(RulesOf(token, block), msg - 1)
    [] phase = "checks" -> RulesOf(token, block) \o (FirstParts(QueryParts, msg - 1) \o QueriesRead)

RulesRead == WorldRules = FirstParts(ClauseParts, IF phase = "facts" THEN 0 ELSE block) \o LogicRead

ChecksRead ==
  WorldChecks = FirstParts(CheckParts, IF phase = "facts" THEN 0 ELSE block)
                \o (IF phase = "checks" THEN FirstOf(ChecksOf(token, block), msg - 1) ELSE <<>>)

\* A check's run of the rule pool is one that is filled.
RunsFilled == \A n \in DOMAIN checks : checks[n].query_at + checks[n].query_count <= Len(rules)

\* No loop is past its end.
WithinLoops ==
  /\ phase = "scope" => msg = 1
  /\ phase = "facts" => msg - 1 <= Len(Here.facts)
  /\ phase = "rules" => msg - 1 <= Len(Here.rules)
  /\ phase = "checks" => msg - 1 <= Len(Here.checks)
  /\ InCheck => query - 1 <= Len(Here.checks[msg].queries)

TrustRead == phase \in {"rules", "checks"} => trust = Trust(token, block, Here.scopes, {0})

\* Predicate n of the clause at hand, the head first.
PredicateAt(n) == IF n = 1 THEN CurrentClause.head ELSE CurrentClause.body[n - 1]

PredicatesRead ==
  /\ Len(made) <= Len(CurrentClause.body) + 1
  /\ \A n \in DOMAIN made : SpelledPredicate(entries, made[n])
                            = SpelledPredicate(From.symbols, PredicateAt(n))
  /\ pc \in {"room", "terms"} =>
       /\ Spelled(entries, cur.name) = Spelled(From.symbols, Wanted.name)
       /\ Len(cur.terms) <= Len(Wanted.terms)
       /\ \A k \in DOMAIN cur.terms : SpelledTerm(entries, cur.terms[k])
                                      = SpelledTerm(From.symbols, Wanted.terms[k])

TestsRead ==
  /\ Len(tests) <= Len(CurrentClause.expr)
  /\ \A n \in DOMAIN tests : SpelledTest(entries, tests[n])
                             = SpelledTest(From.symbols, CurrentClause.expr[n])
  /\ given # <<>> =>
       /\ Len(given) = 1 /\ pc \in {"value", "operand"}
       /\ SpelledTerm(entries, given[1]) = SpelledTerm(From.symbols, NextTest.left)

\* The clause is read to where the turn says.
ReadSoFar ==
  /\ pc \in {"name", "room", "terms", "body", "preds", "exprs"} => tests = <<>>
  /\ pc \in {"exprs", "tests", "ops", "value", "operand", "place"} =>
       Len(made) = Len(CurrentClause.body) + 1
  /\ pc = "place" => Len(tests) = Len(CurrentClause.expr)

ClauseRead == InClause => PredicatesRead /\ TestsRead /\ ReadSoFar

\* While it runs, the world says what the token says before the place of the
\* loops, the clause at hand what it says before the turn.
ReadInv ==
  pc # "stopped" =>
    /\ status = "none"
    /\ ClauseRead /\ TrustRead /\ WithinLoops /\ RunsFilled
    /\ Sensible(token) => FactsRead /\ RulesRead /\ ChecksRead

-----------------------------------------------------------------------------
(* What a refusal rests on at every moment.                                *)

\* What is taken of a resource.
Taken(p) == IF p \in Pools THEN used[p]
            ELSE CASE p = "facts" -> Len(facts) [] p = "rules" -> Len(rules)
                   [] p = "checks" -> Len(checks)

\* What the statements before the one at hand take ...
RuledSoFar(p) ==
  CASE phase = "scope" -> 0
    [] phase = "rules" -> SumTo(RuleTakes(p, Here), msg - 1)
    [] phase = "checks" -> SumOf(RuleTakes(p, Here)) + SumTo(CheckTakes(p, Here), msg - 1)
                           + IF InCheck THEN SumTo(QueryTakes(p, Here.checks[msg]), query - 1)
                             ELSE 0

TakenBefore(p) ==
  IF phase = "facts"
  THEN SumTo(FactsTake(p, token), block) + SumTo(FactTakes(p, Here), msg - 1)
  ELSE SumOf(FactsTake(p, token)) + SumTo(LogicTake(p, token), block) + RuledSoFar(p)

\* ... and what the turns of that one took so far.
TakenHere(p) ==
  CASE p = "terms" -> SumTo(TermTakes(CurrentClause), Len(made))
                      + (IF pc = "terms" THEN Len(Wanted.terms) ELSE 0)
                      + 2 * Len(tests) + Len(given) + (IF pc = "operand" THEN 1 ELSE 0)
    [] p = "preds" -> IF made # <<>> /\ pc # "body" THEN Len(CurrentClause.body) ELSE 0
    [] p = "exprs" -> IF pc \in {"tests", "ops", "value", "operand", "place"}
                      THEN Len(CurrentClause.expr) ELSE 0
    [] p = "ops" -> 3 * (Len(tests) + IF pc \in {"value", "operand"} THEN 1 ELSE 0)

Accounted ==
  \A p \in Resources :
    Taken(p) = TakenBefore(p) + IF InClause /\ p \in Pools THEN TakenHere(p) ELSE 0

\* A clause whose every symbol has a name, and the name a number.
Readied(b, c) == \A i \in ClauseNumbers(c) :
                   /\ CanName(Tables(token, b).symbols, i)
                   /\ Known(entries, TextOf(Tables(token, b).symbols, i))

ReadiedScoped(b, c) == /\ Readied(b, c)
                       /\ \A s \in ToSet(c.scopes) : Resolvable(token, b, s)

ReadiedRule(b, c) == ReadiedScoped(b, c) /\ BindsHead(SpelledClause(Tables(token, b).symbols, c))

ReadiedQueries(b, c, n) == \A q \in DOMAIN c.queries : q < n => ReadiedScoped(b, c.queries[q])

\* The loops have gone past statement n of block b.
FactBehind(b, n) == phase # "facts" \/ b < block \/ (b = block /\ n < msg)
LogicBehind(b) == phase # "facts" /\ b < block
ScopeBehind(b) == LogicBehind(b) \/ (b = block /\ phase \in {"rules", "checks"})
RuleBehind(b, n) == LogicBehind(b) \/ (b = block /\ (phase = "checks" \/ (phase = "rules" /\ n < msg)))
CheckBehind(b, n) == LogicBehind(b) \/ (b = block /\ phase = "checks" /\ n < msg)

ReadiedBehind ==
  \A b \in 0 .. Len(token) - 1 :
    LET m == token[b + 1]
    IN  /\ \A n \in DOMAIN m.facts : FactBehind(b, n) => Readied(b, AsClause(m.facts[n]))
        /\ ScopeBehind(b) => \A s \in ToSet(m.scopes) : Resolvable(token, b, s)
        /\ \A n \in DOMAIN m.rules : RuleBehind(b, n) => ReadiedRule(b, m.rules[n])
        /\ \A n \in DOMAIN m.checks : CheckBehind(b, n) =>
             ~Meaningless(m.checks[n])
             /\ ReadiedQueries(b, m.checks[n], Len(m.checks[n].queries) + 1)

QueriesReadied ==
  InCheck => ~Meaningless(Here.checks[msg]) /\ ReadiedQueries(block, Here.checks[msg], query)

\* The table goes on from its seed by texts the token needs, each once.
EntriesNeeded ==
  /\ IsPrefix(Seed(token), entries)
  /\ \A j \in Len(Seed(token)) + 1 .. Len(entries) :
       /\ <<entries[j]>> \in NewTexts(token)
       /\ \A k \in 1 .. Len(entries) : entries[j] = entries[k] => j = k

\* While it runs, every pool holds what the statements before the turn take,
\* all of these are as they should be, and the table holds what they need.
CauseInv ==
  pc # "stopped" =>
    /\ status = "none" /\ ClauseRead /\ WithinLoops
    /\ Accounted /\ ReadiedBehind /\ QueriesReadied /\ EntriesNeeded
=============================================================================
