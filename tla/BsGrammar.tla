------------------------------ MODULE BsGrammar ------------------------------
(***************************************************************************)
(* A world spelled out, and what the texts read into it say.               *)
(***************************************************************************)
EXTENDS BsParse, BsSyntax

-----------------------------------------------------------------------------
(* The world, spelled out: no run, but what it holds.                      *)

RunOf(pool, r) == SubSeq(pool, r.at + 1, r.at + r.count)

RECURSIVE SpelledTerm(_)
SpelledTerm(t) ==
  IF t.kind \notin ContainerKinds THEN t
  ELSE [kind |-> t.kind, items |-> [i \in 1 .. t.count |-> SpelledTerm(terms[t.at + i])]]

RECURSIVE SpelledCode(_)
SpelledCode(r) ==
  FlattenSeq([i \in 1 .. r.count |->
    LET o == ops[r.at + i]
    IN  CASE o.op = "value" -> <<[op |-> "value", term |-> SpelledTerm(terms[o.term + 1])]>>
          [] o.op = "closure" ->
               Closure(SubSeq(params, o.param_at + 1, o.param_at + o.param_count), SpelledCode(o))
          [] o.op \in {"unary", "binary"} /\ o.kind # "ffi" -> Code(o.op, o.kind)
          [] o.op \in {"unary", "binary"} /\ o.kind = "ffi" ->
               <<[op |-> o.op, kind |-> "ffi", name |-> o.name]>>])

SpelledPredicate(p) ==
  [name |-> p.name, terms |-> [i \in 1 .. p.count |-> SpelledTerm(terms[p.at + i])]]

SpelledRule(r) ==
  [head |-> [i \in DOMAIN r.head |-> SpelledPredicate(r.head[i])],
   trust |-> r.trust, block |-> r.block,
   body |-> [i \in 1 .. r.body_count |-> SpelledPredicate(preds[r.body_at + i])],
   tests |-> [i \in 1 .. r.expr_count |-> SpelledCode(exprs[r.expr_at + i])]]

OfKind(text, kinds) == SelectSeq(text, LAMBDA s : s.kind \in kinds)
New(pool, n) == From(pool, n + 1)

SpelledQueries(c) == [i \in 1 .. c.query_count |-> SpelledRule(rules[c.query_at + i])]
CompiledQueries(s) == [i \in DOMAIN s.queries |-> Compiled(s.queries[i])]

\* What this call has added to the world is what `text` says.
NewFacts == [i \in 1 .. Len(facts) - begun.facts |->
               [pred |-> SpelledPredicate(facts[begun.facts + i].pred),
                origin |-> facts[begun.facts + i].origin]]
NewRules == LET added == SelectSeq(New(rules, begun.rules), LAMBDA r : ~r.is_query)
            IN  [i \in DOMAIN added |-> SpelledRule(added[i])]
NewChecks == [i \in 1 .. Len(checks) - begun.checks |->
                LET c == checks[begun.checks + i]
                IN  [kind |-> c.asks.kind, queries |-> SpelledQueries(c.asks), block |-> c.block]]
NewPolicies == [i \in 1 .. Len(policies) - begun.policies |->
                  LET p == policies[begun.policies + i]
                  IN  [kind |-> p.kind, queries |-> SpelledQueries(p)]]

States(text) ==
  LET said(kinds) == OfKind(text, kinds)
      facts_ == said({"fact"})  rules_ == said({"rule"})
      checks_ == said(CheckForms)  policies_ == said(PolicyForms)
  IN  /\ NewFacts = [i \in DOMAIN facts_ |-> [pred |-> facts_[i].pred, origin |-> facts_[i].origin]]
      /\ NewRules = [i \in DOMAIN rules_ |-> Compiled(rules_[i].clause)]
      /\ NewChecks = [i \in DOMAIN checks_ |-> [kind |-> checks_[i].kind, block |-> block,
                                                queries |-> CompiledQueries(checks_[i])]]
      /\ NewPolicies = [i \in DOMAIN policies_ |-> [kind |-> policies_[i].kind,
                                                    queries |-> CompiledQueries(policies_[i])]]

Readings(n) == TextReadings(Upto(source, n), block, signers)

\* Where the statements that were read may end: before the token that was
\* refused, if not at a semicolon.
Unread == pos - IF tok.kind = "negative" THEN 3 ELSE 2
Breaks == {0, Unread} \cup {i \in DOMAIN source : Is(source[i], ";")}

ClausesOf(s) == IF s.kind = "rule" THEN {s.clause} ELSE IF s.kind = "fact" THEN {} ELSE Range(s.queries)
TreesOf(s) == UNION {{c.tests[i].tree : i \in DOMAIN c.tests} : c \in ClausesOf(s)}
ChainedText(text) == \E k \in DOMAIN text : \E t \in TreesOf(text[k]) : Chained(t)

\* The parser looks for variables only among the terms of a fact or a head
\* (140_parse.inc:1318-1322, bs_rule_bound), not inside a container, though
\* its comment (:1316) says that nothing in a fact may be a variable.  What the
\* call has added holds one there that nothing binds.
VariablesWithin(p) == UNION {VariablesIn(t) : t \in {u \in Range(p.terms) : u.kind # "variable"}}
HoldsHoles ==
  \/ \E f \in Range(NewFacts) : VariablesWithin(f.pred) # {}
  \/ \E r \in Range(NewRules) : \E v \in VariablesWithin(r.head[1]) : ~Binds(Range(r.body), v)

\* The parser's comment says that the language has no reserved words
\* (140_parse.inc:1383-1384).  A fact or a head cannot be named by a word that
\* opens another statement, nor a predicate of a body by one that is a value.
Opening_ == {k[1] : k \in Kinds}
Values_ == {"true", "false", "null"}
NamedByWord(s) ==
  \/ s.kind = "fact" /\ s.pred.name \in Opening_
  \/ s.kind = "rule" /\ s.clause.head[1].name \in Opening_
  \/ \E c \in ClausesOf(s) : \E i \in DOMAIN c.body : c.body[i].of.name \in Values_
UsesWord(text) == \E k \in DOMAIN text : NamedByWord(text[k])

Ended == pc = "stopped" /\ status # "none"

-----------------------------------------------------------------------------

\* A text that is accepted puts into the world what it says and nothing
\* else: each expression is the code of the tree the precedences make of it,
\* each statement trusts what it, its block or its place says, and a check or
\* a policy asks its own queries, whatever was read before, or given up
\* (140_parse.inc:570-1426).  This is not so of a text whose fact holds a
\* variable in a container, or whose rule leaves one in its head unbound, which
\* says nothing and is accepted: HoldsHoles.
ReadsAsWritten ==
  Ended /\ status = "OK" /\ ~HoldsHoles => \E text \in Readings(Len(source)) : States(text)

\* A text that is refused, anywhere in it and for any reason, leaves whole
\* statements: what the text says up to a semicolon, or up to the token no
\* semicolon is at, and of the statement it broke off in nothing but queries
\* nobody asks (140_parse.inc:1148-1333).  Texts with holes aside, as above.
BreaksOffBetween ==
  Ended /\ status # "OK" /\ ~HoldsHoles =>
    \E n \in Breaks : \E text \in Readings(n) : States(text)

\* What is refused as a text is none, or compares a comparison, or has one of
\* eight words for the name of a predicate where the parser takes it for
\* something else (UsesWord): no other reading is lost to a stack, to a token
\* looked at too early, or to a minus taken for a sign
\* (140_parse.inc:182-330, 570-878).
RefusesForCause ==
  Ended /\ status \in {"MALFORMED", "UNBOUND", "UNSUPPORTED"} =>
    \A text \in Readings(Len(source)) : ChainedText(text) \/ UsesWord(text)

\* A comment of bs_p_expression (140_parse.inc:819): "Comparisons do not
\* chain: `a < b < c` is refused rather than read as something its author did
\* not mean."
ComparisonsDoNotChain ==
  Ended /\ status = "OK" => \A text \in Readings(Len(source)) : ~ChainedText(text)
=============================================================================
