------------------------------- MODULE BsParse -------------------------------
(***************************************************************************)
(* Reading Datalog (140_parse.inc: bs_world_parse): facts, rules, checks   *)
(* and policies, from text into the pools the loader fills from the wire.  *)
(* The text belongs to a block of the chain or to the authorizer, whose    *)
(* origin bit is MaxBlocks.                                                *)
(***************************************************************************)
EXTENDS BsExprParse, SequencesExt

CONSTANTS
  Hosts,       \* the texts a host parses into one world, for which blocks, next
               \* to which token: [calls, signers, limits]
  MaxBody,     \* BS_MAX_BODY
  Unsigned     \* for a block with no external signature

ASSUME ParseAssumption ==
  /\ MaxBlocks \in Nat \ {0} /\ MaxBody \in Nat
  /\ Unsigned \notin Spelling
  /\ \A h \in Hosts : /\ h.calls \in Seq([source : Seq(Token), block : 0 .. MaxBlocks])
                      /\ h.signers \in Seq(Spelling \cup {Unsigned})
                      /\ Len(h.signers) <= MaxBlocks
                      /\ h.limits \in Limit

VARIABLES
  calls,          \* the texts still to parse
  begun,          \* what the world held when this text was begun
  block,          \* bs_parser.block
  signers,        \* the external keys of p->token's blocks, none without a token
  preds,          \* bs_world.preds[0 .. pred_count-1]
  exprs,          \* bs_world.exprs[0 .. expr_count-1]
  facts,          \* bs_world.facts[0 .. fact_count-1]
  rules,          \* bs_world.rules[0 .. rule_count-1]
  checks,         \* bs_world.checks[0 .. check_count-1]
  policies,       \* bs_world.policies[0 .. policy_count-1]
  default_trust,  \* bs_parser.default_trust
  form,           \* which statement this is
  head,           \* its head, once it is read
  queries_at,     \* where its queries begin
  body, tests,    \* bs_p_body's preds and exprs
  name, args,     \* bs_p_predicate: the name, p->pscratch[0 .. n-1]
  trust           \* what this body trusts

hostVars == <<calls, begun, sourceVars, block, signers>>
worldVars == <<preds, exprs, facts, rules, checks, policies>>
statementVars == <<default_trust, form, head, queries_at>>
bodyVars == <<body, tests, name, args, trust>>
readerVars == <<tokenVars, termVars, exprVars>>
parseVars == <<hostVars, poolVars, worldVars, statementVars, bodyVars, readerVars, controlVars>>

-----------------------------------------------------------------------------
(* Predicates.                                                             *)

\* A name and `(`.  Three words are terms whatever follows.
StartsPredicate == /\ tok.kind = "ident"
                   /\ ~IsWord("true") /\ ~IsWord("false") /\ ~IsWord("null")
                   /\ Peek.kind = "punct" /\ Peek.text = "("

ReadName ==
  /\ pc = "predicate"
  /\ \/ tok.kind # "ident" /\ Halt("MALFORMED") /\ UNCHANGED <<known, name>>
     \/ tok.kind = "ident" /\ ~Interns(tok.text) /\ Halt("NOMEM") /\ UNCHANGED <<known, name>>
     \/ /\ tok.kind = "ident" /\ Interns(tok.text)
        /\ known' = known \cup {tok.text} /\ name' = tok.text
        /\ Fetch("named_predicate")
  /\ args' = <<>>
  /\ UNCHANGED <<terms, ops, params, worldVars, statementVars, body, tests, trust, termVars, exprVars>>

OpenArguments ==
  /\ pc = "named_predicate"
  /\ \/ IsPunct("(") /\ Fetch("arguments")
     \/ ~IsPunct("(") /\ Halt("MALFORMED")
  /\ UNCHANGED <<poolVars, worldVars, statementVars, bodyVars, termVars, exprVars>>

StartArgument ==
  /\ pc = "next_argument" \/ (pc = "arguments" /\ ~IsPunct(")"))
  /\ \/ Len(args) >= Scratch /\ Halt("LIMIT") /\ UNCHANGED termVars
     \/ Len(args) < Scratch /\ CallTerm("argument") /\ UNCHANGED <<tokenVars, status, value>>
  /\ UNCHANGED <<poolVars, worldVars, statementVars, bodyVars, exprVars>>

TakeArgument ==
  /\ pc = "argument"
  /\ args' = Append(args, value)
  /\ \/ IsPunct(",") /\ Fetch("next_argument")
     \/ ~IsPunct(",") /\ Stay("end_arguments")
  /\ UNCHANGED <<poolVars, worldVars, statementVars, body, tests, name, trust, termVars, exprVars>>

Predicate == [name |-> name, at |-> Len(terms), count |-> Len(args)]
IsHead == form = "clause" /\ head = <<>>

FinishPredicate ==
  /\ pc = "end_arguments" \/ (pc = "arguments" /\ IsPunct(")"))
  /\ \/ ~IsPunct(")") /\ Halt("MALFORMED")
     \/ /\ IsPunct(")")
        /\ FetchFrom(pos, FALSE, IF IsHead THEN "head" ELSE "element_read",
                     IF Fits(terms, Len(args), limits.terms) THEN "OK" ELSE "NOMEM")
  /\ IF Proceeds
     THEN /\ terms' = terms \o args
          /\ IF IsHead THEN head' = <<Predicate>> /\ UNCHANGED body
             ELSE body' = Append(body, Predicate) /\ UNCHANGED head
     ELSE UNCHANGED <<terms, head, body>>
  /\ UNCHANGED <<ops, params, known, worldVars, default_trust, form, queries_at,
                 tests, name, args, trust, termVars, exprVars>>

ReadPredicate == ReadName \/ OpenArguments \/ StartArgument \/ TakeArgument \/ FinishPredicate

-----------------------------------------------------------------------------
(* Bodies and what they trust.                                             *)

Self == {block}     \* bs_p_self: the authorizer has a bit of its own
IsBlock == block < MaxBlocks

StartBody ==
  /\ pc = "body"
  /\ body' = <<>> /\ tests' = <<>>
  /\ Stay("element")
  /\ UNCHANGED <<poolVars, worldVars, statementVars, name, args, trust, termVars, exprVars>>

\* Two tokens tell a predicate from an expression.
CannotTell == /\ tok.kind = "ident" /\ Peek.kind = "bad"
              /\ ~IsWord("true") /\ ~IsWord("false") /\ ~IsWord("null")

StartElement ==
  /\ pc = "element"
  /\ \/ CannotTell /\ Halt("MALFORMED") /\ UNCHANGED <<out, stack, operand_at, last_prec>>
     \/ /\ ~CannotTell
        /\ IF StartsPredicate THEN Len(body) >= MaxBody ELSE Len(tests) >= MaxBody
        /\ Halt("LIMIT") /\ UNCHANGED <<out, stack, operand_at, last_prec>>
     \/ /\ ~CannotTell /\ StartsPredicate /\ Len(body) < MaxBody
        /\ Stay("predicate") /\ UNCHANGED <<out, stack, operand_at, last_prec>>
     \/ /\ ~CannotTell /\ ~StartsPredicate /\ Len(tests) < MaxBody
        /\ CallExpression /\ UNCHANGED <<tokenVars, status>>
  /\ UNCHANGED <<poolVars, worldVars, statementVars, bodyVars, termVars, method, run>>

TakeExpression ==
  /\ pc = "expressed"
  /\ tests' = Append(tests, run)
  /\ Stay("element_read")
  /\ UNCHANGED <<poolVars, worldVars, statementVars, body, name, args, trust, termVars, exprVars>>

NextElement ==
  /\ pc = "element_read"
  /\ \/ IsPunct(",") /\ Fetch("element")
     \/ ~IsPunct(",") /\ Stay("trusting")
  /\ UNCHANGED <<poolVars, worldVars, statementVars, bodyVars, termVars, exprVars>>

\* bs_p_trusting: an annotation replaces the default.
ReadTrusting ==
  /\ pc = "trusting"
  /\ \/ ~IsWord("trusting") /\ trust' = default_trust /\ Stay("end_body")
     \/ IsWord("trusting") /\ trust' = {Authorizer} \cup Self /\ Fetch("scope")
  /\ UNCHANGED <<poolVars, worldVars, statementVars, body, tests, name, args, termVars, exprVars>>

SignedBy(key) == {i \in 0 .. Len(signers) - 1 : signers[i + 1] = key}

\* A slip: in the authorizer, "previous" is all of the chain.
ScopeAddsAll ==
  IF IsWord("authority") THEN {0}
  ELSE IF IsWord("previous") THEN 0 .. block
  ELSE SignedBy(tok.text)

\* bs_p_scope.
ScopeAdds ==
  IF IsWord("authority") THEN {0}
  ELSE IF IsWord("previous") THEN (IF IsBlock THEN 0 .. block ELSE {})
  ELSE SignedBy(tok.text)

IsScope == IsWord("authority") \/ IsWord("previous") \/ tok.kind = "key"

ReadScope ==
  /\ pc = "scope"
  /\ \/ IsScope /\ trust' = trust \cup ScopeAdds /\ Fetch("scope_read")
     \/ tok.kind = "other_key" /\ Halt("UNSUPPORTED") /\ UNCHANGED trust
     \/ ~IsScope /\ tok.kind # "other_key" /\ Halt("MALFORMED") /\ UNCHANGED trust
  /\ UNCHANGED <<poolVars, worldVars, statementVars, body, tests, name, args, termVars, exprVars>>

NextScope ==
  /\ pc = "scope_read"
  /\ \/ IsPunct(",") /\ Fetch("scope")
     \/ ~IsPunct(",") /\ Stay(IF form = "block" THEN "end_clause" ELSE "end_body")
  /\ UNCHANGED <<poolVars, worldVars, statementVars, bodyVars, termVars, exprVars>>

\* A rule's run of predicates and run of expressions, and where they will be.
Rule == [head |-> head, is_query |-> head = <<>>, trust |-> trust, block |-> block,
         body_at |-> Len(preds), body_count |-> Len(body),
         expr_at |-> Len(exprs), expr_count |-> Len(tests)]

\* bs_rule_bound, of the rule about to be placed.
TermsOf(p) == SubSeq(terms, p.at + 1, p.at + p.count)
Unbound == \E t \in ToSet(TermsOf(head[1])) :
             /\ t.kind = "variable"
             /\ \A i \in DOMAIN body : t \notin ToSet(TermsOf(body[i]))

Placing == IF ~Fits(preds, Len(body), limits.preds) THEN "NOMEM"
           ELSE IF ~Fits(exprs, Len(tests), limits.exprs) THEN "NOMEM"
           ELSE IF Len(rules) >= limits.rules THEN "NOMEM"
           ELSE IF head # <<>> /\ Unbound THEN "UNBOUND" ELSE "OK"

\* A slip: the rule is counted before it is known to be bound.
CountsUnbound == Placing \in {"OK", "UNBOUND"}

Counts == Placing = "OK"

\* The end of bs_p_body, and the rule or the query it was.
PlaceRule ==
  /\ pc = "end_body"
  /\ preds' = IF Fits(preds, Len(body), limits.preds) THEN preds \o body ELSE preds
  /\ exprs' = IF /\ Fits(preds, Len(body), limits.preds)
                 /\ Fits(exprs, Len(tests), limits.exprs)
              THEN exprs \o tests ELSE exprs
  /\ rules' = IF Counts THEN Append(rules, Rule) ELSE rules
  /\ \/ Placing # "OK" /\ Halt(Placing)
     \/ /\ Placing = "OK"
        /\ Stay(IF form = "clause" THEN "end_statement" ELSE "asked")
  /\ UNCHANGED <<poolVars, facts, checks, policies, statementVars, bodyVars, termVars, exprVars>>

ReadBody == \/ StartBody \/ StartElement \/ TakeExpression \/ NextElement
            \/ ReadTrusting \/ ReadScope \/ NextScope \/ PlaceRule

-----------------------------------------------------------------------------
(* Statements.                                                             *)

CheckForms == {"one", "all", "reject"}
PolicyForms == {"allow", "deny"}

\* A slip: a check asks the queries of the one before as well.
FirstQuerySame == queries_at

FirstQuery == Len(rules)

\* check if, check all, reject if, allow if, deny if; or a head.
StartStatement ==
  /\ pc = "statement" /\ tok.kind # "eof"
  /\ head' = <<>> /\ queries_at' = FirstQuery
  /\ \/ IsWord("check") /\ form' = "check" /\ Fetch("asks")
     \/ IsWord("reject") /\ form' = "reject" /\ Fetch("asks")
     \/ IsWord("allow") /\ form' = "allow" /\ Fetch("asks")
     \/ IsWord("deny") /\ form' = "deny" /\ Fetch("asks")
     \/ /\ \A w \in {"check", "reject", "allow", "deny"} : ~IsWord(w)
        /\ form' = "clause" /\ Stay("predicate")
  /\ UNCHANGED <<poolVars, worldVars, default_trust, bodyVars, termVars, exprVars>>

StartQueries ==
  /\ pc = "asks"
  /\ \/ IsWord("if") /\ Fetch("body") /\ form' = IF form = "check" THEN "one" ELSE form
     \/ IsWord("all") /\ form = "check" /\ Fetch("body") /\ form' = "all"
     \/ /\ ~IsWord("if") /\ ~(IsWord("all") /\ form = "check")
        /\ Halt("MALFORMED") /\ UNCHANGED form
  /\ UNCHANGED <<poolVars, worldVars, default_trust, head, queries_at, bodyVars, termVars, exprVars>>

NextQuery ==
  /\ pc = "asked" /\ IsWord("or")
  /\ Fetch("body")
  /\ UNCHANGED <<poolVars, worldVars, statementVars, bodyVars, termVars, exprVars>>

Asks == [kind |-> form, query_at |-> queries_at, query_count |-> Len(rules) - queries_at]

PlaceCheck ==
  /\ pc = "asked" /\ ~IsWord("or") /\ form \in CheckForms
  /\ \/ Len(checks) >= limits.checks /\ Halt("NOMEM") /\ UNCHANGED checks
     \/ /\ Len(checks) < limits.checks /\ Stay("end_statement")
        /\ checks' = Append(checks, [asks |-> Asks, block |-> block])
  /\ UNCHANGED <<poolVars, preds, exprs, facts, rules, policies, statementVars, bodyVars,
                 termVars, exprVars>>

PlacePolicy ==
  /\ pc = "asked" /\ ~IsWord("or") /\ form \in PolicyForms
  /\ \/ Len(policies) >= limits.policies /\ Halt("NOMEM") /\ UNCHANGED policies
     \/ /\ Len(policies) < limits.policies /\ Stay("end_statement")
        /\ policies' = Append(policies, Asks)
  /\ UNCHANGED <<poolVars, preds, exprs, facts, rules, checks, statementVars, bodyVars,
                 termVars, exprVars>>

StartRule ==
  /\ pc = "head" /\ IsPunct("<-")
  /\ Fetch("body")
  /\ UNCHANGED <<poolVars, worldVars, statementVars, bodyVars, termVars, exprVars>>

\* A slip: the loop ends one term early.
StatesVariableBefore == \E t \in ToSet(SubSeq(TermsOf(head[1]), 1, head[1].count - 1)) : t.kind = "variable"

\* A variable among a fact's terms.
StatesVariable == \E t \in ToSet(TermsOf(head[1])) : t.kind = "variable"

PlaceFact ==
  /\ pc = "head" /\ ~IsPunct("<-")
  /\ \/ StatesVariable /\ Halt("MALFORMED") /\ UNCHANGED facts
     \/ ~StatesVariable /\ Len(facts) >= limits.facts /\ Halt("NOMEM") /\ UNCHANGED facts
     \/ /\ ~StatesVariable /\ Len(facts) < limits.facts /\ Stay("end_statement")
        /\ facts' = Append(facts, [pred |-> head[1], origin |-> Self])
  /\ UNCHANGED <<poolVars, preds, exprs, rules, checks, policies, statementVars, bodyVars,
                 termVars, exprVars>>

EndStatement ==
  /\ pc = "end_statement"
  /\ \/ IsPunct(";") /\ Fetch("statement")
     \/ tok.kind = "eof" /\ Stay("statement")
     \/ ~IsPunct(";") /\ tok.kind # "eof" /\ Halt("MALFORMED")
  /\ UNCHANGED <<poolVars, worldVars, statementVars, bodyVars, termVars, exprVars>>

ReadStatement == \/ StartStatement \/ StartQueries \/ NextQuery \/ PlaceCheck \/ PlacePolicy
                 \/ StartRule \/ PlaceFact \/ EndStatement

-----------------------------------------------------------------------------
(* The text.                                                               *)

Held == [facts |-> Len(facts), rules |-> Len(rules),
         checks |-> Len(checks), policies |-> Len(policies)]

\* bs_world_parse is called, perhaps after a call that failed.
CallParse ==
  /\ pc = "stopped" /\ calls # <<>>
  /\ calls' = Tail(calls) /\ begun' = Held
  /\ source' = calls[1].source /\ block' = calls[1].block
  /\ default_trust' = {Authorizer, 0, calls[1].block}
  /\ pos' = 1 /\ form' = "none"
  /\ pc' = "start" /\ status' = "none"
  /\ UNCHANGED <<signers, limits, poolVars, worldVars, head, queries_at, bodyVars,
                 tok, termVars, exprVars>>

\* The scratch arrays are the arena's, which may be exhausted.
Start ==
  /\ pc = "start"
  /\ \/ Fetch("first")
     \/ Halt("NOMEM")
  /\ UNCHANGED <<poolVars, worldVars, statementVars, bodyVars, termVars, exprVars>>

\* A block may begin by saying what all of it trusts, unless `trusting` is
\* the name of a predicate.
OpensClause == IsWord("trusting") /\ ~StartsPredicate

StartText ==
  /\ pc = "first"
  /\ \/ IsWord("trusting") /\ Peek.kind = "bad" /\ Halt("MALFORMED") /\ UNCHANGED form
     \/ /\ Peek.kind # "bad" /\ OpensClause /\ ~IsBlock
        /\ Halt("MALFORMED") /\ UNCHANGED form
     \/ Peek.kind # "bad" /\ OpensClause /\ IsBlock /\ form' = "block" /\ Stay("trusting")
     \/ ~OpensClause /\ Stay("statement") /\ UNCHANGED form
  /\ UNCHANGED <<poolVars, worldVars, default_trust, head, queries_at, bodyVars, termVars, exprVars>>

EndClause ==
  /\ pc = "end_clause"
  /\ default_trust' = trust
  /\ \/ IsPunct(";") /\ Fetch("statement")
     \/ ~IsPunct(";") /\ Halt("MALFORMED")
  /\ UNCHANGED <<poolVars, worldVars, form, head, queries_at, bodyVars, termVars, exprVars>>

EndText ==
  /\ pc = "statement" /\ tok.kind = "eof"
  /\ pc' = "stopped" /\ status' = "OK"
  /\ UNCHANGED <<poolVars, worldVars, statementVars, bodyVars, readerVars>>

-----------------------------------------------------------------------------

Init ==
  /\ \E h \in Hosts : calls = h.calls /\ signers = h.signers /\ limits = h.limits
  /\ source = <<>> /\ block = Authorizer
  /\ terms = <<>> /\ ops = <<>> /\ params = <<>> /\ known = {}
  /\ preds = <<>> /\ exprs = <<>>
  /\ facts = <<>> /\ rules = <<>> /\ checks = <<>> /\ policies = <<>>
  /\ begun = Held
  /\ default_trust = {Authorizer, 0} /\ form = "none" /\ head = <<>> /\ queries_at = 0
  /\ body = <<>> /\ tests = <<>> /\ name = NoName /\ args = <<>> /\ trust = {}
  /\ pos = 1 /\ tok = Eof
  /\ items = <<>> /\ frames = <<>> /\ value = NoTerm /\ back = "none"
  /\ out = <<>> /\ stack = <<>> /\ operand_at = 0 /\ last_prec = 0
  /\ method = NoCall /\ run = NoRun
  /\ pc = "stopped" /\ status = "none"

Parse == \/ Start \/ StartText \/ EndClause \/ EndText
         \/ ReadStatement \/ ReadBody \/ ReadPredicate
         \/ (ReadTerm \/ ReadExpression) /\ UNCHANGED <<worldVars, statementVars, bodyVars>>

\* All the texts of the host have been read, or refused.
AllRead == pc = "stopped" /\ calls = <<>> /\ UNCHANGED parseVars

Next == CallParse \/ (Parse /\ UNCHANGED hostVars) \/ AllRead

ParseSpec == Init /\ [][Next]_parseVars
-----------------------------------------------------------------------------

TermPlaces == {"term", "opened", "comma", "empty", "close", "value"}
CallPlaces == {"have", "dot", "named", "called"}
ExprPlaces == {"want", "operand", "closing", "binary", "ending"} \cup CallPlaces
BodyPlaces == {"body", "element", "expressed", "element_read", "trusting", "scope", "scope_read",
               "end_body", "predicate", "named_predicate", "arguments", "next_argument",
               "argument", "end_arguments"}
TextPlaces == {"stopped", "start", "first", "end_clause", "statement", "asks", "asked", "head",
               "end_statement"}
Forms == {"none", "clause", "block", "check"} \cup CheckForms \cup PolicyForms

Origins == SUBSET (0 .. MaxBlocks)
Pred == [name : Spelling, at : Nat, count : Nat]
Run == [at : Nat, count : Nat]
Asked == [kind : CheckForms \cup PolicyForms, query_at : Nat, query_count : Nat]
UpToOne(S) == {<<>>} \cup {<<x>> : x \in S}

\* The types of the state.
ParseTypeOK ==
  /\ calls \in Seq([source : Seq(Token), block : 0 .. MaxBlocks])
  /\ source \in Seq(Token) /\ limits \in Limit /\ block \in 0 .. MaxBlocks
  /\ signers \in Seq(Spelling \cup {Unsigned}) /\ Len(signers) <= MaxBlocks
  /\ begun \in [facts : Nat, rules : Nat, checks : Nat, policies : Nat]
  /\ terms \in Seq(Term) /\ ops \in Seq(Op) /\ params \in Seq(Spelling) /\ known \subseteq Spelling
  /\ preds \in Seq(Pred) /\ exprs \in Seq(Run)
  /\ facts \in Seq([pred : Pred, origin : Origins])
  /\ rules \in Seq([head : Seq(Pred), is_query : BOOLEAN, trust : Origins, block : 0 .. MaxBlocks,
                    body_at : Nat, body_count : Nat, expr_at : Nat, expr_count : Nat])
  /\ checks \in Seq([asks : Asked, block : 0 .. MaxBlocks]) /\ policies \in Seq(Asked)
  /\ default_trust \in Origins /\ form \in Forms /\ head \in Seq(Pred) /\ Len(head) <= 1
  /\ queries_at \in Nat /\ trust \in Origins
  /\ body \in Seq(Pred) /\ tests \in Seq(Run) /\ args \in Seq(Term)
  /\ name \in Spelling \cup {NoName}
  /\ pos \in Nat \ {0} /\ tok \in Token
  /\ items \in Seq(Term) /\ value \in Term
  /\ frames \in Seq([kind : ContainerKinds \cup {"unknown"}, close : {"]", "}"}, base : Nat])
  /\ out \in Seq(Op)
  /\ stack \in Seq([what : {"unary", "binary", "paren", "method", "closure"},
                    sign : {"!", "(", "->", "ffi"} \cup Binary \cup Methods,
                    out : Nat, name : Spelling \cup {NoName}])
  /\ operand_at \in Nat /\ last_prec \in 0 .. UnaryLevel
  /\ method \in [tag : {"none", "extern", "unary", "binary"},
                 kind : {"none", "ffi"} \cup UnaryKinds \cup Methods, name : Spelling \cup {NoName}]
  /\ run \in Run
  /\ back \in {"none", "operand", "argument"}
  /\ pc \in TermPlaces \cup ExprPlaces \cup BodyPlaces \cup TextPlaces
  /\ status \in {"none", "OK", "MALFORMED", "NOMEM", "LIMIT", "DEPTH", "UNBOUND", "UNSUPPORTED"}

-----------------------------------------------------------------------------
(* The stacks stay within their arrays, and no mark of one is beyond what  *)
(* it marks: a closure is cut out of code that has been emitted, and what  *)
(* is moved was there (140_parse.inc:182-330, 512-546, 570-878).           *)

Marked(e) == e.what # "unary"

FramesOrdered ==
  \A i \in DOMAIN frames : /\ frames[i].base <= Len(items)
                           /\ \A j \in 1 .. i : frames[j].base <= frames[i].base

StackOrdered ==
  \A i \in DOMAIN stack : Marked(stack[i]) =>
    /\ stack[i].out <= Len(out)
    /\ \A j \in 1 .. i : Marked(stack[j]) => stack[j].out <= stack[i].out

\* Where a method may be called, its receiver is the last of the code, and
\* what the operators before it have marked is before it.
ReceiverLast ==
  pc \in CallPlaces =>
    /\ operand_at < Len(out)
    /\ \A i \in DOMAIN stack : Marked(stack[i]) => stack[i].out <= operand_at

\* Neither stack outgrows its array, and no closure is cut from behind the
\* end of the code.
MarksHold ==
  /\ Len(frames) <= MaxDepth /\ Len(items) <= Scratch
  /\ Len(stack) <= MaxDepth /\ Len(out) <= Scratch
  /\ Len(args) <= Scratch /\ Len(body) <= MaxBody /\ Len(tests) <= MaxBody
  /\ FramesOrdered
  /\ pc \in TermPlaces \cup ExprPlaces => StackOrdered
  /\ ReceiverLast

-----------------------------------------------------------------------------
(* What the pools hold names only what was there before it, so that what   *)
(* walks them later comes to an end (140_parse.inc:290-330, 485-563,       *)
(* 860-878, 1110-1184).                                                    *)

TermEnds(t, n) == t.kind \in ContainerKinds => t.at + t.count <= n
OpEnds(o, n, nt) ==
  /\ o.op = "value" => o.term < nt
  /\ o.op = "closure" => o.at + o.count <= n /\ o.param_at + o.param_count <= Len(params)

TermsPointBack ==
  /\ \A i \in DOMAIN terms : TermEnds(terms[i], i - 1)
  /\ \A i \in DOMAIN items : TermEnds(items[i], Len(terms))
  /\ \A i \in DOMAIN args : TermEnds(args[i], Len(terms))
  /\ TermEnds(value, Len(terms))

OpsPointBack ==
  /\ \A i \in DOMAIN ops : OpEnds(ops[i], i - 1, Len(terms))
  /\ \A i \in DOMAIN out : OpEnds(out[i], Len(ops), Len(terms))

PredEnds(p) == p.at + p.count <= Len(terms)
RunEnds(r) == r.at + r.count <= Len(ops)

RulesPointBack ==
  /\ \A i \in DOMAIN preds : PredEnds(preds[i])
  /\ \A i \in DOMAIN exprs : RunEnds(exprs[i])
  /\ \A i \in DOMAIN facts : PredEnds(facts[i].pred)
  /\ \A i \in DOMAIN rules : /\ \A j \in DOMAIN rules[i].head : PredEnds(rules[i].head[j])
                             /\ rules[i].body_at + rules[i].body_count <= Len(preds)
                             /\ rules[i].expr_at + rules[i].expr_count <= Len(exprs)

AsksQueries(a) ==
  /\ a.query_count > 0 /\ a.query_at + a.query_count <= Len(rules)
  /\ \A i \in a.query_at + 1 .. a.query_at + a.query_count : rules[i].is_query

\* No term holds itself, no closure is its own body, and a check asks at
\* least one query and only queries, whatever texts were read or given up.
RunsPointBack ==
  /\ TermsPointBack /\ OpsPointBack /\ RulesPointBack
  /\ \A i \in DOMAIN checks : AsksQueries(checks[i].asks)
  /\ \A i \in DOMAIN policies : AsksQueries(policies[i])

\* Both: wherever a text is read to or given up, the marks of the parser are
\* into the code there is, and the pools into what was placed before
\* (140_parse.inc:485-563, 860-878, 1110-1184).
PlacesHold == MarksHold /\ RunsPointBack
=============================================================================
