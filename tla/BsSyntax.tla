------------------------------ MODULE BsSyntax ------------------------------
(***************************************************************************)
(* What a text says: the readings of a run of tokens, by what it is made   *)
(* of, with no stack and no lookahead.  A run of tokens has as many        *)
(* readings as the grammar allows.                                         *)
(***************************************************************************)
EXTENDS BsLexicon, BsCode, FiniteSets

Front_(ts) == SubSeq(ts, 1, Len(ts) - 1)
From(ts, i) == SubSeq(ts, i, Len(ts))
Upto(ts, i) == SubSeq(ts, 1, i)
Within(ts) == SubSeq(ts, 2, Len(ts) - 1)

Is(t, p) == t.kind = "punct" /\ t.text = p
IsOne(t, ps) == t.kind = "punct" /\ t.text \in ps
Says(t, w) == t.kind = "ident" /\ t.text = w
Begins(ts, p) == ts # <<>> /\ Is(ts[1], p)
Ends(ts, p) == ts # <<>> /\ Is(ts[Len(ts)], p)
Encloses(ts, p, q) == Len(ts) >= 2 /\ Begins(ts, p) /\ Ends(ts, q)

\* How many brackets are open before place i.
OpenAt(ts, i) == Cardinality({j \in 1 .. i-1 : IsOne(ts[j], {"(", "[", "{"})})
                 - Cardinality({j \in 1 .. i-1 : IsOne(ts[j], {")", "]", "}"})})
Outside(ts, ps) == {i \in DOMAIN ts : IsOne(ts[i], ps) /\ OpenAt(ts, i) = 0}

\* The runs between the separators that are in no bracket.
Pieces(ts, p) ==
  LET cuts == <<0>> \o SetToSortSeq(Outside(ts, {p}), LAMBDA i, j : i < j) \o <<Len(ts) + 1>>
  IN  [k \in 1 .. Len(cuts) - 1 |-> SubSeq(ts, cuts[k] + 1, cuts[k + 1] - 1)]

\* A reading of each of several runs, one by one.
Each(sets) == IF \E k \in DOMAIN sets : sets[k] = {} THEN {}
              ELSE {[k \in DOMAIN sets |-> CHOOSE r \in sets[k] : TRUE]}

-----------------------------------------------------------------------------
(* Terms.                                                                  *)

Scalars(ts) ==
  CASE Len(ts) = 1 /\ ts[1].kind \in {"string", "variable", "integer", "date", "bytes"} ->
         {[kind |-> ts[1].kind, text |-> ts[1].text]}
    [] Len(ts) = 1 /\ (Says(ts[1], "true") \/ Says(ts[1], "false")) ->
         {[kind |-> "bool", text |-> ts[1].text]}
    [] Len(ts) = 1 /\ Says(ts[1], "null") -> {[kind |-> "null", text |-> "null"]}
    [] Len(ts) = 2 /\ Is(ts[1], "-") /\ ts[2].kind = "integer" ->
         {[kind |-> "negative", text |-> ts[2].text]}
    [] OTHER -> {}

\* A comma may follow the last element.
Listed(ts) == IF Len(ts) > 1 /\ Ends(ts, ",") THEN Pieces(Front_(ts), ",") ELSE Pieces(ts, ",")

Container(kind, seqs) == {[kind |-> kind, items |-> s] : s \in seqs}

RECURSIVE TermReadings(_)
TermReadings(ts) ==
  LET listed == Listed(Within(ts))
      list == Each([k \in DOMAIN listed |-> TermReadings(listed[k])])
      pair(e) == UNION {Each(<<TermReadings(Upto(e, i - 1)), TermReadings(From(e, i + 1))>>) :
                        i \in Outside(e, {":"})}
      pairs == {FlattenSeq(s) : s \in Each([k \in DOMAIN listed |-> pair(listed[k])])}
  IN  Scalars(ts) \cup
      (CASE Encloses(ts, "[", "]") ->
              Container("array", IF Within(ts) = <<>> THEN {<<>>} ELSE list)
         [] Encloses(ts, "{", "}") ->
              (IF Within(ts) = <<>> THEN Container("map", {<<>>})
               ELSE IF Len(ts) = 3 /\ Is(ts[2], ",") THEN Container("set", {<<>>})
               ELSE Container("set", list) \cup Container("map", pairs))
         [] OTHER -> {})

-----------------------------------------------------------------------------
(* Expressions, as trees (BsCode).  A closure extends to the end of the    *)
(* bracket it is in, so it can only be the last operand of one.            *)

Joined(op, l, r) == Node(IF IsLazy(op) THEN "lazy" ELSE "binary", KindOf(op), <<l, r>>)

RECURSIVE ExprReadings(_, _, _)
ExprReadings(n, ts, last) ==
  LET Bracketed(run_) == ExprReadings(1, run_, TRUE)
      dots == {i \in Outside(ts, {"."}) : i + 3 <= Len(ts) /\ ts[i + 1].kind = "ident"
                                          /\ Is(ts[i + 2], "(") /\ Ends(ts, ")")}
      Receivers(i) == ExprReadings(10, Upto(ts, i - 1), FALSE)
      Called(i) == ts[i + 1].text
      Given(i) == SubSeq(ts, i + 3, Len(ts) - 1)
      Calling(i) ==
        CASE Called(i) \in NullaryMethods /\ Given(i) = <<>> ->
               {Node("unary", NullaryKind(Called(i)), <<r>>) : r \in Receivers(i)}
          [] Called(i) \in Methods ->
               {Node(IF Called(i) = "try_or" THEN "try" ELSE "binary", Called(i), <<r, a>>) :
                  r \in Receivers(i), a \in Bracketed(Given(i))}
          [] Called(i) \in DOMAIN ExternNames /\ ExternNames[Called(i)] # NoName ->
               IF Given(i) = <<>> THEN {Extern(ExternNames[Called(i)], <<r>>) : r \in Receivers(i)}
               ELSE {Extern(ExternNames[Called(i)], <<r, a>>) :
                       r \in Receivers(i), a \in Bracketed(Given(i))}
          [] OTHER -> {}
  IN  IF ts = <<>> THEN {}
      ELSE IF n < UnaryLevel
      THEN ExprReadings(n + 1, ts, last) \cup
           UNION {{Joined(ts[i].text, l, r) : l \in ExprReadings(n, Upto(ts, i - 1), FALSE),
                                              r \in ExprReadings(n + 1, From(ts, i + 1), last)} :
                  i \in Outside(ts, Levels[n])}
      ELSE IF n = UnaryLevel
      THEN ExprReadings(10, ts, last) \cup
           (IF Begins(ts, "!") THEN {Node("unary", "negate", <<e>>) :
                                     e \in ExprReadings(UnaryLevel, Tail(ts), last)} ELSE {})
      ELSE {Leaf(t) : t \in TermReadings(ts)} \cup
           UNION {Calling(i) : i \in dots} \cup
           (IF Encloses(ts, "(", ")") THEN {Node("unary", "parens", <<e>>) :
                                            e \in Bracketed(Within(ts))} ELSE {}) \cup
           (IF last /\ Len(ts) > 2 /\ ts[1].kind = "variable" /\ Is(ts[2], "->")
            THEN {Arrow(ts[1].text, e) : e \in Bracketed(From(ts, 3))} ELSE {})

\* One comparison of another, with no parentheses to say which is meant.
Compares(t) == t.node = "binary" /\ \E o \in Operators : o[2] = t.kind /\ o[1] \in Levels[CompareLevel]
RECURSIVE Chained(_)
Chained(t) == /\ t.node # "value"
              /\ \/ Compares(t) /\ Compares(t.args[1])
                 \/ \E i \in DOMAIN t.args : Chained(t.args[i])

-----------------------------------------------------------------------------
(* Statements.                                                             *)

PredicateReadings(ts) ==
  LET inner == SubSeq(ts, 3, Len(ts) - 1)
      listed == IF inner = <<>> THEN <<>> ELSE Pieces(inner, ",")
  IN  IF ~(Len(ts) >= 3 /\ ts[1].kind = "ident" /\ Is(ts[2], "(") /\ Ends(ts, ")")) THEN {}
      ELSE {[name |-> ts[1].text, terms |-> s] :
              s \in Each([k \in DOMAIN listed |-> TermReadings(listed[k])])}

\* The language has no reserved words: any name may be a predicate's.
LooksLikePredicate(ts) == Len(ts) >= 2 /\ ts[1].kind = "ident" /\ Is(ts[2], "(")

\* An element of a body: [of |-> predicate] or [tree |-> expression].
ElementReadings(ts) ==
  IF LooksLikePredicate(ts) THEN {[of |-> p] : p \in PredicateReadings(ts)}
  ELSE {[tree |-> e] : e \in ExprReadings(1, ts, FALSE)}

\* The blocks an annotation of block b names, among blocks with these signers.
ScopeReadings(ts, b, keys) ==
  IF Len(ts) # 1 THEN {}
  ELSE CASE Says(ts[1], "authority") -> {{0}}
         [] Says(ts[1], "previous") -> {IF b = Authorizer THEN {} ELSE 0 .. b}
         [] ts[1].kind = "key" -> {{i \in 0 .. Len(keys) - 1 : keys[i + 1] = ts[1].text}}
         [] OTHER -> {}

TrustReadings(ts, b, keys) ==
  LET listed == Pieces(ts, ",")
  IN  {{Authorizer, b} \cup UNION Range(s) :
         s \in Each([k \in DOMAIN listed |-> ScopeReadings(listed[k], b, keys)])}

\* `where` says who reads: the block, the keys of the token's blocks, and
\* what a body trusts that does not say.
BodyReadings(ts, where) ==
  LET Listing(run_) == LET listed == Pieces(run_, ",")
                       IN  Each([k \in DOMAIN listed |-> ElementReadings(listed[k])])
      Asserts(s, scope) == [elements |-> s, trust |-> scope]
  IN  {Asserts(s, where.default) : s \in Listing(ts)} \cup
      UNION {{Asserts(s, scope) : s \in Listing(Upto(ts, i - 1)),
                                  scope \in TrustReadings(From(ts, i + 1), where.block, where.keys)} :
             i \in {j \in DOMAIN ts : Says(ts[j], "trusting")}}

\* A clause: what bs_world keeps of a rule or a query.
Clause(hd, b, where) ==
  [head |-> hd, trust |-> b.trust, block |-> where.block,
   body |-> SelectSeq(b.elements, LAMBDA e : "of" \in DOMAIN e),
   tests |-> SelectSeq(b.elements, LAMBDA e : "tree" \in DOMAIN e)]

\* `or` may also be the name of a predicate.
QueryReadings(ts, where) ==
  LET ors == {i \in DOMAIN ts : Says(ts[i], "or") /\ OpenAt(ts, i) = 0}
      Cuts(chosen) == <<0>> \o SetToSortSeq(chosen, LAMBDA i, j : i < j) \o <<Len(ts) + 1>>
      Between(cuts) == Each([k \in 1 .. Len(cuts) - 1 |->
                               {Clause(<<>>, b, where) :
                                  b \in BodyReadings(SubSeq(ts, cuts[k] + 1, cuts[k + 1] - 1), where)}])
  IN  UNION {Between(Cuts(chosen)) : chosen \in SUBSET ors}

\* The variables of a term, however deep they stand in it.
RECURSIVE VariablesIn(_)
VariablesIn(t) == IF t.kind = "variable" THEN {t}
                  ELSE IF "items" \in DOMAIN t THEN UNION {VariablesIn(e) : e \in Range(t.items)}
                  ELSE {}
VariablesOf(p) == UNION {VariablesIn(t) : t \in Range(p.terms)}

\* A fact holds no variable, and a rule binds every one its head holds, by a
\* term of its body.
Outright(p) == VariablesOf(p) = {}
Binds(body, v) == \E p \in body : v \in Range(p.terms)
BindsHead(c) == \A v \in VariablesOf(c.head[1]) : Binds({c.body[i].of : i \in DOMAIN c.body}, v)

Kinds == {<<"check", "if", "one">>, <<"check", "all", "all">>, <<"reject", "if", "reject">>,
          <<"allow", "if", "allow">>, <<"deny", "if", "deny">>}

StatementReadings(ts, where) ==
  LET asked == {k \in Kinds : Len(ts) > 2 /\ Says(ts[1], k[1]) /\ Says(ts[2], k[2])}
      arrows == Outside(ts, {"<-"})
  IN  UNION {{[kind |-> k[3], queries |-> s] : s \in QueryReadings(From(ts, 3), where)} : k \in asked}
      \cup {[kind |-> "fact", pred |-> p, origin |-> {where.block}] :
              p \in {q \in PredicateReadings(ts) : Outright(q)}}
      \cup UNION {{[kind |-> "rule", clause |-> c] :
                     c \in {d \in {Clause(<<p>>, b, where) :
                                     p \in PredicateReadings(Upto(ts, i - 1)),
                                     b \in BodyReadings(From(ts, i + 1), where)} : BindsHead(d)}} :
                  i \in arrows}

\* A text: statements, each ended by a semicolon save perhaps the last; and
\* before them, in a block, what all of it trusts.
TextReadings(ts, b, keys) ==
  LET pieces == Pieces(ts, ";")
      opens == Len(pieces) > 1 /\ b # Authorizer /\ pieces[1] # <<>>
               /\ Says(pieces[1][1], "trusting") /\ ~LooksLikePredicate(pieces[1])
      rest == IF opens THEN Tail(pieces) ELSE pieces
      stated == IF rest[Len(rest)] = <<>> THEN Front_(rest) ELSE rest
      defaults == IF opens THEN TrustReadings(Tail(pieces[1]), b, keys) ELSE {{Authorizer, 0, b}}
  IN  UNION {Each([k \in DOMAIN stated |->
                     StatementReadings(stated[k], [block |-> b, keys |-> keys, default |-> d])]) :
             d \in defaults}

\* A clause as a world or a block has it, its expressions in code.
Compiled(c) ==
  [head |-> c.head, trust |-> c.trust, block |-> c.block,
   body |-> [i \in DOMAIN c.body |-> c.body[i].of],
   tests |-> [i \in DOMAIN c.tests |-> Compile(c.tests[i].tree)]]
=============================================================================
