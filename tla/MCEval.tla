------------------------------- MODULE MCEval -------------------------------
(***************************************************************************)
(* Evaluating what the parser writes, for trees of every operator, and op  *)
(* streams no parser would write, which the loader takes off the wire all  *)
(* the same.                                                               *)
(***************************************************************************)
EXTENDS BsEval, BsExpression

True == Bool_(TRUE)
False == Bool_(FALSE)
Text(t) == [kind |-> "string", text |-> t]
Date(n) == [kind |-> "date", int |-> n]
Holder(kind, items) == [kind |-> kind, items |-> items]
Var(name) == [kind |-> "variable", name |-> name]

MCExterns == {"f"}
MCExternOf(name, args) == IF Len(args) = 1 THEN Answer(True, 0) ELSE Failure("TYPE")

\* The host binds h.
Host == <<[name |-> "h", value |-> Int_(1)]>>

-----------------------------------------------------------------------------
(* What the parser writes. *)

L(v) == Leaf(v)
V(name) == Leaf(Var(name))
B(kind, a, b) == Node("binary", kind, <<a, b>>)
U(kind, a) == Node("unary", kind, <<a>>)
Try(a, b) == Node("try", "try_or", <<a, b>>)

NoItems == Holder("set", <<>>)
OneTwo == Holder("set", <<Int_(1), Int_(2)>>)
TwoOne == Holder("set", <<Int_(2), Int_(1)>>)
Mixed == Holder("array", <<True, Int_(1)>>)
Pairs == Holder("map", <<Int_(1), True, Text(<<"a">>), Int_(2)>>)

\* What may be true, may be false, may fail or may be no boolean; V("u") is
\* a variable nobody binds.
Basic == {L(True), L(False), V("u"), L(Int_(1))}

Lazies == {Node("lazy", k, <<a, b>>) : k \in {"lazy_and", "lazy_or"}, a \in Basic, b \in Basic}

Bodies == {B("greater", V("p"), L(Int_(1))), B("equal", V("p"), V("h")), V("p"), L(True),
           Node("lazy", "lazy_or", <<B("less", V("p"), L(Int_(2))), V("u")>>)}
Loops == {Loop(k, L(c), "p", b) :
            k \in {"all", "any"}, c \in {NoItems, OneTwo, Mixed, Pairs, Int_(1)}, b \in Bodies}

\* A parameter of the name of a variable in scope, entered or not.
Shadowing ==
  {Loop(k, L(c), "h", L(True)) : k \in {"all", "any"}, c \in {NoItems, OneTwo}} \cup
  {Loop("any", L(OneTwo), "p", Loop("all", L(c), "p", V("p"))) : c \in {NoItems, Mixed}} \cup
  {Node("lazy", "lazy_or", <<L(True), Loop("any", L(OneTwo), "h", L(True))>>)}

Inner == {Loop(k, L(OneTwo), "q", B(op, V("p"), V("q"))) :
            k \in {"all", "any"}, op \in {"equal", "less"}}
Nested == {Loop(k, L(c), "p", b) : k \in {"all", "any"}, c \in {OneTwo, Mixed}, b \in Inner}

\* A failure inside an iteration, and a variable used after it was caught.
Caught ==
  {Try(a, b) : a \in Basic \cup Shadowing, b \in Basic} \cup
  {Try(Try(a, b), L(False)) : a \in Basic, b \in Basic} \cup
  {Try(t, L(True)) : t \in Nested \cup {Loop("any", L(Mixed), "p", V("u"))}} \cup
  {Loop(k, L(OneTwo), "p", Try(B("greater", V(v), L(Int_(1))), B("equal", V("p"), V("h")))) :
     k \in {"all", "any"}, v \in {"p", "u", "q"}} \cup
  {Try(B("equal", V("h"), V("u")), b) : b \in Basic} \cup
  {B("and", Try(Loop("all", L(OneTwo), "p", V("p")), L(True)),
            Loop("any", L(OneTwo), "p", b)) : b \in Bodies}

\* One operator of two values.
Values == {True, Int_(0), Int_(1), Int_(-2), Int_(-1), Text(<<"a">>), Text(<<"a", "b">>), Date(1), Null,
           NoItems, OneTwo, TwoOne, Mixed, Pairs,
           Holder("set", <<OneTwo, Int_(1)>>), Holder("set", <<Int_(1), TwoOne>>),
           Holder("array", <<TwoOne>>), Holder("array", <<>>)}
Kinds == {"less", "less_or_equal", "greater_or_equal", "equal", "not_equal", "het_equal",
          "het_not_equal", "contains", "starts_with", "ends_with", "matches", "intersection",
          "union", "add", "sub", "mul", "div", "bit_and", "bit_or", "bit_xor", "and", "or",
          "get", "unknown"}
Singles == {B(k, L(a), L(b)) : k \in Kinds, a \in Values, b \in Values} \cup
           {U(k, L(a)) : k \in {"negate", "parens", "length", "typeof"}, a \in Values} \cup
           {B("equal", B(k, L(a), L(b)), L(c)) : k \in {"intersection", "union"},
              a \in {OneTwo, NoItems}, b \in {TwoOne, NoItems}, c \in {OneTwo, TwoOne}}
Calls == {[node |-> "unary", kind |-> "ffi", args |-> <<L(True)>>, name |-> n] : n \in {"f", "g"}}

\* Regular expressions, over a few characters in the order of their codes.
MCCharacters == <<"\n", "$", "(", ")", "*", "+", "-", ".", "?", "[", "\\", "]", "^", "a", "b", "c", "d", "{", "|">>
Regex == INSTANCE BsRegex WITH
  Characters <- MCCharacters, Letters <- {"a", "b", "c", "d"}, MaxTokens <- 9, MaxInsts <- 8, MaxClasses <- 2
Language == INSTANCE BsLanguage

\* Patterns, by their units: signs and characters in any order, and then the
\* units of more than a character.
Every == ToSet(MCCharacters)
One(t, hits) == Language!One(t, hits)
Except(c) == Every \ {c}
A == One(<<"a">>, {"a"})
B_ == One(<<"b">>, {"b"})
Marks == {Language!Sign(c) : c \in {"(", ")", "|", "*"}} \cup {A, B_}
Ends == {Language!Sign("^"), Language!Sign("$")}
Classes == {One(<<"[", "a", "b", "]">>, {"a", "b"}), One(<<"[", "^", "a", "]">>, Except("a")),
            One(<<"[", "a", "-", "c", "]">>, {"a", "b", "c"}), One(<<"[", "b", "-", "]">>, {"b", "-"}),
            One(<<"[", "]", "a", "]">>, {"]", "a"}), One(<<"[", "^", "]", "a", "]">>, Every \ {"]", "a"}),
            One(<<"[", "\\", "]", "]">>, {"]"}), One(<<"[", "a", "\\", "-", "b", "]">>, {"a", "-", "b"})}
Digit == <<"[", "\\", "d", "]">>   \* the code takes it for the letter
Others == {One(Digit, {"d"}), One(<<".">>, Except("\n")), One(<<"\\", "*">>, {"*"}), One(<<"\n">>, {"\n"}),
           Language!Sign("+"), Language!Sign("?")} \cup Classes
Odd(is, t) == [text |-> t, is |-> is, hits |-> {}]
Odds == {Odd("unsupported", <<"{">>), Odd("unsupported", <<"\\", "a">>)} \cup
        {Odd("bad", t) : t \in {<<"[">>, <<"[", "a">>, <<"[", "]">>, <<"[", "b", "-", "a", "]">>, <<"\\">>,
                               <<"[", "\\">>, <<"[", "a", "-", "\\">>}} \cup {Odd("unsupported", <<"\\", "d">>)}
Within == {A, Language!Sign("("), Language!Sign(")"), Language!Sign("|")} \cup Others
Times(n, u) == FlattenSeq([k \in 1..n |-> u])
\* Four units, of which the brackets are one pair or none.
Opens == Language!Sign("(")
Closes == Language!Sign(")")
Plain == [1..2 -> Marks \ {Opens, Closes}]
Fours == {s \o r : s \in Plain, r \in Plain} \cup
         UNION {{<<Opens, s[1], s[2], Closes>>, <<Opens, s[1], Closes, s[2]>>, <<s[1], Opens, s[2], Closes>>} : s \in Plain}
Patterns == UNION {[1..n -> Marks \cup Ends] : n \in 0..3} \cup Fours \cup UNION {[1..n -> Within] : n \in 1..2} \cup
            {<<c, d>> : c, d \in Others} \cup {<<A, o>> : o \in Odds} \cup {<<o>> : o \in Odds} \cup
            {<<Odd("unsupported", <<"{">>), o>> : o \in Odds} \cup
            {Times(n, <<A>>) : n \in 4..7} \cup {Times(n, <<A, Language!Sign("*")>>) : n \in 1..4} \cup
            {Times(n, <<CHOOSE c \in Classes : TRUE>>) : n \in 2..3} \cup
            {<<Language!Sign("("), A, Language!Sign("|")>> \o s \o <<Language!Sign(")")>> \o r :
               s \in {<<B_>>, <<B_, A>>}, r \in {<<Language!Sign(c)>> : c \in {"*", "+", "?", "$"}} \cup {<<>>}}
Searched == {<<>>, <<"b", "a">>, <<"a", "a", "b">>, <<"\n", "d">>}
Spelled(u) == FlattenSeq([k \in DOMAIN u |-> u[k].text])
\* The answers, for every text and pattern there is.
Texts == Searched \cup {<<"a">>, <<"a", "b">>}
Matches == [p \in {Spelled(u) : u \in Patterns} \cup Texts |->
              LET compiled == Regex!Compiled(p) IN [t \in Texts |-> Regex!Found(compiled, t)]]
MCMatchOf(text, pattern) ==
  LET m == Matches[pattern.text][text.text]
  IN  IF m.st = "OK" THEN Answer(Bool_(m.found), 0) ELSE Failure(m.st)

Matching ==
  UNION {LET p == L(Text(Spelled(u)))
         IN  {[node |-> "binary", kind |-> "matches", args |-> <<L(Text(t)), p>>, units |-> u] : t \in Searched} :
         u \in Patterns}

Trees == Lazies \cup Loops \cup Shadowing \cup Nested \cup Caught

-----------------------------------------------------------------------------
(* What no parser writes. *)

Pushes(v) == [op |-> "value", term |-> v]
Operations ==
  {Pushes(True), Pushes(OneTwo), Code("unary", "negate")[1]} \cup
  {Code("binary", k)[1] : k \in {"and", "lazy_and", "any", "try_or"}} \cup
  {Closure(ps, body)[1] : ps \in {<<>>, <<"p">>},
                          body \in {<<>>, <<Pushes(True)>>, Code("binary", "and")}}
Streams == UNION {[1..n -> Operations] : n \in 0..3} \cup
           {<<Pushes(OneTwo)>> \o Closure(<<"p">>, b) \o Code("binary", "any") \o c :
              b \in [1..2 -> Operations], c \in {<<>>, Code("unary", "negate")}} \cup
           {Closure(<<>>, b) \o <<Pushes(True)>> \o Code("binary", "try_or") \o Code("binary", "and") :
              b \in [1..2 -> Operations]}

\* Closures within closures, of every operator, past the last frame.
RECURSIVE Deep(_, _)
Deep(n, f) == IF n = 0 THEN <<Pushes(True)>>
              ELSE IF f = "try" THEN Closure(<<>>, Deep(n - 1, f)) \o <<Pushes(False)>> \o Code("binary", "try_or")
              ELSE IF f = "lazy" THEN <<Pushes(True)>> \o Closure(<<>>, Deep(n - 1, f)) \o Code("binary", "lazy_and")
              ELSE <<Pushes(OneTwo)>> \o Closure(<<<<"p", "q", "r", "s">>[n]>>, Deep(n - 1, f)) \o Code("binary", "all")
Limits == {Deep(4, f) : f \in {"try", "lazy", "loop"}} \cup
          {[i \in 1..n |-> Pushes(True)] \o Deep(2, "try") : n \in 1..4} \cup
          {Closure(<<>>, Deep(4, f)) \o <<Pushes(True)>> \o Code("binary", "try_or") : f \in {"lazy", "loop"}} \cup
          {Closure(<<>>, [i \in 1..4 |-> Pushes(True)]) \o <<Pushes(True)>> \o Code("binary", "try_or")}

\* A set that does not fit the pool, and a smaller one built after it failed.
Crowded == {Compile(B("equal", Try(B("union", L(OneTwo), L(Holder("set", <<Int_(0)>>))), L(OneTwo)),
                               B(k, L(OneTwo), L(Holder("set", <<Int_(2)>>))))) :
              k \in {"union", "intersection"}}

Case(code, n, r, of) == [code |-> code, binds |-> Host, steps |-> n, room |-> r, of |-> of]
MCCases ==
  {Case(Compile(t), n, 4, <<t>>) : t \in Trees, n \in {2, 6, 11, 80}} \cup
  {Case(Compile(t), 80, 4, <<t>>) : t \in Singles \cup Matching} \cup
  {Case(<<Pushes(True), [op |-> "unary", kind |-> "ffi", name |-> t.name]>>, 80, 4, <<t>>) : t \in Calls} \cup
  {Case(code, n, 4, <<>>) : code \in Streams \cup Limits, n \in {4, 80}} \cup
  {Case(code, 80, r, <<>>) : code \in Crowded, r \in 0..4}

-----------------------------------------------------------------------------

Written == given.of # <<>>
Env == [name \in {b.name : b \in ToSet(given.binds)} |->
          (CHOOSE b \in ToSet(given.binds) : b.name = name).value]

\* The machine gives an expression the value it has as it is written: a side
\* that need not be looked at is not, an iteration stops where it is decided,
\* and a try_or answers for its receiver alone.  Short of that it has run out
\* of budget.
EvaluatesAsWritten ==
  Written /\ status # "none" =>
    LET o == Evaluate(given.of[1], Env)
    IN  \/ status = "LIMIT" /\ steps = 0
        \/ status = o.st /\ (o.st = "OK" => result = o.value)

\* What the operators on containers answer does not depend on how the runs
\* of their elements are laid out: equality, membership, union and
\* intersection are those of sets.
OperatorsMeanSets ==
  Dispatches /\ ~AtEnd /\ Op.op = "binary" /\ sp >= 2 /\ Op.kind \notin Controls =>
    LET answer == BinaryOf(Op, Left, Right, room)
    IN  answer.st = "OK" => Means(Op.kind, Left, Right, answer.value)

\* A search finds a stretch of the text that belongs to the pattern exactly
\* where there is one, for every pattern that can be read; one that cannot is
\* refused, and one that names what is not supported is refused as such
\* (125_regex.inc:152-722).
MatchesMeanLanguage ==
  Written /\ "units" \in DOMAIN given.of[1] /\ Dispatches /\ ~AtEnd /\ Op.op = "binary" =>
    LET u == given.of[1].units
        answer == BinaryOf(Op, Left, Right, room)
        readable == Language!IsNothing(u) \/ Language!Readings(1, u) # {}
    IN  /\ answer.st = "OK" => readable /\ answer.value = Bool_(Language!Holds(u, Left.text))
        /\ answer.st = "MALFORMED" => ~readable
        /\ answer.st = "UNSUPPORTED" <=> u # <<>> /\ \E k \in DOMAIN u : u[k].is = "unsupported"
        /\ answer.st = "LIMIT" => Len(u) > 4 \/ u \in [1..3 -> Classes]

\* The head of 125_regex.inc (lines 23-26): "Not supported, and refused rather
\* than approximated: repetition counts (`{n,m}`), backreferences, lookaround,
\* named classes (`\d`, `\w`). A pattern using one of those is
\* BS_ERR_UNSUPPORTED, never a silent mismatch".
NamedClassesAreRefused ==
  Written /\ "units" \in DOMAIN given.of[1] =>
    \A k \in DOMAIN given.of[1].units : given.of[1].units[k].text = Digit => status # "OK"
=============================================================================
