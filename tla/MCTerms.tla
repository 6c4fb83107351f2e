------------------------------- MODULE MCTerms -------------------------------
(***************************************************************************)
(* Blocks of one element or of a few: values and closures nested up to one *)
(* level more than a loader accepts, the code of texts and code that is    *)
(* none, and pools and buffers with room, with just enough and with too    *)
(* little.  MaxDepth is 3.                                                 *)
(***************************************************************************)
EXTENDS BsNesting

P(p) == [kind |-> "punct", text |-> p]
W(w) == [kind |-> "ident", text |-> w]
V(v) == [kind |-> "variable", text |-> v]
N(n) == [kind |-> "integer", text |-> n]
A == [kind |-> "string", text |-> "a"]
Minus == [kind |-> "negative", text |-> "1"]
Wrong == [kind |-> "bad"]
Key(k) == [kind |-> "key", text |-> k]
Of(k, items) == [kind |-> k, items |-> items]

MCExternNames == [n \in {"extern::f", "extern::"} |-> IF n = "extern::f" THEN "f" ELSE NoName]
MCSigners == <<"no key", "k", "no key">>

-----------------------------------------------------------------------------
(* Values, by how deep they are. *)

AtMost(list, n) == UNION {[1..k -> list] : k \in 0..n}
Containers(list) == {Of(k, s) : k \in {"array", "set"}, s \in AtMost(list, 2)}
MapsOf(list) == {Of("map", <<>>)} \cup {Of("map", <<k, v>>) : k \in {N("1"), Minus}, v \in list}

Scalars_ == {N("1"), A, Minus} \cup {[kind |-> k, text |-> "1"] : k \in {"date", "bytes"}} \cup
            {[kind |-> "bool", text |-> "true"], [kind |-> "null", text |-> "null"]}
Single == {N("1"), A}
Two == Containers(Single) \cup MapsOf({N("1")})
Few == {Of("set", <<N("1"), A>>), Of("set", <<A, N("1")>>), Of("set", <<N("1")>>),
        Of("array", <<N("1"), A>>), Of("array", <<>>), Of("map", <<N("1"), A>>)}
Three == {Of(k, <<v, w>>) : k \in {"array", "set"}, v \in Few, w \in Few \cup {N("1")}} \cup MapsOf(Few)
Nested == {Of("set", <<Of("set", <<N("1"), A>>), Of("set", <<N("1")>>)>>),
           Of("set", <<Of("set", <<N("1")>>), Of("set", <<A, N("1")>>)>>),
           Of("set", <<N("1"), A, Minus>>), Of("set", <<Minus, N("1"), A>>),
           Of("set", <<N("1"), N("1")>>),
           Of("map", <<N("1"), Of("set", <<N("1"), A>>), A, Minus>>)}
Four == {Of(k, <<Of("array", <<v>>)>>) : k \in ContainerKinds \ {"map"}, v \in Few} \cup
        {Of("map", <<N("1"), Of("map", <<N("1"), v>>)>>) : v \in Few}
Five == {Of("array", <<v>>) : v \in Four}
Wrongs == {Wrong, Of("array", <<N("1"), Wrong>>), Of("set", <<Of("set", <<Wrong>>)>>),
           Of("map", <<Of("set", <<>>), N("1")>>), Of("map", <<N("1"), Wrong>>)}
Any_ == Scalars_ \cup Two \cup Three \cup Nested \cup Four \cup Five \cup Wrongs

\* The values of a parsed text point back, and have a scalar at the level
\* after the last.
Run_(k, from, n) == [kind |-> k, at |-> from, count |-> n]
Parsed == {<<>>, <<N("1"), Run_("set", 0, 1), Run_("array", 1, 1), Run_("array", 2, 1), N("1"),
                   Run_("set", 4, 1), Run_("array", 5, 1), Run_("array", 6, 1)>>}

-----------------------------------------------------------------------------
(* Code. *)

Lit(v) == [op |-> "value", term |-> v]
Un(k) == [op |-> "unary", kind |-> k]
Bin(k) == [op |-> "binary", kind |-> k]
Fun(p, b) == [op |-> "closure", params |-> p, body |-> b]
Extern_(o) == o @@ [name |-> "f"]

\* By how deep its closures are.
Flat == {<<>>, <<Lit(N("1"))>>, <<Lit(Of("array", <<N("1"), A>>)), Bin("add")>>}
Inner == {<<Fun(p, b)>> : p \in {<<>>, <<"x">>}, b \in Flat} \cup
         {<<Fun(<<"x">>, b), Fun(<<"y">>, c), Bin("add")>> : b, c \in Flat}
Deeper == {<<Bin("add"), Fun(<<"x">>, b)>> : b \in Inner} \cup
          {<<Fun(<<"x", "y">>, b), Fun(<<>>, c)>> : b \in Inner, c \in Flat}
Deepest == {<<Fun(<<"x">>, <<Fun(<<"y">>, b)>>)>> : b \in Inner}
WrongCode == {<<Fun(<<"x">>, <<Lit(Wrong)>>)>>, <<Bin("add"), Lit(Of("set", <<Wrong>>))>>,
              <<Lit(CHOOSE v \in Four : TRUE)>>, <<Lit(N("1")), Un("odd")>>,
              <<Lit(N("1")), Lit(N("1")), Bin("odd")>>, <<Lit(N("1")), Un("ffi")>>,
              <<Lit(N("1")), Lit(N("1")), Bin("ffi")>>, <<Lit(N("1")), Fun(<<>>, <<Un("negate")>>), Bin("and")>>,
              <<Lit(N("1")), Fun(<<>>, <<Lit(A), Bin("add")>>)>>}
Bits == {Lit(N("1")), Un("negate"), Un("parens"), Bin("add"), Bin("get"), Extern_(Un("ffi")), Fun(<<"x">>, <<Lit(N("1"))>>)}
Short == AtMost(Bits, 3)

\* Texts of expressions.
One == <<N("1")>>
Infix(o) == <<P(o)>> \o One
On(s, m, t) == s \o <<P("."), W(m), P("(")>> \o t \o <<P(")")>>
Loop_(v, t) == <<V(v), P("->")>> \o t
Paren(s) == <<P("(")>> \o s \o <<P(")")>>
MCTexts ==
  {One \o Infix(o) : o \in Binary} \cup
  {One \o Infix(o) \o Infix(q) : o, q \in {"-", "*", "&&", "||!", "<"}} \cup
  {Paren(One \o Infix(o)) \o Infix(q) : o \in {"-", "&&"}, q \in {"*", "||"}} \cup
  {One \o <<P("-")>> \o Paren(One \o Infix("-")), <<V("x"), P("<"), V("y")>>} \cup
  {<<P("!")>> \o s : s \in {<<V("x")>>, <<P("!"), V("x")>>, Paren(One \o Infix("&&")), On(One, "length", <<>>)}} \cup
  {On(One, m, <<V("x")>>) : m \in Methods \cup {"extern::f"}} \cup
  {On(One, m, <<>>) : m \in NullaryMethods \cup {"extern::f"}} \cup
  {On(On(One, "get", One), "type", <<>>), On(Paren(One \o Infix("/")), "try_or", One \o Infix("||")),
   On(One, "any", Loop_("x", On(One, "all", Loop_("y", <<V("x"), P("<"), V("y")>>)))),
   On(One, "any", Loop_("x", On(One, "all", Loop_("y", One \o Infix("&&")))))} \cup
  {<<P("-")>> \o One, One \o <<P("-"), P("-")>> \o One, <<A>>, <<W("true")>>, <<W("null")>>} \cup
  {<<P("{"), P("}")>>, <<P("{"), P(","), P("}")>>, <<P("["), P("]")>>, <<P("{")>> \o One \o <<P("}")>>,
   <<P("["), P("{")>> \o One \o <<P(":"), P("{"), P(","), P("}"), P(","), P("-")>> \o One
     \o <<P(":"), A, P("}"), P(","), V("x"), P("]")>>}

-----------------------------------------------------------------------------
(* Blocks. *)

Large == [terms |-> 40, ops |-> 20, params |-> 9, text |-> 120]
Host(p, b, l) == [parsed |-> p, block |-> b, limits |-> l]
Block(s, f, r, c) == [scopes |-> s, facts |-> f, rules |-> r, checks |-> c]
Facts(list) == Block(<<>>, [k \in DOMAIN list |-> [name |-> "p", terms |-> list[k]]], <<>>, <<>>)
Query(b, t, s) == [head |-> [name |-> "query", terms |-> <<>>], body |-> b, tests |-> t, scopes |-> s]
About(v) == [name |-> "q", terms |-> <<v>>]
Rule(t, s) == [Query(<<About(V("x"))>>, t, s) EXCEPT !.head = About(V("x"))]
Check(k, q) == [kind |-> k, queries |-> q]
Asking(c) == Block(<<>>, <<>>, <<>>, <<Check("one", <<Query(<<>>, <<c>>, <<>>)>>)>>)

Authority == W("authority")
Scopes == {<<>>, <<Authority>>, <<W("previous"), Key("k")>>, <<Key("k"), Authority>>, <<Authority, [kind |-> "odd", text |-> "a"]>>}
Body(v) == Query(<<About(N("1")), About(V("y"))>>, v, <<>>)
True == <<Lit(N("1"))>>
Whole == {Block(s, <<About(A)>>, <<Rule(<<True>>, t), Rule(<<>>, <<>>)>>, <<Check(k, <<Body(<<>>), Query(<<>>, <<True>>, t)>>)>>) :
            s, t \in Scopes, k \in {"one", "all", "reject", "odd"}} \cup
         {Block(<<>>, <<>>, <<>>, <<Check("one", <<>>)>>), Block(<<Authority>>, <<>>, <<>>, <<>>)}

\* A buffer of every size up to what two of them need.
Narrow == {[Large EXCEPT !.text = n] : n \in 0 .. 40}
Printed_ == {Facts(<< <<Of("map", <<N("1"), Of("set", <<>>)>>), Minus>> >>),
             Block(<<Key("k")>>, <<>>, <<Rule(<< <<Lit(N("1")), Lit(N("1")), Bin("add"), Un("length")>> >>, <<Authority>>)>>, <<>>)}
Room(t, o, p) == [Large EXCEPT !.terms = t, !.ops = o, !.params = p]

\* Pairs of values to compare.
Compared == {<<v, w>> : v \in Two \cup Few \cup Nested, w \in Few \cup Nested} \cup
            {<<v, w>> : v \in {t \in Three : t.kind = "set"}, w \in Nested}

MCLoads ==
  {Host(p, Facts(<< <<v>> >>), Large) : p \in Parsed, v \in Any_} \cup
  {Host(<<>>, Facts(<<l>>), Large) : l \in Compared} \cup
  {Host(<<>>, Block(<<>>, <<About(v)>>, <<[Rule(<< <<Lit(v), Lit(N("1")), Bin("add")>> >>, <<>>) EXCEPT !.body = @ \o <<About(w)>>]>>, <<>>), Large) :
     v \in Few, w \in Few \cup {Wrong}} \cup
  {Host(<<>>, Asking(c), Large) : c \in Flat \cup Inner \cup Deeper \cup Deepest \cup WrongCode \cup Short \cup WrittenCode} \cup
  {Host(<<>>, b, Large) : b \in Whole} \cup
  {Host(<<>>, b, l) : b \in Printed_, l \in Narrow} \cup
  {Host(<<>>, Facts(<< <<v>> >>), Room(n, 0, 0)) : v \in Few \cup Nested, n \in 0..6} \cup
  {Host(<<>>, Asking(<<Fun(<<"x", "y">>, <<Lit(N("1")), Fun(<<"z">>, <<Lit(A)>>), Bin("add")>>)>>), r) :
     r \in {Room(t, o, p) : t \in 0..2, o \in 0..5, p \in 0..3}}

-----------------------------------------------------------------------------
(* Whatever there is in them, at every depth. *)

RECURSIVE HeldIn(_), OpsIn(_)
HeldIn(v) == {v} \cup IF "items" \in DOMAIN v THEN UNION {HeldIn(w) : w \in Range(v.items)} ELSE {}
OpsIn(c) == UNION {{o} \cup IF o.op = "closure" THEN OpsIn(o.body) ELSE {} : o \in Range(c)}

Parts == UNION {Range(PlacedBlock(l.block)) : l \in MCLoads}
MCWireOps == {o \in UNION {OpsIn(s.ops) : s \in {t \in Parts : t.kind = "expression"}} :
                o.op \in {"value", "unary", "binary", "closure"}}
Literals(s) == IF s.kind = "predicate" THEN Range(s.terms)
               ELSE {o.term : o \in {c \in OpsIn(s.ops) : c.op = "value"}}
MCWireValues ==
  {v \in UNION {HeldIn(v) : v \in UNION {Literals(s) : s \in Parts} \cup UNION {Range(p) : p \in Parsed}} :
     "at" \notin DOMAIN v}
=============================================================================
