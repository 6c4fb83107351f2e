------------------------------- MODULE MCParse -------------------------------
(***************************************************************************)
(* Texts of every kind of statement, whole and broken off anywhere; terms  *)
(* and expressions of a few tokens, in any order; and two texts in turn.   *)
(***************************************************************************)
EXTENDS BsGrammar

P(p) == [kind |-> "punct", text |-> p]
W(w) == [kind |-> "ident", text |-> w]
V(v) == [kind |-> "variable", text |-> v]
N(n) == [kind |-> "integer", text |-> n]
Bad == [kind |-> "bad", text |-> "?"]
Key(k) == [kind |-> "key", text |-> k]
OtherKey == [kind |-> "other_key", text |-> "k"]
ShortKey == [kind |-> "short_key", text |-> "k"]

MCExternNames == [n \in {"extern::f", "extern::"} |-> IF n = "extern::f" THEN "f" ELSE NoName]
MCSpelling == {"p", "q", "x", "y", "1", "2", "a", "k", "l", "f", "?", "or", "if", "all", "check",
               "reject", "allow", "deny", "trusting", "authority", "previous", "true", "false",
               "null", "length", "type"} \cup Methods \cup DOMAIN MCExternNames \cup
              Binary \cup {"(", ")", "[", "]", "{", "}", ",", ";", ":", ".", "->", "<-", "!"}

-----------------------------------------------------------------------------
(* Pieces of text. *)

Atom(n) == <<W("p"), P("("), n, P(")")>>
Call_(m) == <<P("."), W(m), P("(")>>
Bare(m) == Call_(m) \o <<P(")")>>

\* Sequences of n to m pieces.
Strings(pieces, n, m) == UNION {{FlattenSeq(s) : s \in [1..k -> pieces]} : k \in n..m}
Cuts(ts) == {Upto(ts, n) : n \in 0 .. Len(ts)}
Without(ts) == {Upto(ts, i - 1) \o From(ts, i + 1) : i \in DOMAIN ts}

Ask(ts) == <<W("check"), W("if")>> \o ts \o <<P(";")>>
State(ts) == <<W("p"), P("(")>> \o ts \o <<P(")"), P(";")>>

-----------------------------------------------------------------------------
(* Terms: every short string of brackets, commas, colons and values. *)

Marks == {P("["), P("]"), P("{"), P("}"), P(","), P(":"), N("1")}
TermTexts == {State(<<o>> \o s \o <<c>>) : o \in {P("["), P("{")}, c \in {P("]"), P("}")},
              s \in UNION {[1..k -> Marks] : k \in 0..3}}
Scalars_ == {State(<<t>>) : t \in {N("1"), V("x"), Bad, Key("k"), W("true"), W("null"), W("q"),
                                   [kind |-> "string", text |-> "a"], [kind |-> "date", text |-> "1"],
                                   [kind |-> "bytes", text |-> "a"]}} \cup
            {State(<<P("-"), N("1")>>), State(<<P("-"), V("x")>>),
             State(<<P("{"), P("["), N("1"), P("]"), P(":"), P("{"), V("x"), P("}"), P("}")>>),
             State(<<P("["), N("1"), P(","), N("2"), P(","), N("1"), P("]")>>),
             State(<<P("["), P("["), P("["), P("]"), P("]"), P("]")>>)}

\* Variables inside a container: bound, not bound, and binding nothing.
Boxed(n) == <<P("["), n, P("]")>>
AtomOf(ts) == <<W("p"), P("(")>> \o ts \o <<P(")")>>
Boxes == {AtomOf(Boxed(V(v))) \o <<P("<-")>> \o AtomOf(ts) \o <<P(";")>> :
            v \in {"x", "y"}, ts \in {<<V("x")>>, Boxed(V("x"))}} \cup
         {Atom(V("x")) \o <<P("<-")>> \o AtomOf(Boxed(V("x"))) \o <<P(";")>>} \cup
         {State(Boxed(V("x"))) \o ts : ts \in {State(<<N("1")>>), <<W("p")>>}}

\* Words for names.
Named(w) == <<W(w), P("("), N("1"), P(")")>>
Words == {"check", "allow", "trusting", "or", "true", "if"}
Names == UNION {{Named(w) \o <<P(";")>>, Named(w) \o <<P("<-")>> \o Atom(V("x")) \o <<P(";")>>,
                 Ask(Named(w)), Ask(Atom(V("x")) \o <<P(",")>> \o Named(w))} : w \in Words}

-----------------------------------------------------------------------------
(* Expressions: operators of every pair of levels, and anything in between. *)

One == <<N("1")>>
Infix(o) == <<P(o)>> \o One
Chains == {Ask(pre \o One \o Infix(o) \o mid \o Infix(q) \o post) :
             pre \in {<<>>, <<P("!")>>}, o \in Binary, q \in Binary, mid \in {<<>>, Bare("length")},
             post \in {<<>>}} \cup
          {Ask(One \o Infix(o) \o Infix(q) \o Infix(r)) :
             o, q, r \in {"||", "&&", "<", "==", "&", "-", "*"}}

Bits == {<<N("1")>>, <<P("!")>>, <<P("(")>>, <<P(")")>>, <<P("-")>>, <<P("&&")>>,
         <<P("<")>>, Call_("try_or"), <<V("x"), P("->")>>}
Loose == {Ask(s) : s \in Strings(Bits, 1, 4)}

\* What opens at all, to some depth, with what was opened closed again.
RECURSIVE Nested(_)
Nested(n) ==
  IF n = 0 THEN {One, <<V("x")>>}
  ELSE LET e == Nested(n - 1)
       IN  {<<P("!")>> \o s : s \in e} \cup {<<P("(")>> \o s \o <<P(")")>> : s \in e} \cup
           {One \o Call_(m) \o s \o <<P(")")>> : m \in {"try_or", "contains", "extern::f"}, s \in e} \cup
           {s \o Call_("try_or") \o One \o <<P(")")>> : s \in e} \cup
           {s \o Bare("length") : s \in e} \cup
           {One \o Call_("any") \o <<V("x"), P("->")>> \o s \o <<P(")")>> : s \in e} \cup
           {s \o Infix(o) : s \in e, o \in {"&&", "<", "-"}} \cup
           {One \o <<P(o)>> \o s : s \in e, o \in {"&&", "<", "-"}}
Whole == {Ask(s) : s \in Nested(1) \cup Nested(2)}
Holed == UNION {Without(Ask(s)) : s \in Nested(2)}
Odd == {Ask(One \o <<P(".")>> \o t) :
          t \in {<<W("q"), P("("), P(")")>>, <<W("length"), P("("), N("1"), P(")")>>,
                 <<W("type"), P("("), P(")")>>, <<W("length"), P(")")>>, <<N("1")>>,
                 <<W("extern::"), P("("), P(")")>>, <<W("extern::f"), P("("), P(")")>>,
                 <<W("extern::f"), P("("), P(")"), P("."), W("type"), P("("), P(")")>>}} \cup
       {Ask(<<V("x"), Bad>>), Ask(<<V("x"), P("-"), N("1")>>), Ask(<<W("q"), Bad>>),
        Ask(<<P("("), N("1"), P("+"), V("x"), P("->"), V("x"), P("<"), N("1"), P(")")>>)}

-----------------------------------------------------------------------------
(* Statements. *)

Rule_(b) == Atom(V("x")) \o <<P("<-")>> \o b
Says_(w, v) == <<W(w), W(v)>>
Bodies == {Atom(V("x")), Atom(V("x")) \o <<P(",")>> \o <<V("x"), P("<"), N("1")>>,
           <<N("1"), P(","), V("x"), P(",")>> \o Atom(V("y")), Atom(N("1")) \o <<P(",")>> \o Atom(V("x")) }
Scopes == {<<W("authority")>>, <<W("previous")>>, <<Key("k"), P(","), W("previous")>>,
           <<OtherKey>>, <<ShortKey>>, <<Key("l")>>}
Trusting == {<<>>} \cup {<<W("trusting")>> \o s : s \in Scopes}
Stated ==
  {Atom(N("1")), Atom(V("x")), <<W("trusting"), P("("), P(")")>>,
   <<W("or"), P("("), P(")"), P("<-")>> \o Atom(V("x"))} \cup
  {Rule_(b) \o t : b \in Bodies, t \in Trusting} \cup
  {Says_(w, "if") \o Atom(V("x")) \o t : w \in {"check", "reject", "allow", "deny"}, t \in Trusting} \cup
  {Says_("check", v) \o Atom(V("y")) \o t \o <<W("or")>> \o One :
     v \in {"all", "any"}, t \in {<<>>, <<W("trusting"), W("authority")>>}} \cup
  {Says_("deny", "all") \o One, Says_("allow", "if") \o One \o <<W("or"), W("or"), P("("), P(")")>>}

Few == {Atom(N("1")), Rule_(Atom(V("x")) \o <<W("trusting"), W("previous")>>),
        Says_("check", "if") \o One \o <<W("or")>> \o Atom(V("x")),
        Says_("allow", "if") \o Atom(N("1")), Says_("reject", "if") \o Rule_(<<>>)}

\* More than the arrays hold: elements, arguments, operators, and a body.
Times(n, ts) == FlattenSeq([k \in 1..n |-> ts])
List(n, ts) == Times(n, ts \o <<P(",")>>) \o ts
Wide == {State(<<P("[")>> \o List(n, One) \o <<P("]")>>) : n \in {Scratch - 1, Scratch}} \cup
        {State(List(n, One)) : n \in {Scratch - 1, Scratch}} \cup
        {Ask(One \o Times(n, Bare("type"))) : n \in {Scratch - 1, Scratch}} \cup
        {Ask(One \o Times(n, <<P("+")>> \o One)) : n \in {3, 4}} \cup
        {Ask(List(n, s)) : n \in {MaxBody - 1, MaxBody}, s \in {One, Atom(V("x"))}}

Opening == {<<>>, <<W("trusting"), W("previous"), P(";")>>, <<W("trusting"), Key("k")>>,
            <<W("trusting"), P("("), P(")"), P(";")>>, <<W("trusting"), P(";")>>, <<W("trusting"), Bad>>}
Documents == {o \o s \o <<P(";")>> : o \in Opening, s \in Few} \cup
             {s \o <<P(";")>> \o t : s \in Stated, t \in Few}

-----------------------------------------------------------------------------

Ample == [terms |-> 30, ops |-> 30, params |-> 5, symbols |-> 9, preds |-> 9, exprs |-> 9,
          facts |-> 4, rules |-> 6, checks |-> 4, policies |-> 4]
Tight == {[Ample EXCEPT ![f] = n] : f \in DOMAIN Ample, n \in 0..2}

Alone(ts, b, l) == [calls |-> <<[source |-> ts, block |-> b]>>, signers |-> <<Unsigned, "k", Unsigned>>,
                    limits |-> l]
InTurn(s, t, b) == [calls |-> <<[source |-> s, block |-> b], [source |-> t, block |-> MaxBlocks]>>,
                    signers |-> <<Unsigned, "k", Unsigned>>, limits |-> Ample]

Text_ == Atom(N("1")) \o <<P(";")>> \o Rule_(Atom(V("x"))) \o <<P(";")>> \o
         Says_("check", "if") \o <<N("1"), P(".")>> \o <<W("any"), P("("), V("x"), P("->"), V("x"), P(")")>> \o <<W("or")>> \o One
         \o <<P(";")>> \o Says_("deny", "if") \o State(<<P("["), N("1"), P("]")>>)

MCHosts ==
  {Alone(ts, 1, Ample) : ts \in TermTexts \cup Scalars_ \cup Boxes \cup Names \cup Chains \cup Loose \cup Whole \cup Holed \cup Odd \cup Wide} \cup
  {Alone(ts, b, Ample) : ts \in Documents, b \in 0..MaxBlocks} \cup
  {Alone(Text_, b, l) : b \in {0}, l \in Tight} \cup
  {Alone(ts, 2, Ample) : ts \in Cuts(Text_)} \cup
  {InTurn(s, t, b) : s \in Cuts(Text_), t \in {Atom(N("1")), Text_}, b \in {1, MaxBlocks}}
=============================================================================
