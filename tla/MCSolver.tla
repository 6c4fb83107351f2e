------------------------------ MODULE MCSolver ------------------------------
(***************************************************************************)
(* The walk of one body, over every body of up to Width of the patterns,   *)
(* some longer ones, and every base of up to Base facts.                   *)
(***************************************************************************)
EXTENDS BsWalk, FiniteSets, SequencesExt, TLC

CONSTANTS p, q, a, b, x, y, Width, Base

P(name, terms) == [name |-> name, terms |-> terms]
F(name, terms, origin) == [name |-> name, terms |-> terms, origin |-> origin]
R(body, trust) == [head |-> P(p, <<>>), is_query |-> TRUE, body |-> body,
                   expr |-> <<>>, trust |-> trust, block |-> 1]

MCName == {p, q}
MCValue == {a, b}
MCVar == {x, y}

\* Body predicates: p of one argument and p of two, and one that differs
\* from them in its name alone.
Patterns == {P(p, <<s>>) : s \in {x, y, a}}
            \cup {P(p, <<s, t>>) : s \in {x, y, a}, t \in {x, y}}
            \cup {P(q, <<x>>)}

\* Three predicates, so that the walk backs out of two levels at once.
Joins == [1 .. 3 -> {P(p, <<x>>), P(p, <<x, y>>), P(p, <<y, x>>)}]

MCRules == {R(body, {0, 1, 3}) : body \in SeqOf(Patterns, Width) \cup Joins}
           \cup {R(body, {1, 3}) : body \in SeqOf(Patterns, 1)}

\* Facts of the authority, of block 1, of both, and of an untrusted block 2;
\* one of them states a variable.
MCFacts == {F(p, <<a>>, {0}), F(p, <<b>>, {1}), F(p, <<a, b>>, {0, 1}),
            F(p, <<b, b>>, {1}), F(p, <<a, a>>, {0, 2}), F(q, <<a>>, {1}),
            F(p, <<x>>, {1})}

MCFactBases == SeqOf(MCFacts, Base)

-----------------------------------------------------------------------------
\* "Repeatedly apply every rule to every combination of facts it can match"
\* (130_engine.inc:4): a walk that ends has given every match.
NothingMissed == pc = "done" => \A t \in Matches(rule, facts) :
                                  \E k \in DOMAIN answers : answers[k] = t
=============================================================================
