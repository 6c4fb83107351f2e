------------------------------ MODULE MCEngine ------------------------------
(***************************************************************************)
(* Runs of small worlds: a few bases of facts, pairs of a dozen rules,     *)
(* every small budget, and tight bounds on the rounds.                     *)
(***************************************************************************)
EXTENDS BsEngine, TLC

CONSTANTS p, q, a, b, x, y

P(name, ts) == [name |-> name, terms |-> ts]
F(name, ts, origin) == [name |-> name, terms |-> ts, origin |-> origin]
R(head, body, expr, trust, block) ==
  [head |-> head, is_query |-> FALSE, body |-> body, expr |-> expr,
   trust |-> trust, block |-> block]
E(op, left, right) == [op |-> op, left |-> left, right |-> right]
W(fs, rs, n, k) == [facts |-> fs, rules |-> rs, checks |-> <<>>,
                    policies |-> <<>>, steps |-> n, rounds |-> k]

MCName == {p, q}
MCValue == {a, b}
MCVar == {x, y}

\* What a block trusts when it does not say: itself, the authority block and
\* the authorizer (110_load.inc, bs_block_trust_load).
Default(block) == {0, block, Authorizer}

Base == <<F(p, <<a>>, {0})>>
Mixed == <<F(p, <<a>>, {0}), F(p, <<b>>, {1}), F(q, <<b, a>>, {Authorizer})>>
Twice == <<F(p, <<b>>, {0}), F(p, <<b>>, {0}), F(q, <<a, b>>, {1}), F(p, <<x>>, {0})>>

Copy == R(P(q, <<x>>), <<P(p, <<x>>)>>, <<>>, Default(0), 0)

\* Rules that add facts: a copy; a restatement of another block, which grows
\* the origin alone; a join that closes over what it derives; the other way
\* round, trusting block 1; a fact in the form of a rule, and one of an
\* appended block; a filter.
Growing ==
  {Copy,
   R(P(p, <<x>>), <<P(p, <<x>>)>>, <<>>, Default(1), 1),
   R(P(p, <<y>>), <<P(q, <<x, y>>), P(p, <<x>>)>>, <<>>, Default(1), 1),
   R(P(q, <<x, y>>), <<P(p, <<x>>), P(p, <<y>>)>>, <<>>, {0, 1, 2, Authorizer}, 2),
   R(P(p, <<b>>), <<>>, <<>>, Default(0), 0),
   R(P(p, <<a>>), <<>>, <<E("equal", a, a)>>, Default(2), 2),
   R(P(q, <<x>>), <<P(p, <<x>>)>>, <<E("unequal", x, a), E("equal", b, x)>>, Default(1), 1)}

\* Rules that do not: an expression that fails, two that name no variable of
\* the body, a head its body does not bind, a body past the bound, and the
\* query of a check.
Barren ==
  {R(P(q, <<x>>), <<P(p, <<x>>)>>, <<E("overflow", x, a)>>, Default(1), 1),
   R(P(q, <<x>>), <<P(p, <<x>>)>>, <<E("equal", y, a)>>, Default(1), 1),
   R(P(q, <<x>>), <<P(p, <<x>>)>>, <<E("equal", x, y)>>, Default(1), 1),
   R(P(q, <<x, y>>), <<P(p, <<x>>)>>, <<>>, Default(1), 1),
   R(P(q, <<x>>), <<P(p, <<x>>), P(p, <<x>>), P(p, <<x>>)>>, <<>>, Default(1), 1),
   [Copy EXCEPT !.is_query = TRUE]}

Pairs == [1 .. 2 -> Growing] \cup {<<g, h>> : g \in Growing, h \in Barren}

MCWorlds ==
  {W(fs, rs, 1000, 0) : fs \in {<<>>, Mixed, Twice}, rs \in Pairs}
  \cup {W(Base, rs, n, 0) : rs \in {<<g>> : g \in Growing \cup Barren}, n \in 1 .. 30}
  \cup {W(Mixed, rs, 40, k) : rs \in [1 .. 2 -> Growing], k \in {1, 2}}
=============================================================================
