----------------------------- MODULE MCAuthorize -----------------------------
(***************************************************************************)
(* Authorizations of small worlds: a token of an authority block 0 and the *)
(* appended blocks 1 and 2, and an authorizer.                             *)
(***************************************************************************)
EXTENDS BsAuthorize, BsMeaning, FiniteSets, TLC

CONSTANTS p, q, a, b, x, y

P(name, ts) == [name |-> name, terms |-> ts]
F(name, ts, from) == [name |-> name, terms |-> ts, origin |-> {from}]
E(op, left, right) == [op |-> op, left |-> left, right |-> right]

MCName == {p, q}
MCValue == {a, b}
MCVar == {x, y}

\* What a block trusts when it does not say (110_load.inc,
\* bs_block_trust_load).
Default(from) == {0, from, Authorizer}

R(head, body, from) == [head |-> head, is_query |-> FALSE, body |-> body,
                        expr |-> <<>>, trust |-> Default(from), block |-> from]
Q(body, expr, from) == [head |-> P(q, <<>>), is_query |-> TRUE, body |-> body,
                        expr |-> expr, trust |-> Default(from), block |-> from]

\* A check or a policy before it has its place in the pool of rules.
Ask(kind, from, qs) == [kind |-> kind, block |-> from, queries |-> qs]

-----------------------------------------------------------------------------

\* Facts: the authority's, the authorizer's, and one of block 1.
Bases == {<<F(p, <<a>>, 0), F(p, <<b>>, 1), F(q, <<a>>, Authorizer)>>,
          <<F(p, <<a>>, 1), F(q, <<b>>, 0)>>}

\* The authority's rule; the same in block 1, with one that passes a fact of
\* the authority off as block 1's own; block 2 trusting block 1, and the
\* authority trusting it too.
RuleLists == {<<>>,
              <<R(P(q, <<x>>), <<P(p, <<x>>)>>, 0)>>,
              <<R(P(q, <<x>>), <<P(p, <<x>>)>>, 1), R(P(p, <<b>>), <<P(p, <<a>>)>>, 1)>>,
              <<[R(P(q, <<x>>), <<P(p, <<x>>)>>, 2) EXCEPT !.trust = @ \cup {1}],
                [R(P(q, <<b>>), <<P(p, <<a>>)>>, 0) EXCEPT !.trust = @ \cup {1}]>>}

One == Ask("one", 1, <<Q(<<P(p, <<x>>)>>, <<E("equal", x, b)>>, 1)>>)
Or == Ask("one", Authorizer, <<Q(<<P(q, <<b>>)>>, <<>>, Authorizer),
                              Q(<<P(p, <<x>>), P(q, <<x>>)>>, <<>>, Authorizer)>>)
Every == Ask("all", 1, <<Q(<<P(p, <<x>>)>>, <<E("equal", x, a)>>, 1)>>)
Reject == Ask("reject", 2, <<Q(<<P(q, <<x>>)>>, <<E("unequal", x, a)>>, 2)>>)
RejectOr == Ask("reject", 0, <<Q(<<P(p, <<b>>)>>, <<>>, 0), Q(<<P(q, <<b>>)>>, <<>>, 0)>>)
Failing == Ask("all", 2, <<Q(<<P(p, <<x>>)>>, <<E("overflow", x, a)>>, 2)>>)
Wide == Ask("one", 2, <<Q(<<P(p, <<a>>), P(p, <<a>>), P(p, <<a>>)>>, <<>>, 2)>>)

Foreign == Ask("one", Authorizer, <<Q(<<P(p, <<b>>)>>, <<>>, Authorizer)>>)

Asks == {One, Or, Every, Reject, RejectOr, Failing, Wide, Foreign}

CheckLists == {<<>>} \cup {<<c>> : c \in Asks}
              \cup {<<c, d>> : c \in {Every, Reject}, d \in {One, Or, RejectOr, Every}}
              \cup {<<Or, One, Every>>}

\* Checks of the authorizer on both sides of the blocks', as when its source
\* is parsed in two parts.
SplitLists == {<<Or, One, Foreign>>, <<Foreign, One, Every, Foreign>>}

IfTrue == Ask("allow", Authorizer, <<Q(<<>>, <<>>, Authorizer)>>)
IfP == Ask("allow", Authorizer, <<Q(<<P(p, <<a>>)>>, <<>>, Authorizer)>>)
IfQ == Ask("allow", Authorizer, <<Q(<<P(p, <<b>>)>>, <<>>, Authorizer),
                                 Q(<<P(q, <<x>>)>>, <<E("equal", x, b)>>, Authorizer)>>)
Deny == Ask("deny", Authorizer, <<Q(<<P(q, <<b>>)>>, <<>>, Authorizer)>>)

PolicyLists == {<<>>, <<IfTrue>>, <<IfP>>, <<IfQ>>, <<Deny, IfTrue>>, <<IfQ, Deny>>}

\* A world whose pool holds the rules, then the queries in their order.
Queried(asks) == FlattenSeq([i \in DOMAIN asks |-> asks[i].queries])
Before_(asks, i) == Len(Queried(SubSeq(asks, 1, i - 1)))

W(fs, rs, cs, ps, n) ==
  [facts |-> fs, rules |-> rs \o Queried(cs) \o Queried(ps),
   checks |-> [i \in DOMAIN cs |->
     [kind |-> cs[i].kind, block |-> cs[i].block,
      query_at |-> Len(rs) + Before_(cs, i), query_count |-> Len(cs[i].queries)]],
   policies |-> [i \in DOMAIN ps |->
     [kind |-> ps[i].kind,
      query_at |-> Len(rs) + Len(Queried(cs)) + Before_(ps, i),
      query_count |-> Len(ps[i].queries)]],
   steps |-> n, rounds |-> 0]

MCWorlds ==
  {W(fs, rs, cs, ps, 1000) : fs \in Bases, rs \in RuleLists,
       cs \in CheckLists, ps \in PolicyLists}
  \cup {W(fs, <<>>, <<Every, Or>>, <<IfQ>>, n) : fs \in Bases, n \in 1 .. 25}
  \cup {W(fs, <<>>, cs, <<IfTrue>>, 1000) : fs \in Bases, cs \in SplitLists}

-----------------------------------------------------------------------------

\* The set of facts that BsMeaning computes by closing it again and again is
\* the least one that is closed, of which the theorems speak.
ASSUME MeaningAssumption ==
  \A fs \in Bases, rs \in RuleLists, T \in SUBSET Everyone :
    LET w == W(fs, rs, <<>>, <<>>, 1000) IN IsMeaning(w, Meaning(w, T), T)

\* What an authorization promises.
D == INSTANCE BsDecision WITH
       verdict <- [kind |-> out.kind, policy |-> out.policy,
                   failed |-> [n \in DOMAIN out.failed |-> out.failed[n].check]],
       status <- CASE phase # "idle" -> "asked"
                   [] phase = "idle" /\ status = "none" -> "idle"
                   [] phase = "idle" /\ status = "OK" -> "decided"
                   [] OTHER -> "failed"

\* bs_authorize implements the decision: when it says OK the verdict, the
\* policy that decided and every failed check are what the world means --
\* whatever the order of rules, checks and answers -- and when it fails there
\* is no verdict; it always returns (145_authorize.inc:1-14).
Decides == D!Spec
=============================================================================
