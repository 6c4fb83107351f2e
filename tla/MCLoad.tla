------------------------------- MODULE MCLoad -------------------------------
(***************************************************************************)
(* Loading small tokens: chains of up to three blocks, with copies of      *)
(* symbols, numbers that name nothing, third-party blocks, every scope, and *)
(* room that ends at every place.                                          *)
(***************************************************************************)
EXTENDS BsReading, TLC

CONSTANTS r, u, k, l, v, K1, K2

MCText == {r, u, k, l, v}
MCWellKnown == <<r, u>>
MCKey == {K1, K2}

S(i) == [kind |-> "string", sym |-> i]
V(i) == [kind |-> "variable", sym |-> i]
P(name, ts) == [name |-> name, terms |-> ts]
C(head, body, expr, scopes) == [head |-> head, body |-> body, expr |-> expr, scopes |-> scopes]
M(external, symbols, keys) ==
  [external |-> external, symbols |-> symbols, keys |-> keys, scopes |-> <<>>,
   facts |-> <<>>, rules |-> <<>>, checks |-> <<>>]

Ample == [terms |-> 99, preds |-> 99, exprs |-> 99, ops |-> 99,
          facts |-> 99, rules |-> 99, checks |-> 99, extra |-> 99]

-----------------------------------------------------------------------------
(* Symbols: an authority block with copies of its own and of well-known     *)
(* symbols, and a second block, of the chain or of a third party, with one  *)
(* statement whose symbols are any numbers.                                 *)

Spellings == {<<k, v>>, <<k, v, r>>, <<v, k, v>>}

First(symbols) == [M(NoKey, symbols, <<>>) EXCEPT !.facts = <<P(0, <<S(3)>>), P(1, <<S(4), S(0)>>)>>]

Second(external, symbols) ==
  LET m == M(external, symbols, <<>>)
  IN  {[m EXCEPT !.facts = <<P(i, <<S(j)>>)>>] : i \in {0, 3, 5, 7}, j \in {1, 2, 3, 4, 6}}
      \cup {[m EXCEPT !.rules = <<C(P(1, <<V(i)>>), <<P(0, <<V(j)>>)>>,
                                    <<[op |-> "equal", left |-> V(j), right |-> S(n)]>>, <<>>)>>] :
              i \in {3, 4, 5}, j \in {3, 4, 6}, n \in {0, 5}}

SymbolTokens == {<<First(s), m>> : s \in Spellings,
                   m \in UNION {Second(e, t) : e \in {NoKey, K1}, t \in {<<l>>, <<k, r>>, <<l, k, v>>}}}

-----------------------------------------------------------------------------
(* Scopes: three blocks, any of the last two of a third party, each with a  *)
(* rule and the middle one with a check; keys in both tables.               *)

A == [kind |-> "authority"]
B == [kind |-> "previous"]
U == [kind |-> "unknown"]
N(i) == [kind |-> "key", key |-> i]

Rule_(scopes) == C(P(1, <<>>), <<P(0, <<>>)>>, <<>>, scopes)
Middle(external, own, scopes) ==
  [M(external, <<>>, <<K2, K1>>) EXCEPT
     !.scopes = own, !.rules = <<Rule_(<<>>), Rule_(scopes)>>,
     !.checks = <<[kind |-> "all", queries |-> <<Rule_(scopes), Rule_(<<>>)>>]>>]

Scoped == {<<>>, <<A>>, <<B>>, <<N(0)>>, <<B, N(1)>>}

ScopeTokens ==
  {<<[M(NoKey, <<>>, <<K1, K1, K2>>) EXCEPT !.rules = <<Rule_(last)>>],
     Middle(e, own, scopes),
     [M(f, <<>>, <<>>) EXCEPT !.rules = <<Rule_(last)>>]>> :
     e \in {NoKey, K1}, f \in {NoKey, K2}, own \in Scoped,
     scopes \in Scoped \cup {<<U>>, <<A, N(2)>>}, last \in {<<>>, <<B>>, <<N(1)>>}}
  \cup {<<[M(NoKey, <<>>, <<K1>>) EXCEPT !.scopes = own]>> : own \in {<<U>>, <<N(0)>>, <<N(1)>>}}

-----------------------------------------------------------------------------
(* Rooms and shapes: one token with everything in it under every small      *)
(* limit.                                                                   *)

Full == <<First(<<k, v>>),
          [M(K1, <<v, l>>, <<>>) EXCEPT
             !.facts = <<P(4, <<>>), P(0, <<S(4), S(4)>>)>>,
             !.rules = <<C(P(1, <<V(3), V(3)>>), <<P(4, <<V(3)>>), P(0, <<V(3), S(4)>>)>>,
                           <<[op |-> "unequal", left |-> V(3), right |-> S(4)],
                             [op |-> "equal", left |-> S(1), right |-> V(3)]>>, <<B>>)>>,
             !.checks = <<[kind |-> "reject", queries |-> <<C(P(0, <<>>), <<P(0, <<>>)>>, <<>>, <<>>)>>],
                          [kind |-> "one", queries |->
                             <<C(P(0, <<>>), <<>>, <<[op |-> "equal", left |-> S(3), right |-> S(3)]>>, <<>>),
                               C(P(0, <<V(4)>>), <<P(0, <<>>)>>, <<>>, <<A>>)>>]>>]>>

Tight == UNION {{[Ample EXCEPT ![f] = n] : n \in 0 .. 20} : f \in DOMAIN Ample}

\* Checks that ask nothing, a head whose second variable is unbound,
\* and a symbol that only the next block carries.
Odd == {<<[M(NoKey, <<>>, <<>>) EXCEPT !.checks = <<c>>]>> :
           c \in {[kind |-> "unknown", queries |-> <<Rule_(<<>>)>>],
                  [kind |-> "one", queries |-> <<>>]}}
        \cup {<<[M(NoKey, <<k, v>>, <<>>) EXCEPT
                 !.rules = <<C(P(0, <<V(3), V(i)>>), <<P(1, <<V(3)>>)>>, <<>>, <<>>)>>]>> :
                i \in {3, 4}}
        \cup {<<[M(NoKey, <<k>>, <<>>) EXCEPT !.facts = <<P(0, <<S(4)>>)>>], M(NoKey, <<l>>, <<>>)>>}

MCTokens == SymbolTokens \cup ScopeTokens \cup {Full} \cup Odd
MCLimits == {Ample} \cup Tight

\* Only the full token meets the tight limits.
MCLoadInit == LoadInit /\ (limits = Ample \/ token = Full)

MCLoadSpec == MCLoadInit /\ [][LoadNext]_loadVars
=============================================================================
