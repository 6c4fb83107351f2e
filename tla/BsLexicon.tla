------------------------------ MODULE BsLexicon ------------------------------
(***************************************************************************)
(* What a text is made of: the kinds of token and of value, and what the   *)
(* operators and methods are written as (140_parse.inc).                   *)
(***************************************************************************)
EXTENDS Naturals, Sequences

CONSTANTS
  ExternNames,  \* the names that begin with extern::, and what follows it
  MaxBlocks     \* BS_MAX_BLOCKS

NoName == "no name"   \* the name of a call that reaches no function
Authorizer == MaxBlocks

ScalarKinds == {"string", "variable", "integer", "negative", "date", "bytes", "bool", "null"}
ContainerKinds == {"array", "set", "map"}
TokenKinds == {"eof", "ident", "string", "variable", "integer", "negative", "date", "bytes",
               "key", "other_key", "short_key", "punct", "bad"}

\* The operators between two operands (bs_p_prec), the loosest first,
Levels == << {"||", "||!"}, {"&&", "&&!"}, {"<", ">", "<=", ">=", "===", "!==", "==", "!="},
             {"^"}, {"|"}, {"&"}, {"+", "-"}, {"*", "/"} >>
CompareLevel == 3
UnaryLevel == 9

Binary == UNION {Levels[n] : n \in DOMAIN Levels}
Precedence(p) == CHOOSE n \in DOMAIN Levels : p \in Levels[n]

\* and what each becomes (bs_p_binop).
Operators ==
  {<<"<", "less">>, <<">", "greater">>, <<"<=", "less_or_equal">>, <<">=", "greater_or_equal">>,
   <<"===", "equal">>, <<"!==", "not_equal">>, <<"==", "het_equal">>, <<"!=", "het_not_equal">>,
   <<"+", "add">>, <<"-", "sub">>, <<"*", "mul">>, <<"/", "div">>, <<"&&!", "and">>,
   <<"||!", "or">>, <<"&", "bit_and">>, <<"|", "bit_or">>, <<"^", "bit_xor">>,
   <<"&&", "lazy_and">>, <<"||", "lazy_or">>}
KindOf(p) == (CHOOSE o \in Operators : o[1] = p)[2]
IsLazy(p) == p \in {"&&", "||"}

\* bs_p_method.
Methods == {"contains", "starts_with", "ends_with", "matches", "intersection", "union",
            "all", "any", "get", "try_or"}
NullaryMethods == {"length", "type"}
NullaryKind(m) == IF m = "type" THEN "typeof" ELSE m
=============================================================================
