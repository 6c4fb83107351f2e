------------------------------ MODULE BsNesting ------------------------------
(***************************************************************************)
(* A block loaded, its values compared, and the block rendered as text:    *)
(* what the block says, and what is read off the text of it.               *)
(***************************************************************************)
EXTENDS BsTermEq, BsPrint, BsSyntax

CONSTANTS
  Texts,   \* texts of expressions
  Signers  \* the external keys of the blocks of the token

vars == <<expandVars, eqVars, printVars>>

\* Once a block has been loaded, or refused, it may be printed, and if it was
\* loaded two of its values may be compared.
Finished == \/ printed # "none" \/ answer # "none"

Init == LoadInit /\ EqInit /\ PrintInit
Next == \/ Load /\ UNCHANGED <<eqVars, printVars>>
        \/ Compare /\ at = "none" /\ UNCHANGED printVars
        \/ PrintTurn /\ asked = <<>> /\ UNCHANGED <<expandVars, eqVars>>
        \/ Finished /\ UNCHANGED vars
NestingSpec == Init /\ [][Next]_vars

-----------------------------------------------------------------------------
(* The text of a block.                                                    *)

\* What a writer has: the code of expressions it has read.
WrittenCode == {Compile(t) : t \in UNION {ExprReadings(1, ts, FALSE) : ts \in Texts}}

CodesOf(b) ==
  UNION {Range(r.tests) : r \in Range(b.rules) \cup UNION {Range(c.queries) : c \in Range(b.checks)}}

TrustIn(scopes, default) ==
  IF scopes = <<>> THEN default
  ELSE {Authorizer, 1} \cup UNION {UNION ScopeReadings(<<s>>, 1, Signers) : s \in Range(scopes)}

\* What the block, as the second of a token, says.
BlockTrust(b) == TrustIn(b.scopes, {Authorizer, 0, 1})
ClauseSaid(b, hd, r) == [head |-> hd, trust |-> TrustIn(r.scopes, BlockTrust(b)), block |-> 1,
                         body |-> r.body, tests |-> r.tests]
Said(b) ==
  [k \in DOMAIN b.facts |-> [kind |-> "fact", pred |-> b.facts[k], origin |-> {1}]]
  \o [k \in DOMAIN b.rules |->
        [kind |-> "rule", clause |-> ClauseSaid(b, <<b.rules[k].head>>, b.rules[k])]]
  \o [k \in DOMAIN b.checks |->
        [kind |-> b.checks[k].kind,
         queries |-> [q \in DOMAIN b.checks[k].queries |-> ClauseSaid(b, <<>>, b.checks[k].queries[q])]]]

AsSaid(s) ==
  CASE s.kind = "fact" -> s
    [] s.kind = "rule" -> [s EXCEPT !.clause = Compiled(s.clause)]
    [] OTHER -> [s EXCEPT !.queries = [q \in DOMAIN s.queries |-> Compiled(s.queries[q])]]

\* A block that was written from a text prints as a text that says the same:
\* every value, every operand on its side of its operator, every annotation
\* where it belongs (80_term.inc, 90_expr.inc, 95_datalog.inc).
PrintsAsRead ==
  printed = "OK" /\ CodesOf(block) \subseteq WrittenCode =>
    \E read \in TextReadings(text, 1, Signers) : [k \in DOMAIN read |-> AsSaid(read[k])] = Said(block)

\* Code that leaves one value and never lacks one.
Height(c, n) == Cardinality({k \in 1..n : c[k].op \in {"value", "closure"}})
                - Cardinality({k \in 1..n : c[k].op = "binary"})
RECURSIVE Balanced(_)
Balanced(c) ==
  /\ Height(c, Len(c)) = 1
  /\ \A k \in DOMAIN c : /\ c[k].op = "unary" => Height(c, k - 1) >= 1
                         /\ c[k].op = "binary" => Height(c, k - 1) >= 2
                         /\ c[k].op = "closure" => Balanced(c[k].body)

RECURSIVE Spellable(_)
Spellable(c) ==
  \A k \in DOMAIN c :
    /\ c[k].op = "unary" => c[k].kind \in {"negate", "parens", "length", "typeof", "ffi"}
    /\ c[k].op = "binary" => c[k].kind \in {o[2] : o \in Operators} \cup Methods \cup {"ffi"}
    /\ c[k].op \in {"unary", "binary"} /\ c[k].kind = "ffi" => "name" \in DOMAIN c[k]
    /\ c[k].op = "closure" => Spellable(c[k].body)

ClausesOf(b) == Range(b.rules) \cup UNION {Range(c.queries) : c \in Range(b.checks)}
Printable(b) ==
  /\ \A k \in DOMAIN stated : ~Refusable(k)
  /\ \A c \in CodesOf(b) : Balanced(c) /\ Spellable(c)
  /\ \A c \in Range(b.checks) : c.kind \in {"one", "all", "reject"} /\ c.queries # <<>>
  /\ \A s \in Range(b.scopes) \cup UNION {Range(r.scopes) : r \in ClausesOf(b)} :
       s.kind \in {"ident", "key"}

\* What prints is whole, and what does not has something in it that has no
\* text, or is too deep for the loader as well: a block that can be evaluated
\* can be read, though its closures and containers are counted twice over, by
\* loader and printer, each its own way (90_expr.inc:178-325, 80_term.inc:231-313).
PrintsForCause ==
  /\ printed = "OK" => Printable(block)
  /\ printed = "MALFORMED" => ~Printable(block)
  /\ printed = "DEPTH" => status # "OK" \/ ~Printable(block)
=============================================================================
