------------------------------- MODULE BsCode -------------------------------
(***************************************************************************)
(* Expressions as trees, and the postfix code of one (140_parse.inc):      *)
(* operands before their operator, and what may stay unevaluated in a      *)
(* closure.  The parser is shown to emit it, the evaluator to run it.      *)
(***************************************************************************)
EXTENDS Naturals, SequencesExt

\* A tree: a value, or an operator of some arguments.  The last argument of
\* an iteration is the body of its closure, over param.
Leaf(v) == [node |-> "value", term |-> v]
Node(node, kind, args) == [node |-> node, kind |-> kind, args |-> args]
Loop(kind, of, param, body) ==
  [node |-> "iterate", kind |-> kind, args |-> <<of, body>>, param |-> param]

\* A closure on its own, and a call that reaches a function of the host.
Arrow(param, body) == [node |-> "closure", param |-> param, args |-> <<body>>]
Extern(name, args) == [node |-> "extern", name |-> name, args |-> args]

Code(tag, kind) == <<[op |-> tag, kind |-> kind]>>
Closure(params, body) == <<[op |-> "closure", params |-> params, body |-> body]>>

RECURSIVE Compile(_)
Compile(t) ==
  CASE t.node = "value" -> <<[op |-> "value", term |-> t.term]>>
    [] t.node = "unary" -> Compile(t.args[1]) \o Code("unary", t.kind)
    [] t.node = "binary" ->
         Compile(t.args[1]) \o Compile(t.args[2]) \o Code("binary", t.kind)
    [] t.node = "lazy" ->
         Compile(t.args[1]) \o Closure(<<>>, Compile(t.args[2])) \o Code("binary", t.kind)
    [] t.node = "iterate" ->
         Compile(t.args[1]) \o Closure(<<t.param>>, Compile(t.args[2])) \o Code("binary", t.kind)
    [] t.node = "try" ->
         Closure(<<>>, Compile(t.args[1])) \o Compile(t.args[2]) \o Code("binary", t.kind)
    [] t.node = "closure" -> Closure(<<t.param>>, Compile(t.args[1]))
    [] t.node = "extern" ->
         FlattenSeq([i \in DOMAIN t.args |-> Compile(t.args[i])])
         \o <<[op |-> IF Len(t.args) = 1 THEN "unary" ELSE "binary", kind |-> "ffi",
               name |-> t.name]>>
=============================================================================
