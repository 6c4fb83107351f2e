----------------------------- MODULE BsExpression ---------------------------
(***************************************************************************)
(* What an expression means: the value a tree has for the variables in     *)
(* sight.  The meaning knows no stack, no frame and no budget.             *)
(***************************************************************************)
EXTENDS BsOps, BsCode

CONSTANT Ample    \* room for what any operator builds

-----------------------------------------------------------------------------
(* The meaning of a tree: [st, value].                                     *)

Is(v) == [st |-> "OK", value |-> v]
Fails(st) == [st |-> st, value |-> Null]
Outcome(answer) == IF answer.st = "OK" THEN Is(answer.value) ELSE Fails(answer.st)
Boolean(o) == IF o.st = "OK" /\ o.value.kind # "bool" THEN Fails("TYPE") ELSE o

Elements(v) == IF v.kind # "map" THEN v.items
               ELSE [i \in 1..(Len(v.items) \div 2) |->
                       [kind |-> "array", items |-> SubSeq(v.items, 2 * i - 1, 2 * i)]]

RECURSIVE Denote(_, _)
Denote(t, env) ==
  LET Arg(i) == Denote(t.args[i], env)
      left == Arg(1)
      \* The outcomes of the body, element by element.
      body(e) == Boolean(Denote(t.args[2], t.param :> e @@ env))
      outcomes == [i \in DOMAIN Elements(left.value) |-> body(Elements(left.value)[i])]
      settles(o) == o.st # "OK" \/ o.value = Bool_(t.kind = "any")
      \* The first that settles the answer is the answer.
      settled == SelectInSeq(outcomes, settles)
  IN CASE t.node = "value" ->
            IF t.term.kind # "variable" THEN Is(t.term)
            ELSE IF t.term.name \in DOMAIN env THEN Is(env[t.term.name]) ELSE Fails("TYPE")
       [] t.node = "try" -> IF Arg(2).st # "OK" \/ left.st # "OK" THEN Arg(2) ELSE left
       [] t.node # "value" /\ t.node # "try" /\ left.st # "OK" -> left
       [] t.node = "unary" /\ left.st = "OK" -> Outcome(UnaryAnswer(t, left.value))
       [] t.node = "binary" /\ left.st = "OK" ->
            IF Arg(2).st # "OK" THEN Arg(2)
            ELSE Outcome(BinaryAnswer(t, left.value, Arg(2).value, Ample))
       [] t.node = "lazy" /\ left.st = "OK" ->
            IF left.value.kind # "bool" \/ left.value = Bool_(t.kind = "lazy_or")
            THEN Boolean(left) ELSE Boolean(Arg(2))
       [] t.node = "iterate" /\ left.st = "OK" ->
            IF left.value.kind \notin Containers THEN Fails("TYPE")
            ELSE IF outcomes = <<>> THEN Is(Bool_(t.kind = "all"))
            ELSE IF t.param \in DOMAIN env THEN Fails("SHADOWED")
            ELSE IF settled = 0 THEN Is(Bool_(t.kind = "all"))
            ELSE outcomes[settled]

\* An expression is a boolean, or wrong.
Evaluate(t, env) == Boolean(Denote(t, env))

-----------------------------------------------------------------------------
(* What a value stands for: a set has no order.                            *)

RECURSIVE Meaning(_)
Meaning(v) ==
  IF v.kind \notin Containers THEN v
  ELSE [kind |-> v.kind,
        of |-> IF v.kind = "set" THEN {Meaning(e) : e \in ToSet(v.items)}
               ELSE [i \in DOMAIN v.items |-> Meaning(v.items[i])]]

\* What the operators on containers should answer, of meanings.
MeansIn(a, b) == Meaning(b) \in {Meaning(e) : e \in ToSet(a.items)}
Means(kind, a, b, v) ==
  CASE kind \in {"equal", "het_equal"} -> v = Bool_(Meaning(a) = Meaning(b))
    [] kind \in {"not_equal", "het_not_equal"} -> v = Bool_(Meaning(a) # Meaning(b))
    [] kind = "contains" /\ a.kind = "set" /\ b.kind = "set" ->
         v = Bool_(Meaning(b).of \subseteq Meaning(a).of)
    [] kind = "contains" /\ (a.kind = "array" \/ (a.kind = "set" /\ b.kind # "set")) ->
         v = Bool_(MeansIn(a, b))
    [] kind = "union" -> Meaning(v).of = Meaning(a).of \cup Meaning(b).of
    [] kind = "intersection" -> Meaning(v).of = Meaning(a).of \cap Meaning(b).of
    [] OTHER -> TRUE
=============================================================================
