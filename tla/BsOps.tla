------------------------------- MODULE BsOps --------------------------------
(***************************************************************************)
(* The operators of an expression that run no closure (120_eval.inc).  A   *)
(* container holds a run of values, a set no less than an array, and a map *)
(* its keys and values in turn.  Comparing containers is work that is paid *)
(* for: an answer carries the comparisons it cost, and the terms that were *)
(* added to the pool to hold it.                                           *)
(***************************************************************************)
EXTENDS Integers, SequencesExt, FiniteSetsExt, Bitwise

CONSTANTS
  IntBits,            \* the width of an integer, 64
  Externs,            \* the functions the host registered,
  ExternOf(_, _),     \* and what they answer
  MatchOf(_, _)       \* the regular expressions (125_regex.inc)

Bool_(b) == [kind |-> "bool", bool |-> b]
Int_(n) == [kind |-> "integer", int |-> n]
Null == [kind |-> "null"]
Containers == {"set", "array", "map"}

Answer(v, cost) == [st |-> "OK", value |-> v, cost |-> cost, built |-> 0]
Failure(st) == [st |-> st, value |-> Null, cost |-> 0, built |-> 0]

-----------------------------------------------------------------------------
(* bs_term_eq: whether two values are the same, and what finding out       *)
(* costs, one for every turn of its loop over pending comparisons.         *)

\* What n comparisons made in turn cost, up to the first that settles them.
Effort(n, Settles(_), Each(_)) ==
  LET settling == {i \in 1..n : Settles(i)}
  IN  MapThenSumSet(Each, 1..(IF settling = {} THEN n ELSE Min(settling)))

Alike(a, b) == a.kind = b.kind /\ a.kind \in Containers /\ Len(a.items) = Len(b.items)

\* A set is searched for each element of the other; an array, and a map with
\* it, is compared place by place.
RECURSIVE Same(_, _)
Same(a, b) ==
  \/ a.kind = b.kind /\ a.kind \notin Containers /\ a = b
  \/ Alike(a, b) /\ \A i \in DOMAIN a.items :
       IF a.kind = "set" THEN \E j \in DOMAIN b.items : Same(a.items[i], b.items[j])
       ELSE Same(a.items[i], b.items[i])

RECURSIVE SameCost(_, _)
SameCost(a, b) ==
  LET n == Len(a.items)
      search(i) == Effort(n, LAMBDA j : Same(a.items[i], b.items[j]),
                             LAMBDA j : 1 + SameCost(a.items[i], b.items[j]))
      nowhere(i) == \A j \in 1..n : ~Same(a.items[i], b.items[j])
  IN  CASE ~Alike(a, b) -> 1
        [] Alike(a, b) /\ a.kind = "set" -> 1 + Effort(n, nowhere, search)
        [] Alike(a, b) /\ a.kind # "set" ->
             1 + Effort(n, LAMBDA i : ~Same(a.items[i], b.items[i]),
                           LAMBDA i : 1 + SameCost(a.items[i], b.items[i]))

\* bs_run_contains.
In(v, run) == \E i \in DOMAIN run : Same(run[i], v)
InCost(v, run) == Effort(Len(run), LAMBDA i : Same(run[i], v), LAMBDA i : SameCost(run[i], v))

-----------------------------------------------------------------------------
(* Operators on one value. *)

Negate(v) == IF v.kind = "bool" THEN Answer(Bool_(~v.bool), 0) ELSE Failure("TYPE")

Length(v) ==
  CASE v.kind \in {"string", "bytes"} -> Answer(Int_(Len(v.text)), 0)
    [] v.kind \in {"set", "array"} -> Answer(Int_(Len(v.items)), 0)
    [] v.kind = "map" -> Answer(Int_(Len(v.items) \div 2), 0)
    [] OTHER -> Failure("TYPE")

\* The name of a kind, as a text of its own.
Typeof(v) == IF v.kind \in {"variable", "closure"} THEN Failure("TYPE")
             ELSE Answer([kind |-> "string", text |-> <<v.kind>>], 0)

Call(name, args) == IF name \in Externs THEN ExternOf(name, args) ELSE Failure("UNSUPPORTED")

-----------------------------------------------------------------------------
(* Operators on two. *)

Both(a, b, kind) == a.kind = kind /\ b.kind = kind

\* bs_compare: integers and dates alone have an order.
Compare(kind, a, b) ==
  IF a.kind # b.kind \/ a.kind \notin {"integer", "date"} THEN Failure("TYPE")
  ELSE Answer(Bool_(CASE kind = "less" -> a.int < b.int
                      [] kind = "greater" -> a.int > b.int
                      [] kind = "less_or_equal" -> a.int <= b.int
                      [] kind = "greater_or_equal" -> a.int >= b.int), 0)

Equal(a, b, expected) == Answer(Bool_(Same(a, b) = expected), SameCost(a, b))
StrictEqual(a, b, expected) ==
  IF a.kind # b.kind THEN Failure("TYPE") ELSE Equal(a, b, expected)
LenientEqual(a, b, expected) ==
  IF a.kind # b.kind THEN Answer(Bool_(~expected), 0) ELSE Equal(a, b, expected)

MinInt == -(2 ^ (IntBits - 1))
MaxInt == 2 ^ (IntBits - 1) - 1
Fits(n) == n \in MinInt..MaxInt

\* Division of C: towards zero.
Magnitude(x) == IF x < 0 THEN -x ELSE x
Quotient(x, y) ==
  LET q == Magnitude(x) \div Magnitude(y) IN IF (x < 0) = (y < 0) THEN q ELSE -q

\* bs_arith: checked, never wrapped.
Arith(kind, x, y) ==
  IF kind = "div" /\ y = 0 THEN Failure("OVERFLOW")
  ELSE LET n == CASE kind = "add" -> x + y
                  [] kind = "sub" -> x - y
                  [] kind = "mul" -> x * y
                  [] kind = "div" -> Quotient(x, y)
       IN  IF Fits(n) THEN Answer(Int_(n), 0) ELSE Failure("OVERFLOW")

\* The bits of an integer, and the integer of some bits.
Unsigned(n) == n % 2 ^ IntBits
Signed(u) == IF u > MaxInt THEN u - 2 ^ IntBits ELSE u
Bits(kind, x, y) ==
  Answer(Int_(Signed(CASE kind = "bit_and" -> Unsigned(x) & Unsigned(y)
                       [] kind = "bit_or" -> Unsigned(x) | Unsigned(y)
                       [] kind = "bit_xor" -> Unsigned(x) ^^ Unsigned(y))), 0)

\* Where part would begin in whole.
Offset(kind, whole, part) == IF kind = "ends_with" THEN Len(whole) - Len(part) ELSE 0

Affix(kind, whole, part) ==
  CASE Both(whole, part, "string") ->
         Answer(Bool_(IF kind = "ends_with" THEN IsSuffix(part.text, whole.text)
                      ELSE IsPrefix(part.text, whole.text)), 0)
    [] Both(whole, part, "array") ->
         LET w == whole.items
             p == part.items
             off == Offset(kind, w, p)
         IN  IF Len(p) > Len(w) THEN Answer(Bool_(FALSE), 0)
             ELSE Answer(Bool_(\A i \in DOMAIN p : Same(w[off + i], p[i])),
                         Effort(Len(p), LAMBDA i : ~Same(w[off + i], p[i]),
                                        LAMBDA i : SameCost(w[off + i], p[i])))
    [] OTHER -> Failure("TYPE")

\* The keys of a map are at its odd places here, at even offsets there.
Keys(map) == [i \in 1..(Len(map.items) \div 2) |-> map.items[2 * i - 1]]

\* A slip: of two sets, any element in common is enough.
MembershipOfSome(hay, needle) ==
  IF Both(hay, needle, "set")
  THEN Answer(Bool_(\E v \in ToSet(needle.items) : In(v, hay.items)), 0)
  ELSE Answer(Bool_(FALSE), 0)

Membership(hay, needle) ==
  CASE Both(hay, needle, "set") ->
         Answer(Bool_(\A v \in ToSet(needle.items) : In(v, hay.items)),
                Effort(Len(needle.items), LAMBDA i : ~In(needle.items[i], hay.items),
                                          LAMBDA i : InCost(needle.items[i], hay.items)))
    [] hay.kind \in {"set", "array"} /\ ~Both(hay, needle, "set") ->
         Answer(Bool_(In(needle, hay.items)), InCost(needle, hay.items))
    [] hay.kind = "map" ->
         IF needle.kind \in {"integer", "string"}
         THEN Answer(Bool_(In(needle, Keys(hay))), InCost(needle, Keys(hay)))
         ELSE Answer(Bool_(FALSE), 0)
    [] Both(hay, needle, "string") ->
         Answer(Bool_(\E i \in 0..Len(hay.text) :
                        IsPrefix(needle.text, SubSeq(hay.text, i + 1, Len(hay.text)))), 0)
    [] OTHER -> Failure("TYPE")

Get(container, key) ==
  CASE container.kind = "array" /\ key.kind = "integer" ->
         Answer(IF key.int \in 0..(Len(container.items) - 1)
                THEN container.items[key.int + 1] ELSE Null, 0)
    [] container.kind = "map" /\ key.kind \in {"integer", "string"} ->
         LET n == SelectInSeq(Keys(container), LAMBDA k : Same(k, key))
         IN  Answer(IF n = 0 THEN Null ELSE container.items[2 * n],
                    InCost(key, Keys(container)))
    [] OTHER -> Failure("TYPE")

Concat(a, b) == IF b.kind # "string" THEN Failure("TYPE")
                ELSE Answer([kind |-> "string", text |-> a.text \o b.text], 0)

\* bs_set_op: the elements of a run, in turn, those alone that are in others
\* if there is such a sieve; one already in the result is passed over.
RECURSIVE Collect(_, _, _, _, _)
Collect(run, sieve, items, cost, room) ==
  LET v == Head(run)
      kept == \A others \in sieve : In(v, others)
      fresh == kept /\ ~In(v, items)
      paid == cost + MapThenSumSet(LAMBDA others : InCost(v, others), sieve)
                   + IF kept THEN InCost(v, items) ELSE 0
  IN  IF run = <<>> \/ (fresh /\ Len(items) >= room)
      THEN [st |-> IF run = <<>> THEN "OK" ELSE "NOMEM",
            value |-> [kind |-> "set", items |-> items],
            cost |-> IF run = <<>> THEN cost ELSE paid, built |-> Len(items)]
      ELSE Collect(Tail(run), sieve, IF fresh THEN Append(items, v) ELSE items, paid, room)

\* A slip: one term more than the pool holds.
SetOpPastRoom(kind, a, b, room) ==
  CASE ~Both(a, b, "set") -> Failure("TYPE")
    [] Both(a, b, "set") /\ kind = "union" -> Collect(a.items \o b.items, {}, <<>>, 0, room + 1)
    [] Both(a, b, "set") /\ kind = "intersection" -> Collect(a.items, {b.items}, <<>>, 0, room + 1)

SetOp(kind, a, b, room) ==
  CASE ~Both(a, b, "set") -> Failure("TYPE")
    [] Both(a, b, "set") /\ kind = "union" -> Collect(a.items \o b.items, {}, <<>>, 0, room)
    [] Both(a, b, "set") /\ kind = "intersection" -> Collect(a.items, {b.items}, <<>>, 0, room)

-----------------------------------------------------------------------------

UnaryAnswer(op, v) ==
  CASE op.kind = "negate" -> Negate(v)
    [] op.kind = "parens" -> Answer(v, 0)
    [] op.kind = "length" -> Length(v)
    [] op.kind = "typeof" -> Typeof(v)
    [] op.kind = "ffi" -> Call(op.name, <<v>>)
    [] OTHER -> Failure("UNSUPPORTED")

BinaryAnswer(op, a, b, room) ==
  CASE op.kind \in {"less", "greater", "less_or_equal", "greater_or_equal"} ->
         Compare(op.kind, a, b)
    [] op.kind \in {"equal", "not_equal"} -> StrictEqual(a, b, op.kind = "equal")
    [] op.kind \in {"het_equal", "het_not_equal"} -> LenientEqual(a, b, op.kind = "het_equal")
    [] op.kind = "contains" -> Membership(a, b)
    [] op.kind = "matches" -> IF Both(a, b, "string") THEN MatchOf(a, b) ELSE Failure("TYPE")
    [] op.kind \in {"starts_with", "ends_with"} -> Affix(op.kind, a, b)
    [] op.kind \in {"intersection", "union"} -> SetOp(op.kind, a, b, room)
    [] op.kind = "add" /\ a.kind = "string" -> Concat(a, b)
    [] op.kind \in {"add", "sub", "mul", "div"} /\ ~(op.kind = "add" /\ a.kind = "string") ->
         IF Both(a, b, "integer") THEN Arith(op.kind, a.int, b.int) ELSE Failure("TYPE")
    [] op.kind \in {"bit_and", "bit_or", "bit_xor"} ->
         IF Both(a, b, "integer") THEN Bits(op.kind, a.int, b.int) ELSE Failure("TYPE")
    [] op.kind = "and" -> IF Both(a, b, "bool") THEN Answer(Bool_(a.bool /\ b.bool), 0)
                          ELSE Failure("TYPE")
    [] op.kind = "or" -> IF Both(a, b, "bool") THEN Answer(Bool_(a.bool \/ b.bool), 0)
                         ELSE Failure("TYPE")
    [] op.kind = "get" -> Get(a, b)
    [] op.kind = "ffi" -> Call(op.name, <<a, b>>)
    [] OTHER -> Failure("UNSUPPORTED")
=============================================================================
