----------------------------- MODULE BsLanguage -----------------------------
(***************************************************************************)
(* What a regular expression means: a tree, and the stretches of a text    *)
(* that belong to it.  A pattern is given as its units, [text, is, hits]:  *)
(* a sign is what it is written as, and any other unit one character of    *)
(* those in hits.                                                          *)
(***************************************************************************)
EXTENDS Integers, Sequences

Sign(c) == [text |-> <<c>>, is |-> c, hits |-> {}]
One(t, hits) == [text |-> t, is |-> "one", hits |-> hits]

Node(is, hits, args) == [is |-> is, hits |-> hits, args |-> args]
Unread(u, i, j) == SubSeq(u, i, j)

\* The readings of a pattern: at level 1 alternatives, at 2 a succession, at
\* 3 one thing, perhaps repeated.
RECURSIVE Readings(_, _)
Readings(n, u) ==
  LET k == Len(u)
  IN  CASE k = 0 -> {}
        [] k > 0 /\ n = 1 ->
             Readings(2, u) \cup
             UNION {{Node("or", {}, <<l, r>>) : l \in Readings(1, Unread(u, 1, i - 1)),
                                                r \in Readings(2, Unread(u, i + 1, k))} :
                    i \in {j \in 1..k : u[j].is = "|"}}
        [] k > 0 /\ n = 2 ->
             Readings(3, u) \cup
             UNION {{Node("then", {}, <<l, r>>) : l \in Readings(2, Unread(u, 1, i)),
                                                  r \in Readings(3, Unread(u, i + 1, k))} :
                    i \in 1 .. k - 1}
        [] OTHER ->
             (IF k = 1 /\ u[1].is \in {"one", "^", "$"} THEN {Node(u[1].is, u[1].hits, <<>>)} ELSE {})
             \cup (IF k > 2 /\ u[1].is = "(" /\ u[k].is = ")" THEN Readings(1, Unread(u, 2, k - 1)) ELSE {})
             \cup (IF k > 1 /\ u[k].is \in {"*", "+", "?"}
                   THEN {Node(u[k].is, {}, <<e>>) : e \in Readings(3, Unread(u, 1, k - 1))} ELSE {})

\* Of a pattern with nothing in it.
RECURSIVE IsNothing(_)
IsNothing(u) == \/ u = <<>>
                \/ /\ Len(u) > 1 /\ u[1].is = "(" /\ u[Len(u)].is = ")"
                   /\ IsNothing(Unread(u, 2, Len(u) - 1))

\* The text behind place i and up to place j belongs to e.
RECURSIVE Belongs(_, _, _, _)
Belongs(e, text, i, j) ==
  LET Twice(d, f) == \E k \in i..j : Belongs(d, text, i, k) /\ Belongs(f, text, k, j)
      repeated == e.args[1]
      Often == \E k \in i + 1 .. j : Belongs(repeated, text, i, k)
                                     /\ Belongs(Node("*", {}, e.args), text, k, j)
  IN  CASE e.is = "one" -> j = i + 1 /\ text[j] \in e.hits
        [] e.is = "^" -> i = 0 /\ j = 0
        [] e.is = "$" -> i = Len(text) /\ j = i
        [] e.is = "or" -> Belongs(e.args[1], text, i, j) \/ Belongs(e.args[2], text, i, j)
        [] e.is = "then" -> Twice(e.args[1], e.args[2])
        [] e.is = "*" -> i = j \/ Often
        [] e.is = "+" -> Belongs(repeated, text, i, j) \/ Often
        [] e.is = "?" -> i = j \/ Belongs(repeated, text, i, j)

\* Some stretch of the text belongs to the pattern.
Holds(u, text) ==
  \/ IsNothing(u)
  \/ \E e \in Readings(1, u) : \E i \in 0 .. Len(text) : \E j \in i .. Len(text) :
       Belongs(e, text, i, j)
=============================================================================
