------------------------------ MODULE BsRegex -------------------------------
(***************************************************************************)
(* Regular expressions (125_regex.inc).  A pattern is cut into tokens with *)
(* its concatenations made explicit, turned into postfix, and assembled    *)
(* into a program whose threads go through the text in lockstep.  A text   *)
(* is a sequence of characters; a class is the set of those it holds.      *)
(***************************************************************************)
EXTENDS Integers, SequencesExt, FiniteSetsExt

CONSTANTS
  Characters,   \* all there are, in the order of their codes
  Letters,      \* those that are letters
  MaxTokens,    \* BS_RE_MAX_TOKENS
  MaxInsts,     \* BS_RE_MAX_INSTS
  MaxClasses    \* BS_RE_MAX_CLASSES

CodeOf(c) == CHOOSE k \in DOMAIN Characters : Characters[k] = c
Between(lo, hi) == {Characters[k] : k \in CodeOf(lo) .. CodeOf(hi)}
Every == ToSet(Characters)

Refused(st) == [st |-> st]

-----------------------------------------------------------------------------
(* Tokens (bs_re_class, bs_re_tokenise).                                   *)

\* Where the character is that stands at i, or behind an escape at i.
Member(p, i) == IF i <= Len(p) /\ p[i] = "\\" THEN i + 1 ELSE i

\* What is left of a class from place i on: a bracket ends it unless it comes
\* first, and a minus makes a range unless it comes last.
RECURSIVE ClassFrom(_, _, _, _)
ClassFrom(p, i, set, first) ==
  LET lo == Member(p, i)
      ranges == lo + 2 <= Len(p) /\ p[lo + 1] = "-" /\ p[lo + 2] # "]"
      hi == IF ranges THEN Member(p, lo + 2) ELSE lo
  IN  IF i > Len(p) THEN Refused("MALFORMED")
      ELSE IF p[i] = "]" /\ ~first THEN [st |-> "OK", hits |-> set, next |-> i + 1]
      ELSE IF hi > Len(p) \/ lo > Len(p) THEN Refused("MALFORMED")
      ELSE IF CodeOf(p[hi]) < CodeOf(p[lo]) THEN Refused("MALFORMED")
      ELSE ClassFrom(p, hi + 1, set \cup Between(p[lo], p[hi]), FALSE)

Class(p, i) ==
  LET negate == i <= Len(p) /\ p[i] = "^"
      c == ClassFrom(p, IF negate THEN i + 1 ELSE i, {}, TRUE)
  IN  IF c.st = "OK" /\ negate THEN [c EXCEPT !.hits = Every \ @] ELSE c

Atom(op, hits) == [kind |-> "atom", op |-> op, hits |-> hits]
Tok(kind) == [kind |-> kind, op |-> "none", hits |-> {}]
Signs == [x \in {"(", ")", "|", "*", "+", "?", "^", "$"} |->
            CASE x = "|" -> "alt" [] x = "*" -> "star" [] x = "+" -> "plus" [] x = "?" -> "opt"
              [] x = "^" -> "bol" [] x = "$" -> "eol" [] OTHER -> x]

Read(tok, next) == [st |-> "OK", tok |-> tok, next |-> next]

\* The token at place i, when there have been this many classes.
TokenAt(p, i, classes) ==
  LET c == p[i]
  IN  CASE c \in DOMAIN Signs -> Read(Tok(Signs[c]), i + 1)
        [] c = "{" -> Refused("UNSUPPORTED")
        [] c = "." -> Read(Atom("any", Every \ {"\n"}), i + 1)
        [] c = "[" ->
             IF classes >= MaxClasses THEN Refused("LIMIT")
             ELSE LET class == Class(p, i + 1)
                  IN  IF class.st # "OK" THEN class ELSE Read(Atom("class", class.hits), class.next)
        [] c = "\\" ->
             IF i = Len(p) THEN Refused("MALFORMED")
             ELSE IF p[i + 1] \in Letters THEN Refused("UNSUPPORTED")
             ELSE Read(Atom("char", {p[i + 1]}), i + 2)
        [] OTHER -> Read(Atom("char", {c}), i + 1)

IsOperand(t) == t.kind \in {"atom", "bol", "eol"}

\* What may be joined with what is before it, and with what comes after.
JoinsBefore(t) == IsOperand(t) \/ t.kind = "("

\* A slip: what has been repeated is not joined with what follows.
JoinsOnce(t) == IsOperand(t) \/ t.kind = ")"
JoinsAfter(t) == t.kind \notin {"(", "alt"}

RECURSIVE TokensFrom(_, _, _)
TokensFrom(p, i, toks) ==
  LET t == TokenAt(p, i, Len(SelectSeq(toks, LAMBDA u : u.op = "class")))
      joined == IF JoinsBefore(t.tok) /\ toks # <<>> /\ JoinsAfter(Last(toks))
                THEN Append(toks, Tok("concat")) ELSE toks
  IN  IF i > Len(p) THEN [st |-> "OK", toks |-> toks]
      ELSE IF t.st # "OK" THEN t
      ELSE IF Len(joined) >= MaxTokens THEN Refused("LIMIT")
      ELSE TokensFrom(p, t.next, Append(joined, t.tok))
Tokenise(p) == TokensFrom(p, 1, <<>>)

-----------------------------------------------------------------------------
(* Postfix (bs_re_compile).                                                *)

Prec(t) == CASE t.kind = "alt" -> 1 [] t.kind = "concat" -> 2 [] OTHER -> 3

\* Down to where the stack stays when all that binds this tightly leaves it.
Staying(ops, level) == Max({0} \cup {k \in DOMAIN ops : ops[k].kind = "(" \/ Prec(ops[k]) < level})
Leaving(ops, k) == Reverse(SubSeq(ops, k + 1, Len(ops)))

Shunt(s, t) ==
  LET k == Staying(s.ops, IF t.kind = ")" THEN 0 ELSE Prec(t))
      post == s.post \o Leaving(s.ops, k)
      ops == SubSeq(s.ops, 1, k)
  IN  CASE s.st # "OK" -> s
        [] s.st = "OK" /\ IsOperand(t) -> [s EXCEPT !.post = Append(@, t)]
        [] s.st = "OK" /\ t.kind = "(" -> [s EXCEPT !.ops = Append(@, t)]
        [] s.st = "OK" /\ t.kind = ")" ->
             IF k = 0 THEN Refused("MALFORMED") ELSE [s EXCEPT !.post = post, !.ops = Front(ops)]
        [] OTHER -> [s EXCEPT !.post = post, !.ops = Append(ops, t)]

Postfix(toks) ==
  LET s == FoldLeft(Shunt, [st |-> "OK", post |-> <<>>, ops |-> <<>>], toks)
  IN  IF s.st # "OK" THEN s
      ELSE IF Tok("(") \in ToSet(s.ops) THEN Refused("MALFORMED")
      ELSE [s EXCEPT !.post = @ \o Leaving(s.ops, 0)]

-----------------------------------------------------------------------------
(* The program (bs_re_build): instructions [op, hits, x, y], counted from  *)
(* 0.  A fragment has an entry and a list of holes, which is threaded      *)
(* through the holes themselves: 2i is the x of instruction i, 2i+1 its y. *)

None == -1
Hole(prog, hole) == LET in == prog[hole \div 2 + 1] IN IF hole % 2 = 1 THEN in.y ELSE in.x
Fill(prog, hole, v) ==
  [prog EXCEPT ![hole \div 2 + 1] = IF hole % 2 = 1 THEN [@ EXCEPT !.y = v] ELSE [@ EXCEPT !.x = v]]

RECURSIVE Patched(_, _, _), Chained(_, _, _)
Patched(prog, list, target) ==
  IF list = None THEN prog ELSE Patched(Fill(prog, list, target), Hole(prog, list), target)
Chained(prog, list, more) ==
  IF Hole(prog, list) = None THEN Fill(prog, list, more) ELSE Chained(prog, Hole(prog, list), more)

Inst(op, hits, x, y) == [op |-> op, hits |-> hits, x |-> x, y |-> y]
Frag(start, out) == <<[start |-> start, out |-> out]>>
Built(prog, frags) == [st |-> "OK", prog |-> prog, frags |-> frags]

Assemble(b, t) ==
  LET needs == IF IsOperand(t) THEN 0 ELSE IF t.kind \in {"concat", "alt"} THEN 2 ELSE 1
      n == Len(b.frags)
      fr == b.frags[n - needs + 1]
      to == b.frags[n]
      rest == SubSeq(b.frags, 1, n - needs)
      at == Len(b.prog)
      Emitted(in) == Append(b.prog, in)
      split == Emitted(Inst("split", {}, fr.start, None))
  IN  CASE b.st # "OK" -> b
        [] b.st = "OK" /\ n < needs -> Refused("MALFORMED")
        [] b.st = "OK" /\ n >= needs /\ t.kind = "concat" ->
             Built(Patched(b.prog, fr.out, to.start), rest \o Frag(fr.start, to.out))
        [] b.st = "OK" /\ n >= needs /\ t.kind # "concat" /\ at >= MaxInsts -> Refused("LIMIT")
        [] OTHER ->
             CASE IsOperand(t) ->
                    Built(Emitted(Inst(IF t.kind = "atom" THEN t.op ELSE t.kind, t.hits, None, 0)),
                          rest \o Frag(at, 2 * at))
               [] t.kind = "alt" ->
                    Built(Chained(Emitted(Inst("split", {}, fr.start, to.start)), fr.out, to.out),
                          rest \o Frag(at, fr.out))
               [] t.kind = "star" -> Built(Patched(split, fr.out, at), rest \o Frag(at, 2 * at + 1))
               [] t.kind = "plus" -> Built(Patched(split, fr.out, at), rest \o Frag(fr.start, 2 * at + 1))
               [] t.kind = "opt" -> Built(Chained(split, fr.out, 2 * at + 1), rest \o Frag(at, fr.out))

\* The last instruction enters the program.
Program(post) ==
  LET b == FoldLeft(Assemble, Built(<<>>, <<>>), post)
      at == Len(b.prog)
  IN  IF b.st # "OK" THEN b
      ELSE IF Len(b.frags) > 1 THEN Refused("MALFORMED")
      ELSE IF at + Len(b.frags) >= MaxInsts THEN Refused("LIMIT")
      ELSE LET match == Append(b.prog, Inst("match", {}, 0, 0))
           IN  IF b.frags = <<>> THEN Built(match, <<>>)
               ELSE Built(Append(Patched(match, b.frags[1].out, at),
                                 Inst("jmp", {}, b.frags[1].start, 0)), <<>>)

\* bs_re_compile.
Compiled(p) ==
  LET tokens == Tokenise(p)
      s == Postfix(tokens.toks)
  IN  IF tokens.st # "OK" THEN tokens ELSE IF s.st # "OK" THEN s ELSE Program(s.post)

-----------------------------------------------------------------------------
(* The threads (bs_re_add, bs_re_search).                                  *)

\* Where a thread goes without a character, at this place of the text.
Goes(in, pos, n) ==
  CASE in.op = "split" -> {in.x, in.y}
    [] in.op = "jmp" -> {in.x}
    [] in.op = "bol" -> IF pos = 0 THEN {in.x} ELSE {}
    [] in.op = "eol" -> IF pos = n THEN {in.x} ELSE {}
    [] OTHER -> {}

RECURSIVE Reached(_, _, _, _)
Reached(prog, pcs, pos, n) ==
  LET more == pcs \cup UNION {Goes(prog[pc + 1], pos, n) : pc \in pcs}
  IN  IF more = pcs THEN pcs ELSE Reached(prog, more, pos, n)

Entry(prog) == prog[Len(prog)].x
Matched(prog, pcs) == \E pc \in pcs : prog[pc + 1].op = "match"

\* The threads behind the first pos characters: one begins at every place.
RECURSIVE Threads(_, _, _)
Threads(prog, text, pos) ==
  LET before == Threads(prog, text, pos - 1)
      hit == {pc \in before : text[pos] \in prog[pc + 1].hits}
  IN  Reached(prog, {Entry(prog)} \cup (IF pos = 0 THEN {} ELSE {prog[pc + 1].x : pc \in hit}),
              pos, Len(text))

Search(prog, text) == \E pos \in 0 .. Len(text) : Matched(prog, Threads(prog, text, pos))

\* bs_re_match: what a search of the text says, when this came of the pattern.
Found(compiled, text) ==
  IF compiled.st # "OK" THEN compiled ELSE [st |-> "OK", found |-> Search(compiled.prog, text)]
Match(text, pattern) == Found(Compiled(pattern), text)
=============================================================================
