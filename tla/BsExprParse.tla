----------------------------- MODULE BsExprParse -----------------------------
(***************************************************************************)
(* Reading terms and expressions (140_parse.inc: bs_p_term,                *)
(* bs_p_expression): containers on a stack of frames, operators, brackets, *)
(* method calls and closures on another, and postfix code as the result.   *)
(* One action is one turn of a loop, up to the next token it asks for.     *)
(*                                                                         *)
(* The source is the sequence of what the lexer can tell apart, a token    *)
(* each.  Only the sign of a number is left to the reader: a `-` that      *)
(* touches a number is one token with it or one of its own.  Indices into  *)
(* pools count from 0, as in the code.                                     *)
(***************************************************************************)
EXTENDS BsLexicon, FiniteSets

CONSTANTS
  Spelling,    \* what a token can spell
  MaxDepth,    \* BS_MAX_DEPTH
  Scratch      \* BS_PARSE_SCRATCH

ASSUME ExprParseAssumption ==
  /\ MaxDepth \in Nat \ {0}
  /\ Scratch \in Nat \ {0}
  /\ Spelling # {} /\ NoName \notin Spelling
  /\ DOMAIN ExternNames \subseteq Spelling
  /\ \A n \in DOMAIN ExternNames : ExternNames[n] \in Spelling \cup {NoName}

-----------------------------------------------------------------------------
(* What is read and what is made of it.                                    *)


Token == [kind : TokenKinds, text : Spelling]
Term == [kind : ScalarKinds, text : Spelling] \cup
        [kind : ContainerKinds, at : Nat, count : Nat]

UnaryKinds == {"negate", "parens", "length", "typeof", "ffi"}
BinaryKinds == {o[2] : o \in Operators} \cup Methods \cup {"ffi"}

Op == [op : {"value"}, term : Nat] \cup
      [op : {"unary"}, kind : UnaryKinds, name : Spelling \cup {NoName}] \cup
      [op : {"binary"}, kind : BinaryKinds, name : Spelling \cup {NoName}] \cup
      [op : {"closure"}, at : Nat, count : Nat, param_at : Nat, param_count : 0..1]

ValueOp(at) == [op |-> "value", term |-> at]
UnaryOp(kind) == [op |-> "unary", kind |-> kind, name |-> NoName]
BinaryOp(kind) == [op |-> "binary", kind |-> kind, name |-> NoName]
FFIOp(tag, kind, name) == [op |-> tag, kind |-> kind, name |-> name]

Limit == [terms : Nat, ops : Nat, params : Nat, symbols : Nat, preds : Nat, exprs : Nat,
          facts : Nat, rules : Nat, checks : Nat, policies : Nat]

-----------------------------------------------------------------------------

VARIABLES
  source,      \* the text
  limits,      \* the room of the world and of the symbol table
  terms,       \* bs_world.terms[0 .. term_count-1]
  ops,         \* bs_world.ops[0 .. op_count-1]
  params,      \* bs_world.syms[0 .. sym_count-1]
  known,       \* what the symbol table has
  pos, tok,    \* bs_parser: where the next token starts, and the one at hand
  items,       \* bs_p_term: p->tscratch[0 .. nitems-1]
  frames,      \*   the open containers
  value,       \*   the term just finished
  back,        \*   where it is wanted
  out,         \* bs_p_expression: p->scratch[0 .. n-1]
  stack,       \*   operators and open brackets
  operand_at,  \*   where a method call's receiver would begin
  last_prec,   \*   the operator before, at this level
  method,      \*   the call being opened
  run,         \*   *result
  pc,          \* which turn comes next
  status       \* what bs_world_parse returned, "none" while it runs

sourceVars == <<source, limits>>
poolVars == <<terms, ops, params, known>>
tokenVars == <<pos, tok>>
termVars == <<items, frames, value, back>>
exprVars == <<out, stack, operand_at, last_prec, method, run>>
controlVars == <<pc, status>>

-----------------------------------------------------------------------------
(* Tokens.                                                                 *)

Eof == [kind |-> "eof", text |-> CHOOSE t \in Spelling : TRUE]

\* bs_lex_next at place p; `after` is lex.after_operand.
SignedHere(p, after) == /\ ~after
                        /\ p < Len(source)
                        /\ source[p].kind = "punct" /\ source[p].text = "-"
                        /\ source[p + 1].kind = "integer"
TokenAt(p, after) == IF p > Len(source) THEN Eof
                     ELSE IF SignedHere(p, after)
                          THEN [kind |-> "negative", text |-> source[p + 1].text]
                          ELSE source[p]
Behind(p, after) == IF p > Len(source) THEN p
                    ELSE IF SignedHere(p, after) THEN p + 2 ELSE p + 1

IsPunct(p) == tok.kind = "punct" /\ tok.text = p
IsWord(w) == tok.kind = "ident" /\ tok.text = w

\* The token after the one at hand, which the lexer is then put back before.
Peek == TokenAt(pos, FALSE)

Goto(place) == pc' = place /\ status' = status
Refuse(code) == pc' = "stopped" /\ status' = code
Halt(code) == Refuse(code) /\ UNCHANGED tokenVars
Stay(place) == Goto(place) /\ UNCHANGED tokenVars

\* The turn has not ended the call.
Proceeds == status' = status

\* bs_p_advance, or bs_p_advance_after_operand, at place p; then the turn ends
\* with the outcome it has, and what the lexer refuses ends the call first.
FetchFrom(p, after, place, outcome) ==
  LET t == TokenAt(p, after)
  IN  /\ tok' = t /\ pos' = Behind(p, after)
      /\ IF t.kind = "bad" THEN Refuse("MALFORMED")
         ELSE IF outcome # "OK" THEN Refuse(outcome) ELSE Goto(place)

Fetch(place) == FetchFrom(pos, FALSE, place, "OK")

\* A slip: a `-` that touches a number is a sign, whatever it follows.
FetchSigned(place, outcome) == FetchFrom(pos, FALSE, place, outcome)

FetchAfterOperand(place, outcome) == FetchFrom(pos, TRUE, place, outcome)

\* bs_symtab_intern.
Interns(t) == t \in known \/ Cardinality(known) < limits.symbols

\* Does a pool have room for n more?
Fits(pool, n, cap) == Len(pool) + n <= cap

-----------------------------------------------------------------------------
(* Terms.                                                                  *)

Frame(kind, close) == [kind |-> kind, close |-> close, base |-> Len(items)]
Innermost == frames[Len(frames)]
Outer == SubSeq(frames, 1, Len(frames) - 1)
AsKind(kind) == [frames EXCEPT ![Len(frames)].kind = kind]

Closes == IsPunct(Innermost.close)

\* A term begins here: `{` or `[` may be followed by an empty spelling, and
\* a comma by the end of the container instead.
AtTerm == \/ pc = "term"
          \/ pc = "opened" /\ ~Closes /\ ~(Innermost.kind = "unknown" /\ IsPunct(","))
          \/ pc = "comma" /\ ~Closes

CallTerm(place) == /\ pc' = "term" /\ back' = place
                   /\ items' = <<>> /\ frames' = <<>>

OpenContainer ==
  /\ AtTerm /\ (IsPunct("[") \/ IsPunct("{"))
  /\ \/ /\ Len(frames) >= MaxDepth
        /\ Halt("DEPTH") /\ UNCHANGED frames
     \/ /\ Len(frames) < MaxDepth
        /\ Fetch("opened")
        /\ frames' = Append(frames, IF IsPunct("[") THEN Frame("array", "]")
                                    ELSE Frame("unknown", "}"))
  /\ UNCHANGED <<poolVars, items, value, back, exprVars>>

\* `{,` can only be the empty set, `{}` is the empty map.
EmptySet ==
  /\ pc = "opened" /\ Innermost.kind = "unknown" /\ IsPunct(",")
  /\ Fetch("empty") /\ frames' = AsKind("set")
  /\ UNCHANGED <<poolVars, items, value, back, exprVars>>

CloseEmpty ==
  /\ pc = "empty" \/ (pc = "opened" /\ Closes)
  /\ \/ ~Closes /\ Halt("MALFORMED") /\ UNCHANGED <<frames, value>>
     \/ /\ Closes /\ FetchAfterOperand("value", "OK")
        /\ value' = [kind |-> IF Innermost.kind = "unknown" THEN "map" ELSE Innermost.kind,
                     at |-> Len(terms), count |-> 0]
        /\ frames' = Outer
  /\ UNCHANGED <<poolVars, items, back, exprVars>>

Scalar(kind) == value' = [kind |-> kind, text |-> tok.text]

\* bs_p_scalar.  The arena that holds a byte string may be exhausted.
ReadScalar ==
  /\ AtTerm /\ ~IsPunct("[") /\ ~IsPunct("{")
  /\ \/ /\ tok.kind \in {"string", "variable"} /\ Interns(tok.text)
        /\ known' = known \cup {tok.text}
        /\ Scalar(tok.kind) /\ FetchAfterOperand("value", "OK")
     \/ /\ tok.kind \in {"string", "variable"} /\ ~Interns(tok.text)
        /\ Halt("NOMEM") /\ UNCHANGED <<known, value>>
     \/ /\ tok.kind \in {"integer", "negative", "date", "bytes"}
        /\ Scalar(tok.kind) /\ FetchAfterOperand("value", "OK") /\ UNCHANGED known
     \/ /\ tok.kind = "bytes"
        /\ Halt("NOMEM") /\ UNCHANGED <<known, value>>
     \/ /\ IsWord("true") \/ IsWord("false") \/ IsWord("null")
        /\ Scalar(IF IsWord("null") THEN "null" ELSE "bool")
        /\ FetchAfterOperand("value", "OK") /\ UNCHANGED known
     \/ /\ tok.kind \in {"eof", "key", "other_key", "short_key", "punct", "ident"}
        /\ ~IsWord("true") /\ ~IsWord("false") /\ ~IsWord("null")
        /\ Halt("MALFORMED") /\ UNCHANGED <<known, value>>
  /\ UNCHANGED <<terms, ops, params, items, frames, back, exprVars>>

ReturnTerm ==
  /\ pc = "value" /\ frames = <<>>
  /\ Stay(back)
  /\ UNCHANGED <<poolVars, termVars, exprVars>>

\* What follows the first element tells a map from a set; a map's key is
\* followed by its value.
Placed == Len(items) + 1 - Innermost.base

KindNow == IF Innermost.kind # "unknown" THEN Innermost.kind
           ELSE IF IsPunct(":") THEN "map" ELSE "set"

PlaceItem ==
  /\ pc = "value" /\ frames # <<>>
  /\ \/ /\ Len(items) >= Scratch
        /\ Halt("LIMIT") /\ UNCHANGED <<items, frames>>
     \/ /\ Len(items) < Scratch
        /\ items' = Append(items, value) /\ frames' = AsKind(KindNow)
        /\ \/ KindNow = "map" /\ Placed % 2 = 1 /\ IsPunct(":") /\ Fetch("term")
           \/ KindNow = "map" /\ Placed % 2 = 1 /\ ~IsPunct(":") /\ Halt("MALFORMED")
           \/ /\ KindNow # "map" \/ Placed % 2 = 0
              /\ \/ IsPunct(",") /\ Fetch("comma")
                 \/ ~IsPunct(",") /\ Stay("close")
  /\ UNCHANGED <<poolVars, value, back, exprVars>>

Elements == SubSeq(items, Innermost.base + 1, Len(items))

Paired == Innermost.kind = "map" => Len(Elements) % 2 = 0

CloseContainer ==
  /\ pc = "close" \/ (pc = "comma" /\ Closes)
  /\ \/ ~Closes /\ Halt("MALFORMED")
     \/ Closes /\ FetchAfterOperand("value", IF ~Paired THEN "MALFORMED"
                                             ELSE IF ~Fits(terms, Len(Elements), limits.terms)
                                             THEN "NOMEM" ELSE "OK")
  /\ IF Proceeds
     THEN /\ terms' = terms \o Elements
          /\ value' = [kind |-> Innermost.kind, at |-> Len(terms), count |-> Len(Elements)]
          /\ items' = SubSeq(items, 1, Innermost.base)
          /\ frames' = Outer
     ELSE UNCHANGED <<terms, items, frames, value>>
  /\ UNCHANGED <<ops, params, known, back, exprVars>>

NoTerm == [kind |-> "null", text |-> Eof.text]

ReadTerm == \/ OpenContainer \/ EmptySet \/ CloseEmpty \/ ReadScalar
            \/ ReturnTerm \/ PlaceItem \/ CloseContainer

-----------------------------------------------------------------------------
(* Expressions.                                                            *)

Deep == Len(stack) >= MaxDepth
Top == stack[Len(stack)]
Below == SubSeq(stack, 1, Len(stack) - 1)

\* bs_opstack: `out` is where its operand begins.  An operator has no name.
Entry(what, sign, from, name) == [what |-> what, sign |-> sign, out |-> from, name |-> name]

IsOperator(e) == e.what \in {"unary", "binary"}
BindsAs(e) == IF e.what = "unary" THEN UnaryLevel ELSE Precedence(e.sign)

CallExpression == /\ pc' = "want" /\ out' = <<>> /\ stack' = <<>>
                  /\ operand_at' = 0 /\ last_prec' = 0

\* bs_p_close_over: code[from+1 ..] becomes the body of a closure, over the
\* parameters `over`, at most one.
BodyFits(code, from) == Fits(ops, Len(code) - from, limits.ops)
ParamsFit(over) == Fits(params, Len(over), limits.params)

MoveBody(code, from, over) ==
  /\ ops' = IF BodyFits(code, from) THEN ops \o SubSeq(code, from + 1, Len(code)) ELSE ops
  /\ params' = IF BodyFits(code, from) /\ ParamsFit(over) THEN params \o over ELSE params

ClosureOp(code, from, over) ==
  [op |-> "closure", at |-> Len(ops), count |-> Len(code) - from,
   param_at |-> Len(params), param_count |-> Len(over)]
ClosedOver(code, from, over) == Append(SubSeq(code, 1, from), ClosureOp(code, from, over))

ClosingOver(code, from, over) ==
  IF ~BodyFits(code, from) \/ ~ParamsFit(over) THEN "NOMEM"
  ELSE IF from >= Scratch THEN "LIMIT" ELSE "OK"

\* A slip: one operation more than there is room for.
EmittingPast(code) == IF Len(code) > Scratch THEN "LIMIT" ELSE "OK"

\* bs_p_emit.

Emitting(code) == IF Len(code) >= Scratch THEN "LIMIT" ELSE "OK"

\* bs_p_apply: the right side of a lazy connective is a closure.
IsLazyEntry(e) == e.what = "binary" /\ IsLazy(e.sign)
OperandsOf(e) == IF IsLazyEntry(e) THEN ClosedOver(out, e.out, <<>>) ELSE out
Applying(e) == IF IsLazyEntry(e) /\ ClosingOver(out, e.out, <<>>) # "OK"
               THEN ClosingOver(out, e.out, <<>>) ELSE Emitting(OperandsOf(e))

ApplyTop ==
  /\ IF IsLazyEntry(Top) THEN MoveBody(out, Top.out, <<>>) ELSE UNCHANGED <<ops, params>>
  /\ stack' = Below
  /\ IF Applying(Top) = "OK"
     THEN /\ out' = Append(OperandsOf(Top), IF Top.what = "unary" THEN UnaryOp("negate")
                                            ELSE BinaryOp(KindOf(Top.sign)))
          /\ UNCHANGED controlVars
     ELSE Refuse(Applying(Top)) /\ UNCHANGED out
  /\ UNCHANGED <<terms, known, tokenVars, termVars, operand_at, last_prec, method, run>>

Push(entry, level) ==
  /\ stack' = Append(stack, entry)
  /\ last_prec' = level

Negation ==
  /\ pc = "want" /\ IsPunct("!")
  /\ \/ Deep /\ Halt("DEPTH") /\ UNCHANGED <<stack, last_prec>>
     \/ ~Deep /\ Fetch("want") /\ Push(Entry("unary", "!", 0, NoName), last_prec)
  /\ UNCHANGED <<poolVars, termVars, out, operand_at, method, run>>

OpenParen ==
  /\ pc = "want" /\ IsPunct("(")
  /\ \/ Deep /\ Halt("DEPTH") /\ UNCHANGED <<stack, last_prec>>
     \/ ~Deep /\ Fetch("want") /\ Push(Entry("paren", "(", Len(out), NoName), 0)
  /\ UNCHANGED <<poolVars, termVars, out, operand_at, method, run>>

\* A variable and an arrow open a closure.
ArrowAhead == tok.kind = "variable" /\ Peek.kind = "punct" /\ Peek.text = "->"

OpenClosure ==
  /\ pc = "want" /\ ArrowAhead
  /\ \/ Deep /\ Halt("DEPTH") /\ UNCHANGED <<known, stack, last_prec>>
     \/ ~Deep /\ ~Interns(tok.text) /\ Halt("NOMEM") /\ UNCHANGED <<known, stack, last_prec>>
     \/ /\ ~Deep /\ Interns(tok.text)
        /\ FetchFrom(Behind(pos, FALSE), FALSE, "want", "OK")
        /\ known' = known \cup {tok.text}
        /\ Push(Entry("closure", "->", Len(out), tok.text), 0)
  /\ UNCHANGED <<terms, ops, params, termVars, out, operand_at, method, run>>

StartOperand ==
  /\ pc = "want" /\ ~IsPunct("!") /\ ~IsPunct("(") /\ ~ArrowAhead
  /\ operand_at' = Len(out)
  /\ \/ /\ tok.kind = "variable" /\ Peek.kind = "bad"
        /\ Halt("MALFORMED") /\ UNCHANGED termVars
     \/ /\ ~(tok.kind = "variable" /\ Peek.kind = "bad")
        /\ CallTerm("operand")
        /\ UNCHANGED <<tokenVars, status, value>>
  /\ UNCHANGED <<poolVars, out, stack, last_prec, method, run>>

EmitOperand ==
  /\ pc = "operand"
  /\ \/ ~Fits(terms, 1, limits.terms) /\ Halt("NOMEM") /\ UNCHANGED <<terms, out>>
     \/ /\ Fits(terms, 1, limits.terms)
        /\ terms' = Append(terms, value)
        /\ \/ Emitting(out) # "OK" /\ Halt(Emitting(out)) /\ UNCHANGED out
           \/ /\ Emitting(out) = "OK" /\ Stay("have")
              /\ out' = Append(out, ValueOp(Len(terms)))
  /\ UNCHANGED <<ops, params, known, termVars, stack, operand_at, last_prec, method, run>>
\* A dot, a name and `(`: what is called.
Call(tag, kind, name) == [tag |-> tag, kind |-> kind, name |-> name]
NoCall == Call("none", "none", NoName)
NoRun == [at |-> 0, count |-> 0]

Dot ==
  /\ pc = "have" /\ IsPunct(".")
  /\ Fetch("dot")
  /\ UNCHANGED <<poolVars, termVars, exprVars>>

NameExtern ==
  /\ pc = "dot" /\ tok.kind = "ident" /\ tok.text \in DOMAIN ExternNames
  /\ LET name == ExternNames[tok.text]
     IN  \/ name = NoName /\ Halt("MALFORMED") /\ UNCHANGED <<known, method>>
         \/ name # NoName /\ ~Interns(name) /\ Halt("NOMEM") /\ UNCHANGED <<known, method>>
         \/ /\ name # NoName /\ Interns(name)
            /\ known' = known \cup {name}
            /\ method' = Call("extern", "ffi", name)
            /\ Fetch("named")
  /\ UNCHANGED <<terms, ops, params, termVars, out, stack, operand_at, last_prec, run>>

NameMethod ==
  /\ pc = "dot" /\ ~(tok.kind = "ident" /\ tok.text \in DOMAIN ExternNames)
  /\ \/ /\ tok.kind = "ident" /\ tok.text \in Methods
        /\ Fetch("named") /\ method' = Call("binary", tok.text, NoName)
     \/ /\ tok.kind = "ident" /\ tok.text \in NullaryMethods
        /\ Fetch("named") /\ method' = Call("unary", NullaryKind(tok.text), NoName)
     \/ /\ ~(tok.kind = "ident" /\ tok.text \in Methods \cup NullaryMethods)
        /\ Halt("MALFORMED") /\ UNCHANGED method
  /\ UNCHANGED <<poolVars, termVars, out, stack, operand_at, last_prec, run>>

OpenCall ==
  /\ pc = "named"
  /\ \/ IsPunct("(") /\ Fetch("called")
     \/ ~IsPunct("(") /\ Halt("MALFORMED")
  /\ UNCHANGED <<poolVars, termVars, exprVars>>

\* Nothing between the parentheses: an operator on the receiver alone.
CallsBare == \/ method.tag = "unary"
             \/ method.tag = "extern" /\ IsPunct(")")

CallBare ==
  /\ pc = "called" /\ CallsBare
  /\ \/ ~IsPunct(")") /\ Halt("MALFORMED") /\ UNCHANGED out
     \/ /\ IsPunct(")") /\ FetchAfterOperand("have", Emitting(out))
        /\ IF Proceeds THEN out' = Append(out, FFIOp("unary", method.kind, method.name))
           ELSE UNCHANGED out
  /\ UNCHANGED <<poolVars, termVars, stack, operand_at, last_prec, method, run>>

\* What try_or may catch is its receiver: that is what becomes a closure.
HoldsBack == method.kind = "try_or"

CallWith ==
  /\ pc = "called" /\ ~CallsBare
  /\ \/ /\ Deep
        /\ Halt("DEPTH") /\ UNCHANGED <<ops, params, out, stack, last_prec>>
     \/ /\ ~Deep
        /\ IF HoldsBack THEN MoveBody(out, operand_at, <<>>) ELSE UNCHANGED <<ops, params>>
        /\ \/ /\ HoldsBack /\ ClosingOver(out, operand_at, <<>>) # "OK"
              /\ Halt(ClosingOver(out, operand_at, <<>>)) /\ UNCHANGED <<out, stack, last_prec>>
           \/ /\ HoldsBack => ClosingOver(out, operand_at, <<>>) = "OK"
              /\ Stay("want")
              /\ out' = IF HoldsBack THEN ClosedOver(out, operand_at, <<>>) ELSE out
              /\ Push(Entry("method", method.kind, operand_at, method.name), 0)
  /\ UNCHANGED <<terms, known, termVars, operand_at, method, run>>

\* A `)` first applies the operators since its bracket.
StartClosing ==
  /\ pc = "have" /\ IsPunct(")")
  /\ Stay("closing")
  /\ UNCHANGED <<poolVars, termVars, exprVars>>

ApplyBeforeClosing ==
  /\ pc = "closing" /\ stack # <<>> /\ IsOperator(Top)
  /\ ApplyTop

CloseNothing ==
  /\ pc = "closing" /\ stack = <<>>
  /\ Halt("MALFORMED")
  /\ UNCHANGED <<poolVars, termVars, exprVars>>

\* A slip: what follows a bracket is called on its last operand.
ReceiverWithin == operand_at

\* A parenthesis or a call ends here, and is an operand of what follows.
Receiver == Top.out

CloseBracket ==
  /\ pc = "closing" /\ stack # <<>> /\ Top.what \in {"paren", "method"}
  /\ stack' = Below /\ operand_at' = Receiver
  /\ \/ Emitting(out) # "OK" /\ Halt(Emitting(out)) /\ UNCHANGED <<out, last_prec>>
     \/ /\ Emitting(out) = "OK"
        /\ out' = Append(out, IF Top.what = "paren" THEN UnaryOp("parens")
                              ELSE FFIOp("binary", Top.sign, Top.name))
        /\ FetchAfterOperand("have", "OK") /\ last_prec' = 0
  /\ UNCHANGED <<poolVars, termVars, method, run>>

\* A closure ends at the `)` of what holds it, which is closed next.
CloseClosure ==
  /\ pc = "closing" /\ stack # <<>> /\ Top.what = "closure"
  /\ stack' = Below /\ operand_at' = Top.out
  /\ MoveBody(out, Top.out, <<Top.name>>)
  /\ \/ /\ ClosingOver(out, Top.out, <<Top.name>>) # "OK"
        /\ Halt(ClosingOver(out, Top.out, <<Top.name>>)) /\ UNCHANGED out
     \/ /\ ClosingOver(out, Top.out, <<Top.name>>) = "OK"
        /\ Stay("closing") /\ out' = ClosedOver(out, Top.out, <<Top.name>>)
  /\ UNCHANGED <<terms, known, termVars, last_prec, method, run>>

\* A binary operator applies those before it that bind no looser.
AtBinary == tok.kind = "punct" /\ tok.text \in Binary
ChainsHere == AtBinary /\ Precedence(tok.text) = CompareLevel /\ last_prec = CompareLevel

RefuseChain ==
  /\ pc = "have" /\ ChainsHere
  /\ Halt("MALFORMED")
  /\ UNCHANGED <<poolVars, termVars, exprVars>>

StartBinary ==
  /\ pc = "have" /\ AtBinary /\ ~ChainsHere
  /\ Stay("binary")
  /\ UNCHANGED <<poolVars, termVars, exprVars>>

GoesFirst == stack # <<>> /\ IsOperator(Top) /\ BindsAs(Top) >= Precedence(tok.text)

ApplyBeforeBinary ==
  /\ pc = "binary" /\ GoesFirst
  /\ ApplyTop

PushBinary ==
  /\ pc = "binary" /\ ~GoesFirst
  /\ \/ Deep /\ Halt("DEPTH") /\ UNCHANGED <<stack, last_prec>>
     \/ /\ ~Deep /\ Fetch("want")
        /\ Push(Entry("binary", tok.text, Len(out), NoName), Precedence(tok.text))
  /\ UNCHANGED <<poolVars, termVars, out, operand_at, method, run>>

\* Anything else ends the expression.
StartEnding ==
  /\ pc = "have" /\ ~IsPunct(".") /\ ~IsPunct(")") /\ ~AtBinary
  /\ Stay("ending")
  /\ UNCHANGED <<poolVars, termVars, exprVars>>

ApplyBeforeEnd ==
  /\ pc = "ending" /\ stack # <<>> /\ IsOperator(Top)
  /\ ApplyTop

LeaveOpen ==
  /\ pc = "ending" /\ stack # <<>> /\ ~IsOperator(Top)
  /\ Halt("MALFORMED")
  /\ UNCHANGED <<poolVars, termVars, exprVars>>

FinishExpression ==
  /\ pc = "ending" /\ stack = <<>>
  /\ \/ ~BodyFits(out, 0) /\ Halt("NOMEM") /\ UNCHANGED <<ops, run>>
     \/ /\ BodyFits(out, 0) /\ Stay("expressed")
        /\ ops' = ops \o out
        /\ run' = [at |-> Len(ops), count |-> Len(out)]
  /\ UNCHANGED <<terms, params, known, termVars, out, stack, operand_at, last_prec, method>>

ReadExpression ==
  \/ Negation \/ OpenParen \/ OpenClosure \/ StartOperand \/ EmitOperand
  \/ Dot \/ NameExtern \/ NameMethod \/ OpenCall \/ CallBare \/ CallWith
  \/ StartClosing \/ ApplyBeforeClosing \/ CloseNothing \/ CloseBracket \/ CloseClosure
  \/ RefuseChain \/ StartBinary \/ ApplyBeforeBinary \/ PushBinary
  \/ StartEnding \/ ApplyBeforeEnd \/ LeaveOpen \/ FinishExpression
=============================================================================
