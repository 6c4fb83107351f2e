------------------------------- MODULE BsPrint -------------------------------
(***************************************************************************)
(* Rendering a block as text (80_term.inc, 85_block.inc, 90_expr.inc,      *)
(* 95_datalog.inc).  What surrounds values and expressions is laid out in  *)
(* advance as jobs.  A value is walked with a stack of open containers; of *)
(* an expression the code is replayed with nodes in the place of values,   *)
(* and the tree that gives is walked.  One action is one turn of a loop.   *)
(***************************************************************************)
EXTENDS BsExpand

VARIABLES
  jobs,      \* what is still to render, "none" before the call
  text,      \* bs_writer.buf[0 .. len-1], as tokens
  overflow,  \* bs_writer.overflow
  opened,    \* bs_term_print: stack[0 .. depth-1]
  replays,   \* bs_expr_build: frames[0 .. depth-1]
  nodes,     \*   nodes[0 .. used-1]
  values,    \*   stack[0 .. sp-1]
  walk,      \* bs_expr_emit: stack[0 .. sp-1]
  at,        \* which turn comes next
  printed    \* what the call returned, "none" while it runs

writerVars == <<text, overflow>>
treeVars == <<replays, nodes, values, walk>>
printVars == <<jobs, writerVars, opened, treeVars, at, printed>>

-----------------------------------------------------------------------------
(* The writer (70_writer.inc): a write that does not fit is not made, and  *)
(* none after it.                                                          *)

Punct(p) == <<[kind |-> "punct", text |-> p]>>
Ident(w) == <<[kind |-> "ident", text |-> w]>>

Written(w, ts) == IF w.overflow THEN w
                  ELSE IF Len(w.text) + Len(ts) > limits.text THEN [w EXCEPT !.overflow = TRUE]
                  ELSE [w EXCEPT !.text = @ \o ts]
Put(writes) ==
  LET w == FoldLeft(Written, [text |-> text, overflow |-> overflow], writes)
  IN  text' = w.text /\ overflow' = w.overflow

Step(place) == at' = place /\ UNCHANGED printed
Fail(code) == at' = "printed" /\ printed' = code

\* The rendering of a part ends: it did not all fit, or what is next follows.
Settled(place) == IF overflow' THEN Fail("NOMEM") ELSE Step(place)

-----------------------------------------------------------------------------
(* The layout.                                                             *)

Write(ts) == <<[job |-> "write", tokens |-> ts]>>
ValueJobs(v) == <<[job |-> "value", of |-> v]>>
TestJobs(c) == <<[job |-> "expression", code |-> c]>>
Settle == <<[job |-> "settle"]>>
Unprintable == <<[job |-> "refuse"]>>

\* Parts with something before each.
Led(parts, first, other) ==
  FlattenSeq([k \in DOMAIN parts |-> (IF k = 1 THEN first ELSE other) \o parts[k]])
Comma == Write(Punct(","))
Listing(parts) == Led(parts, <<>>, Comma)
Mapped(seq, F(_)) == [k \in DOMAIN seq |-> F(seq[k])]

\* bs_scope_print: a word, a key, or what names neither.
ScopeJobs(s) == (IF s.kind \in {"ident", "key"} THEN Write(<<s>>) ELSE Unprintable) \o Settle
TrustingJobs(scopes) == Led(Mapped(scopes, ScopeJobs), Write(Ident("trusting")), Comma)

\* bs_predicate_print.
PredicateJobs(p) == Write(Ident(p.name)) \o Write(Punct("(")) \o Listing(Mapped(p.terms, ValueJobs))
                    \o Write(Punct(")")) \o Settle

\* bs_rule_body_print, bs_rule_print: the predicates, then the expressions.
BodyJobs(r) == Listing(Mapped(r.body, PredicateJobs) \o Mapped(r.tests, TestJobs))
               \o TrustingJobs(r.scopes)
RuleJobs(r) == PredicateJobs(r.head) \o Write(Punct("<-")) \o BodyJobs(r) \o Settle

\* bs_check_print.
CheckWords == [one |-> Ident("check") \o Ident("if"), all |-> Ident("check") \o Ident("all"),
               reject |-> Ident("reject") \o Ident("if")]
CheckJobs(c) ==
  IF c.kind \notin DOMAIN CheckWords THEN Unprintable
  ELSE Write(CheckWords[c.kind]) \o Led(Mapped(c.queries, BodyJobs), <<>>, Write(Ident("or")))
       \o (IF c.queries = <<>> THEN Unprintable ELSE Settle)

\* bs_block_print: what the whole block trusts, the facts, the rules, the
\* checks.
WithSemicolon(part) == part \o Write(Punct(";"))
Statements(seq, F(_)) == FlattenSeq([k \in DOMAIN seq |-> WithSemicolon(F(seq[k]))])

BlockJobs(b) ==
  (IF b.scopes = <<>> THEN <<>> ELSE WithSemicolon(TrustingJobs(b.scopes)))
  \o Statements(b.facts, PredicateJobs) \o Statements(b.rules, RuleJobs)
  \o Statements(b.checks, CheckJobs) \o Settle

CallPrint ==
  /\ pc = "stopped" /\ at = "none"
  /\ jobs' = BlockJobs(block)
  /\ Step("jobs")
  /\ UNCHANGED <<writerVars, opened, treeVars>>

WriteJob ==
  /\ at = "jobs" /\ jobs # <<>> /\ jobs[1].job = "write"
  /\ Put(<<jobs[1].tokens>>) /\ jobs' = Tail(jobs)
  /\ UNCHANGED <<opened, treeVars, at, printed>>

SettleJob ==
  /\ at = "jobs" /\ jobs # <<>> /\ jobs[1].job = "settle"
  /\ jobs' = Tail(jobs) /\ UNCHANGED writerVars /\ Settled("jobs")
  /\ UNCHANGED <<opened, treeVars>>

RefuseJob ==
  /\ at = "jobs" /\ jobs # <<>> /\ jobs[1].job = "refuse"
  /\ Fail("MALFORMED")
  /\ UNCHANGED <<jobs, writerVars, opened, treeVars>>

EndJobs ==
  /\ at = "jobs" /\ jobs = <<>>
  /\ Fail("OK")
  /\ UNCHANGED <<jobs, writerVars, opened, treeVars>>

-----------------------------------------------------------------------------
(* Values (bs_term_print).                                                 *)

ScalarTokens(v) == IF v.kind = "negative"
                   THEN Punct("-") \o <<[kind |-> "integer", text |-> v.text]>>
                   ELSE IF v.kind \in {"bool", "null"} THEN Ident(v.text) ELSE <<v>>
Open(v) == Punct(IF v.kind = "array" THEN "[" ELSE "{")

\* A slip: an empty set is closed like any other.
CloseBare(f) == <<Punct(IF f.kind = "array" THEN "]" ELSE "}")>>

\* bs_put_close: with no element to tell it from a map, a set has a comma.
Close(f) ==
  (IF f.kind = "set" /\ f.next = 1 THEN <<Punct(",")>> ELSE <<>>)
  \o <<Punct(IF f.kind = "array" THEN "]" ELSE "}")>>

\* A container that has been opened; a map's items are its entries.
Opened(v) == [kind |-> v.kind, items |-> v.items, next |-> 1]
Width(f) == IF f.kind = "map" THEN 2 ELSE 1
AtEnd(f) == f.next > Len(f.items)

Back == IF walk = <<>> THEN "jobs" ELSE "walk"

\* A value on its own.
StartValue(v) ==
  \/ /\ v.kind = "bad" /\ Fail("MALFORMED") /\ UNCHANGED <<writerVars, opened>>
  \/ /\ v.kind \in ScalarKinds
     /\ Put(<<ScalarTokens(v)>>) /\ Settled(Back) /\ UNCHANGED opened
  \/ /\ IsContainer(v)
     /\ Put(<<Open(v)>>) /\ Step("value") /\ opened' = <<Opened(v)>>

ValueJob ==
  /\ at = "jobs" /\ jobs # <<>> /\ jobs[1].job = "value"
  /\ StartValue(jobs[1].of) /\ jobs' = Tail(jobs)
  /\ UNCHANGED treeVars

HeldOpen == opened[Len(opened)]
OpenAround == SubSeq(opened, 1, Len(opened) - 1)

CloseValue ==
  /\ at = "value" /\ AtEnd(HeldOpen)
  /\ Put(Close(HeldOpen)) /\ opened' = OpenAround
  /\ IF OpenAround = <<>> THEN Settled(Back) ELSE Step("value")
  /\ UNCHANGED <<jobs, treeVars>>

\* An item: what separates it from the one before, its key, and itself.
PutItem ==
  /\ at = "value" /\ ~AtEnd(HeldOpen)
  /\ LET f == HeldOpen
         k == f.next
         v == f.items[k + Width(f) - 1]
         lead == IF k = 1 THEN <<>> ELSE <<Punct(",")>>
         key == IF f.kind = "map" THEN <<ScalarTokens(f.items[k]), Punct(":")>> ELSE <<>>
         onward == [opened EXCEPT ![Len(opened)].next = k + Width(f)]
         refused == \/ f.kind = "map" /\ ~IsKey(f.items[k])
                    \/ v.kind = "bad"
     IN  \/ refused /\ Fail("MALFORMED") /\ UNCHANGED <<writerVars, opened>>
         \/ /\ ~refused /\ v.kind \in ScalarKinds
            /\ Put(lead \o key \o <<ScalarTokens(v)>>)
            /\ opened' = onward /\ Step("value")
         \/ /\ ~refused /\ IsContainer(v) /\ Len(opened) >= MaxDepth
            /\ Put(lead \o key) /\ Fail("DEPTH") /\ UNCHANGED opened
         \/ /\ ~refused /\ IsContainer(v) /\ Len(opened) < MaxDepth
            /\ Put(lead \o key \o <<Open(v)>>)
            /\ opened' = Append(onward, Opened(v)) /\ Step("value")
  /\ UNCHANGED <<jobs, treeVars>>

-----------------------------------------------------------------------------
(* Expressions: the tree (bs_expr_build).                                  *)

\* A slip: the code of a closure reaches the values from outside it.
ReplayOpen(code, over, closure) ==
  [left |-> code, base |-> 0, params |-> over, is_closure |-> closure]

\* The code being replayed, and how many values there were before it.
Replay(code, over, closure) ==
  [left |-> code, base |-> Len(values), params |-> over, is_closure |-> closure]

ExpressionJob ==
  /\ at = "jobs" /\ jobs # <<>> /\ jobs[1].job = "expression"
  /\ replays' = <<[left |-> jobs[1].code, base |-> 0, params |-> <<>>, is_closure |-> FALSE]>>
  /\ nodes' = <<>> /\ values' = <<>> /\ walk' = <<>>
  /\ jobs' = Tail(jobs) /\ Step("build")
  /\ UNCHANGED <<writerVars, opened>>

Replayed == replays[Len(replays)]
Operation == Replayed.left[1]
OnHand == Len(values) - Replayed.base
Onward == [replays EXCEPT ![Len(replays)].left = Tail(@)]
Dropped(n) == SubSeq(values, 1, Len(values) - n)

\* A node takes the place of its operands.
PushNode(node, operands) == /\ nodes' = Append(nodes, node)
                         /\ values' = Append(Dropped(operands), Len(nodes) + 1)

BuildValue ==
  /\ at = "build" /\ Replayed.left # <<>> /\ Operation.op = "value"
  /\ PushNode([tag |-> "value", of |-> Operation.term], 0) /\ replays' = Onward
  /\ UNCHANGED <<jobs, writerVars, opened, walk, at, printed>>

BuildUnary ==
  /\ at = "build" /\ Replayed.left # <<>> /\ Operation.op = "unary"
  /\ \/ OnHand < 1 /\ Fail("MALFORMED") /\ UNCHANGED <<nodes, values, replays>>
     \/ /\ OnHand >= 1
        /\ PushNode([tag |-> "unary", of |-> Operation, a |-> values[Len(values)]], 1)
        /\ replays' = Onward /\ UNCHANGED <<at, printed>>
  /\ UNCHANGED <<jobs, writerVars, opened, walk>>

\* The right operand is the last.
BuildBinary ==
  /\ at = "build" /\ Replayed.left # <<>> /\ Operation.op = "binary"
  /\ \/ OnHand < 2 /\ Fail("MALFORMED") /\ UNCHANGED <<nodes, values, replays>>
     \/ /\ OnHand >= 2
        /\ PushNode([tag |-> "binary", of |-> Operation,
                  a |-> values[Len(values) - 1], b |-> values[Len(values)]], 2)
        /\ replays' = Onward /\ UNCHANGED <<at, printed>>
  /\ UNCHANGED <<jobs, writerVars, opened, walk>>

BuildClosure ==
  /\ at = "build" /\ Replayed.left # <<>> /\ Operation.op = "closure"
  /\ \/ Len(replays) >= MaxDepth /\ Fail("DEPTH") /\ UNCHANGED replays
     \/ /\ Len(replays) < MaxDepth
        /\ replays' = Append(Onward, Replay(Operation.body, Operation.params, TRUE))
        /\ UNCHANGED <<at, printed>>
  /\ UNCHANGED <<jobs, writerVars, opened, nodes, values, walk>>

\* The code is replayed: it leaves one value, and a closure becomes a node.
EndReplay ==
  /\ at = "build" /\ Replayed.left = <<>>
  /\ \/ OnHand # 1 /\ Fail("MALFORMED") /\ UNCHANGED <<nodes, values, replays, walk>>
     \/ /\ OnHand = 1 /\ Replayed.is_closure
        /\ PushNode([tag |-> "closure", params |-> Replayed.params, a |-> values[Len(values)]], 1)
        /\ replays' = SubSeq(replays, 1, Len(replays) - 1)
        /\ UNCHANGED <<walk, at, printed>>
     \/ /\ OnHand = 1 /\ ~Replayed.is_closure
        /\ replays' = <<>> /\ walk' = <<[node |-> values[1], stage |-> 0]>>
        /\ Step("walk") /\ UNCHANGED <<nodes, values>>
  /\ UNCHANGED <<jobs, writerVars, opened>>

-----------------------------------------------------------------------------
(* Expressions: the text (bs_expr_emit).                                   *)

\* BS_BINOPS.
InfixSigns == [less |-> "<", greater |-> ">", less_or_equal |-> "<=", greater_or_equal |-> ">=",
           equal |-> "===", add |-> "+", sub |-> "-", mul |-> "*", div |-> "/",
           and |-> "&&!", or |-> "||!", bit_and |-> "&", bit_or |-> "|", bit_xor |-> "^",
           not_equal |-> "!==", het_equal |-> "==", het_not_equal |-> "!=",
           lazy_and |-> "&&", lazy_or |-> "||"]
MethodNames == {"contains", "starts_with", "ends_with", "matches", "intersection", "union",
                "all", "any", "get", "try_or"}

CallOn(name) == Punct(".") \o Ident(name) \o Punct("(")
ExternText(name) == CHOOSE n \in DOMAIN ExternNames : ExternNames[n] = name
Named(o) == "name" \in DOMAIN o

NodeHere == nodes[walk[Len(walk)].node]
Stage == walk[Len(walk)].stage
WalkedUp == SubSeq(walk, 1, Len(walk) - 1)
WalkDown(node) == walk' = Append([walk EXCEPT ![Len(walk)].stage = @ + 1],
                                 [node |-> node, stage |-> 0])

Walking(tag, stage) == at = "walk" /\ walk # <<>> /\ NodeHere.tag = tag /\ Stage = stage

\* The value of a node is rendered, and the walk goes on above it.
EmitValue ==
  /\ Walking("value", 0)
  /\ StartValue(NodeHere.of) /\ walk' = [walk EXCEPT ![Len(walk)].stage = 1]
  /\ UNCHANGED <<jobs, replays, nodes, values>>

EmittedValue ==
  /\ Walking("value", 1)
  /\ walk' = WalkedUp
  /\ UNCHANGED <<jobs, writerVars, opened, replays, nodes, values, at, printed>>

BeginUnary ==
  /\ Walking("unary", 0)
  /\ Put(CASE NodeHere.of.kind = "negate" -> <<Punct("!")>>
           [] NodeHere.of.kind = "parens" -> <<Punct("(")>>
           [] OTHER -> <<>>)
  /\ WalkDown(NodeHere.a)
  /\ UNCHANGED <<jobs, opened, replays, nodes, values, at, printed>>

EndUnary ==
  /\ Walking("unary", 1)
  /\ LET kind == NodeHere.of.kind
         fails == \/ kind \notin {"negate", "parens", "length", "typeof", "ffi"}
                  \/ kind = "ffi" /\ ~Named(NodeHere.of)
     IN  \/ fails /\ Fail("MALFORMED") /\ UNCHANGED <<writerVars, walk>>
         \/ /\ ~fails
            /\ Put(CASE kind = "negate" -> <<>>
                     [] kind = "parens" -> <<Punct(")")>>
                     [] kind = "length" -> <<CallOn("length") \o Punct(")")>>
                     [] kind = "typeof" -> <<CallOn("type") \o Punct(")")>>
                     [] kind = "ffi" -> <<CallOn(ExternText(NodeHere.of.name)), Punct(")")>>)
            /\ walk' = WalkedUp /\ UNCHANGED <<at, printed>>
  /\ UNCHANGED <<jobs, opened, replays, nodes, values>>

\* The parameters; a closure without any is not to be seen.
BeginClosure ==
  /\ Walking("closure", 0)
  /\ LET names == [k \in DOMAIN NodeHere.params |-> <<[kind |-> "variable", text |-> NodeHere.params[k]]>>]
     IN  Put((IF names = <<>> THEN <<>> ELSE <<Led(names, <<>>, Punct(",")), Punct("->")>>))
  /\ WalkDown(NodeHere.a)
  /\ UNCHANGED <<jobs, opened, replays, nodes, values, at, printed>>

EndClosure ==
  /\ Walking("closure", 1)
  /\ walk' = WalkedUp
  /\ UNCHANGED <<jobs, writerVars, opened, replays, nodes, values, at, printed>>

IsMethod(kind) == kind \in MethodNames \cup {"ffi"}
IsBinary(kind) == IsMethod(kind) \/ kind \in DOMAIN InfixSigns

BeginBinary ==
  /\ Walking("binary", 0)
  /\ \/ ~IsBinary(NodeHere.of.kind) /\ Fail("MALFORMED") /\ UNCHANGED walk
     \/ IsBinary(NodeHere.of.kind) /\ WalkDown(NodeHere.a) /\ UNCHANGED <<at, printed>>
  /\ UNCHANGED <<jobs, writerVars, opened, replays, nodes, values>>

PutOperator ==
  /\ Walking("binary", 1)
  /\ LET kind == NodeHere.of.kind
         nameless == kind = "ffi" /\ ~Named(NodeHere.of)
     IN  \/ nameless /\ Fail("MALFORMED") /\ UNCHANGED <<writerVars, walk>>
         \/ /\ ~nameless
            /\ Put(<<IF kind = "ffi" THEN CallOn(ExternText(NodeHere.of.name))
                     ELSE IF IsMethod(kind) THEN CallOn(kind) ELSE Punct(InfixSigns[kind])>>)
            /\ WalkDown(NodeHere.b) /\ UNCHANGED <<at, printed>>
  /\ UNCHANGED <<jobs, opened, replays, nodes, values>>

EndBinary ==
  /\ Walking("binary", 2)
  /\ Put(IF IsMethod(NodeHere.of.kind) THEN <<Punct(")")>> ELSE <<>>)
  /\ walk' = WalkedUp
  /\ UNCHANGED <<jobs, opened, replays, nodes, values, at, printed>>

EndExpression ==
  /\ at = "walk" /\ walk = <<>>
  /\ UNCHANGED <<jobs, writerVars, opened, treeVars>> /\ Settled("jobs")

-----------------------------------------------------------------------------

PrintTurn == \/ CallPrint \/ WriteJob \/ SettleJob \/ RefuseJob \/ EndJobs
             \/ ValueJob \/ CloseValue \/ PutItem
             \/ ExpressionJob \/ BuildValue \/ BuildUnary \/ BuildBinary \/ BuildClosure \/ EndReplay
             \/ EmitValue \/ EmittedValue \/ BeginUnary \/ EndUnary \/ BeginClosure \/ EndClosure
             \/ BeginBinary \/ PutOperator \/ EndBinary \/ EndExpression

PrintInit ==
  /\ jobs = <<>> /\ text = <<>> /\ overflow = FALSE /\ opened = <<>>
  /\ replays = <<>> /\ nodes = <<>> /\ values = <<>> /\ walk = <<>>
  /\ at = "none" /\ printed = "none"
=============================================================================
