---------------------------- MODULE BsParseProofs ----------------------------
(***************************************************************************)
(* The parser of Datalog, proved for every text, every room and every      *)
(* bound: its two stacks keep within their arrays, their marks within what *)
(* has been read, and whatever it leaves in the pools, of a text accepted  *)
(* or refused anywhere, names only what was there before it.               *)
(*                                                                         *)
(* The argument: what the stacks hold is in order of where it begins, the  *)
(* receiver of a call begins where the operand before it did, and pools    *)
(* only grow.  So what is cut from the end of a stack was put there since  *)
(* the mark, and what is placed names what is already placed.              *)
(***************************************************************************)
EXTENDS BsParse, SequenceTheorems, TLAPS

-----------------------------------------------------------------------------
(* Types, and the parts of the inductive invariant.  Each part is about    *)
(* few variables, so that most turns leave most parts alone.               *)

Codes == {"OK", "MALFORMED", "NOMEM", "LIMIT", "DEPTH", "UNBOUND", "UNSUPPORTED"}
Places == TermPlaces \cup ExprPlaces \cup BodyPlaces \cup TextPlaces

CallOf == [source : Seq(Token), block : 0 .. MaxBlocks]
FrameOf == [kind : ContainerKinds \cup {"unknown"}, close : {"]", "}"}, base : Nat]
EntryOf == [what : {"unary", "binary", "paren", "method", "closure"},
            sign : {"!", "(", "->", "ffi"} \cup Binary \cup Methods,
            out : Nat, name : Spelling \cup {NoName}]
MethodOf == [tag : {"none", "extern", "unary", "binary"},
             kind : {"none", "ffi"} \cup UnaryKinds \cup Methods, name : Spelling \cup {NoName}]
FactOf == [pred : Pred, origin : Origins]
RuleOf == [head : Seq(Pred), is_query : BOOLEAN, trust : Origins, block : 0 .. MaxBlocks,
           body_at : Nat, body_count : Nat, expr_at : Nat, expr_count : Nat]
CheckOf == [asks : Asked, block : 0 .. MaxBlocks]

HostHeld ==
  /\ calls \in Seq(CallOf) /\ source \in Seq(Token) /\ limits \in Limit
  /\ block \in 0 .. MaxBlocks
  /\ signers \in Seq(Spelling \cup {Unsigned}) /\ Len(signers) <= MaxBlocks
  /\ begun \in [facts : Nat, rules : Nat, checks : Nat, policies : Nat]

ReaderHeld == pos \in Nat \ {0} /\ tok \in Token

TermsHeld ==
  /\ items \in Seq(Term) /\ frames \in Seq(FrameOf) /\ value \in Term
  /\ back \in {"none", "operand", "argument"}
  /\ Len(frames) <= MaxDepth /\ Len(items) <= Scratch
  /\ FramesOrdered

\* An entry of the operator stack has what closing it calls for.
EntryFits(e) == /\ e.what = "binary" => e.sign \in Binary
                /\ e.what = "method" => e.sign \in Methods \cup {"ffi"}
                /\ e.what = "closure" => e.name \in Spelling

CallFits(m) == /\ m.tag = "unary" => m.kind \in UnaryKinds
               /\ m.tag = "binary" => m.kind \in Methods
               /\ m.tag = "extern" => m.kind = "ffi"

StackFits == \A i \in DOMAIN stack : EntryFits(stack[i])

CodeHeld ==
  /\ out \in Seq(Op) /\ stack \in Seq(EntryOf) /\ operand_at \in Nat
  /\ last_prec \in 0 .. UnaryLevel /\ method \in MethodOf /\ run \in Run
  /\ Len(stack) <= MaxDepth /\ Len(out) <= Scratch
  /\ StackOrdered /\ StackFits /\ CallFits(method)

BodyHeld ==
  /\ body \in Seq(Pred) /\ tests \in Seq(Run) /\ args \in Seq(Term)
  /\ name \in Spelling \cup {NoName} /\ trust \in Origins
  /\ Len(args) <= Scratch /\ Len(body) <= MaxBody /\ Len(tests) <= MaxBody

StatementHeld ==
  /\ default_trust \in Origins /\ form \in Forms /\ head \in Seq(Pred) /\ Len(head) <= 1
  /\ queries_at \in Nat

\* What a value, an operation, a predicate or a run names, in pools of the
\* sizes given.
OpWithin(o, n, nt, np) ==
  /\ o.op = "value" => o.term < nt
  /\ o.op = "closure" => o.at + o.count <= n /\ o.param_at + o.param_count <= np
TermsWithin(ts, n) == \A i \in DOMAIN ts : TermEnds(ts[i], n)
OpsWithin(os, n, nt, np) == \A i \in DOMAIN os : OpWithin(os[i], n, nt, np)
RangesWithin(rs, n) == \A i \in DOMAIN rs : rs[i].at + rs[i].count <= n

TermsBack(ts) == \A i \in DOMAIN ts : TermEnds(ts[i], i - 1)
OpsBack(os, nt, np) == \A i \in DOMAIN os : OpWithin(os[i], i - 1, nt, np)

PoolsHeld ==
  /\ terms \in Seq(Term) /\ ops \in Seq(Op) /\ params \in Seq(Spelling) /\ known \subseteq Spelling
  /\ TermsBack(terms) /\ OpsBack(ops, Len(terms), Len(params))

\* What is read and not placed yet.
TermsPending ==
  /\ TermsWithin(items, Len(terms)) /\ TermsWithin(args, Len(terms))
  /\ TermEnds(value, Len(terms))
CodePending ==
  /\ OpsWithin(out, Len(ops), Len(terms), Len(params))
  /\ run.at + run.count <= Len(ops)
ClausePending ==
  /\ RangesWithin(body, Len(terms)) /\ RangesWithin(head, Len(terms))
  /\ RangesWithin(tests, Len(ops))

WorldHeld ==
  /\ preds \in Seq(Pred) /\ exprs \in Seq(Run) /\ facts \in Seq(FactOf)
  /\ rules \in Seq(RuleOf) /\ checks \in Seq(CheckOf) /\ policies \in Seq(Asked)

RuleWithin(r, nt, np, ne) ==
  /\ RangesWithin(r.head, nt)
  /\ r.body_at + r.body_count <= np /\ r.expr_at + r.expr_count <= ne
WorldWithin ==
  /\ RangesWithin(preds, Len(terms)) /\ RangesWithin(exprs, Len(ops))
  /\ \A i \in DOMAIN facts : facts[i].pred.at + facts[i].pred.count <= Len(terms)
  /\ \A i \in DOMAIN rules : RuleWithin(rules[i], Len(terms), Len(preds), Len(exprs))

AllAsk ==
  /\ \A i \in DOMAIN checks : AsksQueries(checks[i].asks)
  /\ \A i \in DOMAIN policies : AsksQueries(policies[i])

-----------------------------------------------------------------------------
(* What is true at a place in the code.                                    *)

Stating == {"clause"} \cup CheckForms \cup PolicyForms
Asking == {"check"} \cup CheckForms \cup PolicyForms
ClausePlaces == {"trusting", "scope", "scope_read"}
ArgumentPlaces == {"named_predicate", "arguments", "next_argument", "argument", "end_arguments"}

ControlHeld == /\ pc \in Places /\ status \in Codes \cup {"none"}
               /\ pc # "stopped" => status = "none"

\* A container is open, and of which kind it is has been settled.
TermPlaced ==
  /\ pc \in TermPlaces => back \in {"operand", "argument"}
  /\ pc \in {"opened", "empty", "comma", "close"} => frames # <<>>
  /\ pc \in {"empty", "comma", "close"} => Innermost.kind # "unknown"

\* The operand being read begins at the end of the code; and an operator, or
\* the name of a call, is at hand where one is dealt with.
ExprPlaced ==
  /\ pc = "operand" \/ (pc \in TermPlaces /\ back = "operand") => operand_at = Len(out)
  /\ ReceiverLast
  /\ pc \in {"named", "called"} => method.tag # "none"
  /\ pc = "binary" => AtBinary

\* Which statement it is, that a predicate being read has a name, and that
\* there is room for what is being read.
FormPlaced ==
  /\ pc \in TermPlaces \cup ExprPlaces \cup (BodyPlaces \ ClausePlaces) => form \in Stating
  /\ pc \in ClausePlaces => form \in Stating \cup {"block"}
  /\ pc = "trusting" /\ form = "block" => IsWord("trusting")
  /\ pc = "asks" => form \in {"check", "reject", "allow", "deny"}
  /\ pc = "asked" => form \in CheckForms \cup PolicyForms /\ queries_at < Len(rules)
  /\ pc = "head" => head # <<>> /\ form = "clause"
  /\ pc \in ArgumentPlaces \/ (pc \in TermPlaces /\ back = "argument") => name \in Spelling
  /\ pc = "argument" \/ (pc \in TermPlaces /\ back = "argument") => Len(args) < Scratch
  /\ pc \in ArgumentPlaces \cup {"predicate"} \/ (pc \in TermPlaces /\ back = "argument")
       => IsHead \/ Len(body) < MaxBody
  /\ pc \in ExprPlaces \cup {"expressed"} \/ (pc \in TermPlaces /\ back = "operand")
       => Len(tests) < MaxBody

\* The rules since a check or a policy began are its queries.
QueriesHeld ==
  form \in Asking =>
    /\ head = <<>> /\ queries_at <= Len(rules)
    /\ \A i \in queries_at + 1 .. Len(rules) : rules[i].is_query

ParseIInv ==
  /\ HostHeld /\ ReaderHeld /\ TermsHeld /\ CodeHeld /\ BodyHeld /\ StatementHeld /\ PoolsHeld
  /\ TermsPending /\ CodePending /\ ClausePending
  /\ WorldHeld /\ WorldWithin /\ AllAsk
  /\ ControlHeld /\ TermPlaced /\ ExprPlaced /\ FormPlaced /\ QueriesHeld

-----------------------------------------------------------------------------
(* Sequences.                                                              *)

LEMMA Joined ==
  ASSUME NEW S, NEW s \in Seq(S), NEW t \in Seq(S)
  PROVE  /\ s \o t \in Seq(S) /\ Len(s \o t) = Len(s) + Len(t)
         /\ \A i \in DOMAIN (s \o t) :
              \/ i \in DOMAIN s /\ (s \o t)[i] = s[i]
              \/ i \in Nat /\ i > Len(s) /\ i - Len(s) \in DOMAIN t /\ (s \o t)[i] = t[i - Len(s)]
<1>1. s \o t \in Seq(S) /\ Len(s \o t) = Len(s) + Len(t)
      /\ \A i \in 1 .. Len(s) + Len(t) :
           (s \o t)[i] = IF i <= Len(s) THEN s[i] ELSE t[i - Len(s)]
  BY ConcatProperties
<1>2. Len(s) \in Nat /\ DOMAIN s = 1 .. Len(s) /\ Len(t) \in Nat /\ DOMAIN t = 1 .. Len(t)
      /\ DOMAIN (s \o t) = 1 .. Len(s \o t)
  BY <1>1, LenProperties
<1> QED
  BY <1>1, <1>2

LEMMA Appended ==
  ASSUME NEW S, NEW s \in Seq(S), NEW e \in S
  PROVE  /\ Append(s, e) \in Seq(S) /\ Len(Append(s, e)) = Len(s) + 1
         /\ Len(s) \in Nat /\ Append(s, e) # <<>>
         /\ Append(s, e)[Len(s) + 1] = e
         /\ \A i \in DOMAIN Append(s, e) :
              \/ i \in DOMAIN s /\ Append(s, e)[i] = s[i]
              \/ i = Len(s) + 1 /\ Append(s, e)[i] = e
<1>1. /\ Append(s, e) \in Seq(S) /\ Len(Append(s, e)) = Len(s) + 1
      /\ \A i \in 1 .. Len(s) : Append(s, e)[i] = s[i]
      /\ Append(s, e)[Len(s) + 1] = e
  BY AppendProperties
<1>2. Len(s) \in Nat /\ DOMAIN s = 1 .. Len(s) /\ DOMAIN Append(s, e) = 1 .. Len(s) + 1
  BY <1>1, LenProperties
<1>3. Append(s, e) # <<>>
  BY <1>1, <1>2, EmptySeq
<1> QED
  BY <1>1, <1>2, <1>3

LEMMA Cut ==
  ASSUME NEW S, NEW s \in Seq(S), NEW n \in Nat, n <= Len(s)
  PROVE  /\ SubSeq(s, 1, n) \in Seq(S) /\ Len(SubSeq(s, 1, n)) = n
         /\ \A i \in DOMAIN SubSeq(s, 1, n) : i \in DOMAIN s /\ i <= n /\ SubSeq(s, 1, n)[i] = s[i]
BY SubSeqProperties, LenProperties

LEMMA CutEnd ==
  ASSUME NEW S, NEW s \in Seq(S), NEW n \in Nat, n <= Len(s)
  PROVE  /\ SubSeq(s, n + 1, Len(s)) \in Seq(S) /\ Len(SubSeq(s, n + 1, Len(s))) = Len(s) - n
         /\ \A i \in DOMAIN SubSeq(s, n + 1, Len(s)) :
              n + i \in DOMAIN s /\ SubSeq(s, n + 1, Len(s))[i] = s[n + i]
<1>1. Len(s) \in Nat /\ DOMAIN s = 1 .. Len(s)
  BY LenProperties
<1>2. \A i \in n + 1 .. Len(s) : s[i] \in S
  BY <1>1, ElementOfSeq
<1>3. /\ SubSeq(s, n + 1, Len(s)) \in Seq(S)
      /\ Len(SubSeq(s, n + 1, Len(s))) = IF n + 1 <= Len(s) THEN Len(s) - (n + 1) + 1 ELSE 0
      /\ \A i \in 1 .. Len(s) - (n + 1) + 1 : SubSeq(s, n + 1, Len(s))[i] = s[n + 1 + i - 1]
  BY <1>1, <1>2, SubSeqProperties
<1>4. Len(SubSeq(s, n + 1, Len(s))) = Len(s) - n
  <2>1. \A l \in Nat : n <= l => (IF n + 1 <= l THEN l - (n + 1) + 1 ELSE 0) = l - n
    OBVIOUS
  <2> QED
    BY <1>1, <1>3, <2>1
<1>5. DOMAIN SubSeq(s, n + 1, Len(s)) = 1 .. Len(s) - n
  BY <1>3, <1>4, LenProperties
<1>6. ASSUME NEW i \in 1 .. Len(s) - n
      PROVE  n + i \in DOMAIN s /\ SubSeq(s, n + 1, Len(s))[i] = s[n + i]
  <2>1. i \in 1 .. Len(s) - (n + 1) + 1 /\ n + 1 + i - 1 = n + i /\ n + i \in 1 .. Len(s)
    BY <1>1
  <2> QED
    BY <1>1, <1>3, <2>1
<1> QED
  BY <1>3, <1>4, <1>5, <1>6

LEMMA LastOf ==
  ASSUME NEW S, NEW s \in Seq(S), s # <<>>
  PROVE  /\ Len(s) \in Nat \ {0} /\ Len(s) \in DOMAIN s /\ s[Len(s)] \in S /\ Len(s) - 1 \in Nat
BY LenProperties, EmptySeq, ElementOfSeq

-----------------------------------------------------------------------------
(* Tokens, and how a turn ends.                                            *)

LEMMA EofRead == Eof \in Token
<1>1. (CHOOSE t \in Spelling : TRUE) \in Spelling
  BY ExprParseAssumption
<1> QED
  BY <1>1 DEF Eof, Token, TokenKinds

LEMMA TokenRead ==
  ASSUME source \in Seq(Token), NEW p \in Nat \ {0}, NEW a \in BOOLEAN
  PROVE  TokenAt(p, a) \in Token /\ Behind(p, a) \in Nat \ {0}
<1>1. Len(source) \in Nat /\ \A i \in 1 .. Len(source) : source[i] \in Token
  BY LenProperties, ElementOfSeq
<1>2. CASE p > Len(source)
  BY <1>2, EofRead DEF TokenAt, Behind
<1>3. CASE p <= Len(source) /\ SignedHere(p, a)
  <2>1. source[p + 1] \in Token
    BY <1>1, <1>3 DEF SignedHere
  <2>2. [kind |-> "negative", text |-> source[p + 1].text] \in Token
    BY <2>1 DEF Token, TokenKinds
  <2> QED
    BY <1>1, <1>3, <2>2 DEF TokenAt, Behind
<1>4. CASE p <= Len(source) /\ ~SignedHere(p, a)
  BY <1>1, <1>4 DEF TokenAt, Behind
<1> QED
  BY <1>1, <1>2, <1>3, <1>4

\* A turn ends at a place, or ends the call.
Goes(place) == pc' = place /\ status' = status
Ends == pc' = "stopped" /\ status' \in Codes

LEMMA Fetched ==
  ASSUME HostHeld, NEW p \in Nat \ {0}, NEW a \in BOOLEAN, NEW place, NEW code \in Codes,
         FetchFrom(p, a, place, code)
  PROVE  ReaderHeld' /\ (Ends \/ (Goes(place) /\ code = "OK"))
<1>1. tok' \in Token /\ pos' \in Nat \ {0}
  BY TokenRead DEF HostHeld, FetchFrom
<1>2. Ends \/ (Goes(place) /\ code = "OK")
  BY DEF FetchFrom, Refuse, Goto, Ends, Goes, Codes
<1> QED
  BY <1>1, <1>2 DEF ReaderHeld

LEMMA FetchedNext ==
  ASSUME HostHeld, ReaderHeld, NEW place, Fetch(place)
  PROVE  ReaderHeld' /\ (Ends \/ Goes(place))
BY Fetched DEF Fetch, ReaderHeld, Codes

LEMMA FetchedAfter ==
  ASSUME HostHeld, ReaderHeld, NEW place, NEW code \in Codes, FetchAfterOperand(place, code)
  PROVE  ReaderHeld' /\ (Ends \/ (Goes(place) /\ code = "OK"))
BY Fetched DEF FetchAfterOperand, ReaderHeld

LEMMA Halted ==
  ASSUME ReaderHeld, NEW code \in Codes, Halt(code)
  PROVE  ReaderHeld' /\ Ends
BY DEF Halt, Refuse, Ends, ReaderHeld, tokenVars

LEMMA Stayed ==
  ASSUME ReaderHeld, NEW place, Stay(place)
  PROVE  ReaderHeld' /\ Goes(place) /\ tok' = tok
BY DEF Stay, Goto, Goes, ReaderHeld, tokenVars

LEMMA ControlKept ==
  ASSUME ControlHeld, pc # "stopped", Ends \/ \E place \in Places : Goes(place)
  PROVE  ControlHeld'
BY DEF ControlHeld, Ends, Goes, Places, TextPlaces

\* Where a call has ended nothing is read.
LEMMA EndsPlaced ==
  ASSUME Ends
  PROVE  TermPlaced' /\ ExprPlaced' /\ FormPlaced'
BY DEF Ends, TermPlaced, ExprPlaced, ReceiverLast, FormPlaced, TermPlaces, ExprPlaces, CallPlaces,
       BodyPlaces, ClausePlaces, ArgumentPlaces

-----------------------------------------------------------------------------
(* Pools that grow.                                                        *)

LEMMA TermTyped == \A t \in Term : t.kind \in ContainerKinds => t.at \in Nat /\ t.count \in Nat
BY DEF Term, ScalarKinds, ContainerKinds

LEMMA OpTyped ==
  \A o \in Op : /\ o.op = "value" => o.term \in Nat
                /\ o.op = "closure" => /\ o.at \in Nat /\ o.count \in Nat
                                       /\ o.param_at \in Nat /\ o.param_count \in Nat
BY DEF Op

LEMMA TermEndsMore ==
  ASSUME NEW t \in Term, NEW n \in Nat, NEW m \in Nat, n <= m, TermEnds(t, n)
  PROVE  TermEnds(t, m)
BY TermTyped DEF TermEnds

LEMMA OpWithinMore ==
  ASSUME NEW o \in Op, NEW n \in Nat, NEW m \in Nat, n <= m,
         NEW nt \in Nat, NEW mt \in Nat, nt <= mt, NEW np \in Nat, NEW mp \in Nat, np <= mp,
         OpWithin(o, n, nt, np)
  PROVE  OpWithin(o, m, mt, mp)
BY OpTyped DEF OpWithin

LEMMA TermsWithinMore ==
  ASSUME NEW ts \in Seq(Term), NEW n \in Nat, NEW m \in Nat, n <= m, TermsWithin(ts, n)
  PROVE  TermsWithin(ts, m)
<1>1. \A i \in DOMAIN ts : ts[i] \in Term
  BY LenProperties, ElementOfSeq
<1> QED
  BY <1>1, TermEndsMore DEF TermsWithin

LEMMA OpsWithinMore ==
  ASSUME NEW os \in Seq(Op), NEW n \in Nat, NEW m \in Nat, n <= m,
         NEW nt \in Nat, NEW mt \in Nat, nt <= mt, NEW np \in Nat, NEW mp \in Nat, np <= mp,
         OpsWithin(os, n, nt, np)
  PROVE  OpsWithin(os, m, mt, mp)
<1>1. \A i \in DOMAIN os : os[i] \in Op
  BY LenProperties, ElementOfSeq
<1> QED
  BY <1>1, OpWithinMore DEF OpsWithin

LEMMA PredsWithinMore ==
  ASSUME NEW ps \in Seq(Pred), NEW n \in Nat, NEW m \in Nat, n <= m, RangesWithin(ps, n)
  PROVE  RangesWithin(ps, m)
<1>1. \A i \in DOMAIN ps : ps[i] \in Pred
  BY LenProperties, ElementOfSeq
<1>2. \A i \in DOMAIN ps : ps[i].at \in Nat /\ ps[i].count \in Nat
  BY <1>1 DEF Pred
<1> QED
  BY <1>2 DEF RangesWithin

LEMMA RunsWithinMore ==
  ASSUME NEW rs \in Seq(Run), NEW n \in Nat, NEW m \in Nat, n <= m, RangesWithin(rs, n)
  PROVE  RangesWithin(rs, m)
<1>1. \A i \in DOMAIN rs : rs[i] \in Run
  BY LenProperties, ElementOfSeq
<1>2. \A i \in DOMAIN rs : rs[i].at \in Nat /\ rs[i].count \in Nat
  BY <1>1 DEF Run
<1> QED
  BY <1>2 DEF RangesWithin

LEMMA RuleWithinMore ==
  ASSUME NEW r \in RuleOf, NEW nt \in Nat, NEW mt \in Nat, nt <= mt,
         NEW np \in Nat, NEW mp \in Nat, np <= mp, NEW ne \in Nat, NEW me \in Nat, ne <= me,
         RuleWithin(r, nt, np, ne)
  PROVE  RuleWithin(r, mt, mp, me)
<1>1. /\ r.head \in Seq(Pred) /\ r.body_at \in Nat /\ r.body_count \in Nat
      /\ r.expr_at \in Nat /\ r.expr_count \in Nat
  BY DEF RuleOf
<1>2. RangesWithin(r.head, mt)
  BY <1>1, PredsWithinMore DEF RuleWithin
<1> QED
  BY <1>1, <1>2 DEF RuleWithin

\* The pools have grown, or are as they were.
Grown == /\ Len(terms) \in Nat /\ Len(terms') \in Nat /\ Len(terms) <= Len(terms')
         /\ Len(ops) \in Nat /\ Len(ops') \in Nat /\ Len(ops) <= Len(ops')
         /\ Len(params) \in Nat /\ Len(params') \in Nat /\ Len(params) <= Len(params')

LEMMA PoolSizes ==
  ASSUME PoolsHeld
  PROVE  /\ Len(terms) \in Nat /\ DOMAIN terms = 1 .. Len(terms)
         /\ Len(ops) \in Nat /\ DOMAIN ops = 1 .. Len(ops)
         /\ Len(params) \in Nat
BY LenProperties DEF PoolsHeld

LEMMA StillWithin ==
  ASSUME WorldHeld, WorldWithin, Grown, UNCHANGED worldVars
  PROVE  WorldHeld' /\ WorldWithin'
<1>1. WorldHeld'
  BY DEF WorldHeld, worldVars
<1>2. RangesWithin(preds, Len(terms'))
  BY PredsWithinMore DEF WorldHeld, WorldWithin, Grown
<1>3. RangesWithin(exprs, Len(ops'))
  BY RunsWithinMore DEF WorldHeld, WorldWithin, Grown
<1>4. \A i \in DOMAIN facts : facts[i].pred.at + facts[i].pred.count <= Len(terms')
  <2>1. \A i \in DOMAIN facts : facts[i].pred.at \in Nat /\ facts[i].pred.count \in Nat
    <3>1. \A i \in DOMAIN facts : facts[i] \in FactOf
      BY LenProperties, ElementOfSeq DEF WorldHeld
    <3> QED
      BY <3>1 DEF FactOf, Pred
  <2> QED
    BY <2>1 DEF WorldWithin, Grown
<1>5. \A i \in DOMAIN rules : RuleWithin(rules[i], Len(terms'), Len(preds), Len(exprs))
  <2>1. Len(preds) \in Nat /\ Len(exprs) \in Nat /\ \A i \in DOMAIN rules : rules[i] \in RuleOf
    BY LenProperties, ElementOfSeq DEF WorldHeld
  <2> QED
    BY <2>1, RuleWithinMore DEF WorldWithin, Grown
<1> QED
  BY <1>1, <1>2, <1>3, <1>4, <1>5 DEF WorldWithin, worldVars

LEMMA ClauseStillPending ==
  ASSUME BodyHeld, StatementHeld, ClausePending, Grown, UNCHANGED <<body, tests, head>>
  PROVE  ClausePending'
<1>1. RangesWithin(body, Len(terms')) /\ RangesWithin(head, Len(terms'))
  BY PredsWithinMore DEF BodyHeld, StatementHeld, ClausePending, Grown
<1>2. RangesWithin(tests, Len(ops'))
  BY RunsWithinMore DEF BodyHeld, ClausePending, Grown
<1> QED
  BY <1>1, <1>2 DEF ClausePending

LEMMA CodeStillPending ==
  ASSUME CodeHeld, CodePending, Grown, UNCHANGED <<out, run>>
  PROVE  CodePending'
<1>1. OpsWithin(out, Len(ops'), Len(terms'), Len(params'))
  BY OpsWithinMore DEF CodeHeld, CodePending, Grown
<1>2. run.at \in Nat /\ run.count \in Nat
  BY DEF CodeHeld, Run
<1> QED
  BY <1>1, <1>2 DEF CodePending, Grown

LEMMA TermsStillPending ==
  ASSUME TermsHeld, BodyHeld, TermsPending, Grown, UNCHANGED <<items, args, value>>
  PROVE  TermsPending'
<1>1. TermsWithin(items, Len(terms')) /\ TermsWithin(args, Len(terms'))
  BY TermsWithinMore DEF TermsHeld, BodyHeld, TermsPending, Grown
<1>2. TermEnds(value, Len(terms'))
  BY TermEndsMore DEF TermsHeld, TermsPending, Grown
<1> QED
  BY <1>1, <1>2 DEF TermsPending

LEMMA Ungrown ==
  ASSUME PoolsHeld, UNCHANGED <<terms, ops, params>>
  PROVE  Grown
BY PoolSizes DEF Grown

\* What a turn that reads a term or an expression leaves alone.
Elsewhere == <<hostVars, worldVars, statementVars, bodyVars>>

LEMMA ElsewhereHeld ==
  ASSUME ParseIInv, Grown, UNCHANGED Elsewhere
  PROVE  HostHeld' /\ BodyHeld' /\ StatementHeld' /\ ClausePending' /\ WorldHeld'
         /\ WorldWithin' /\ AllAsk' /\ QueriesHeld'
<1> USE DEF Elsewhere
<1>1. HostHeld'
  BY DEF ParseIInv, HostHeld, hostVars, sourceVars
<1>2. BodyHeld' /\ StatementHeld'
  BY DEF ParseIInv, BodyHeld, StatementHeld, bodyVars, statementVars
<1>3. ClausePending'
  BY ClauseStillPending DEF ParseIInv, bodyVars, statementVars
<1>4. WorldHeld' /\ WorldWithin'
  BY StillWithin DEF ParseIInv
<1>5. AllAsk' /\ QueriesHeld'
  BY DEF ParseIInv, AllAsk, AsksQueries, QueriesHeld, worldVars, statementVars
<1> QED
  BY <1>1, <1>2, <1>3, <1>4, <1>5

\* Terms go into the pool: those there are come to lie behind them.
LEMMA TermsPlaced ==
  ASSUME PoolsHeld, NEW ts \in Seq(Term), TermsWithin(ts, Len(terms)), terms' = terms \o ts,
         UNCHANGED <<ops, params>>, known' \subseteq Spelling
  PROVE  PoolsHeld' /\ Grown /\ Len(terms') = Len(terms) + Len(ts)
<1>1. /\ terms \in Seq(Term) /\ TermsBack(terms) /\ OpsBack(ops, Len(terms), Len(params))
      /\ ops \in Seq(Op) /\ params \in Seq(Spelling)
  BY DEF PoolsHeld
<1>2. Len(terms) \in Nat /\ Len(ts) \in Nat /\ Len(params) \in Nat /\ Len(ops) \in Nat
      /\ DOMAIN ops = 1 .. Len(ops) /\ DOMAIN terms = 1 .. Len(terms)
  BY <1>1, LenProperties
<1>3. /\ terms' \in Seq(Term) /\ Len(terms') = Len(terms) + Len(ts)
      /\ \A i \in DOMAIN terms' :
           \/ i \in DOMAIN terms /\ terms'[i] = terms[i]
           \/ i \in Nat /\ i > Len(terms) /\ i - Len(terms) \in DOMAIN ts
              /\ terms'[i] = ts[i - Len(terms)]
  BY <1>1, Joined
<1>4. TermsBack(terms')
  <2> SUFFICES ASSUME NEW i \in DOMAIN terms' PROVE TermEnds(terms'[i], i - 1)
    BY DEF TermsBack
  <2>1. CASE i \in DOMAIN terms /\ terms'[i] = terms[i]
    BY <1>1, <2>1 DEF TermsBack
  <2>2. CASE i \in Nat /\ i > Len(terms) /\ i - Len(terms) \in DOMAIN ts
             /\ terms'[i] = ts[i - Len(terms)]
    <3>1. terms'[i] \in Term /\ TermEnds(terms'[i], Len(terms))
      BY <2>2, LenProperties, ElementOfSeq DEF TermsWithin
    <3>2. i - 1 \in Nat /\ Len(terms) <= i - 1
      BY <1>2, <2>2
    <3> QED
      BY <1>2, <3>1, <3>2, TermEndsMore
  <2> QED
    BY <1>3, <2>1, <2>2
<1>5. OpsBack(ops, Len(terms'), Len(params))
  <2> SUFFICES ASSUME NEW i \in DOMAIN ops
               PROVE  OpWithin(ops[i], i - 1, Len(terms'), Len(params))
    BY DEF OpsBack
  <2>1. ops[i] \in Op /\ i - 1 \in Nat
    BY <1>1, <1>2, ElementOfSeq
  <2>2. OpWithin(ops[i], i - 1, Len(terms), Len(params))
    BY <1>1 DEF OpsBack
  <2>3. Len(terms') \in Nat /\ Len(terms) <= Len(terms')
    BY <1>2, <1>3
  <2> QED
    BY <1>2, <2>1, <2>2, <2>3, OpWithinMore
<1> QED
  BY <1>1, <1>2, <1>3, <1>4, <1>5 DEF PoolsHeld, Grown

LEMMA PoolsKept ==
  ASSUME PoolsHeld, UNCHANGED <<terms, ops, params>>, known' \subseteq Spelling
  PROVE  PoolsHeld' /\ Grown
BY Ungrown DEF PoolsHeld

-----------------------------------------------------------------------------
(* The open containers.                                                    *)

\* The containers of fs begin one after the other, none behind n.
Ordered(fs, n) ==
  \A i \in DOMAIN fs : /\ fs[i].base <= n
                       /\ \A j \in 1 .. i : fs[j].base <= fs[i].base

LEMMA OrderedMore ==
  ASSUME NEW fs \in Seq(FrameOf), NEW n \in Nat, NEW m \in Nat, n <= m, Ordered(fs, n)
  PROVE  Ordered(fs, m)
<1>1. \A i \in DOMAIN fs : fs[i] \in FrameOf
  BY LenProperties, ElementOfSeq
<1>2. \A i \in DOMAIN fs : fs[i].base \in Nat
  BY <1>1 DEF FrameOf
<1> QED
  BY <1>2 DEF Ordered

LEMMA OrderedPush ==
  ASSUME NEW fs \in Seq(FrameOf), NEW n \in Nat, Ordered(fs, n), NEW f \in FrameOf, f.base = n
  PROVE  Ordered(Append(fs, f), n)
<1>1. /\ Len(fs) \in Nat /\ DOMAIN fs = 1 .. Len(fs) /\ DOMAIN Append(fs, f) = 1 .. Len(fs) + 1
      /\ \A i \in 1 .. Len(fs) : Append(fs, f)[i] = fs[i]
      /\ Append(fs, f)[Len(fs) + 1] = f
  BY AppendProperties, LenProperties
<1>2. ASSUME NEW i \in 1 .. Len(fs) + 1
      PROVE  /\ Append(fs, f)[i].base <= n
             /\ \A j \in 1 .. i : Append(fs, f)[j].base <= Append(fs, f)[i].base
  <2>1. CASE i \in 1 .. Len(fs)
    BY <1>1, <2>1 DEF Ordered
  <2>2. CASE i = Len(fs) + 1
    BY <1>1, <2>2 DEF Ordered
  <2> QED
    BY <1>1, <2>1, <2>2
<1> QED
  BY <1>1, <1>2 DEF Ordered

LEMMA OrderedCut ==
  ASSUME NEW fs \in Seq(FrameOf), NEW n \in Nat, Ordered(fs, n), fs # <<>>
  PROVE  /\ SubSeq(fs, 1, Len(fs) - 1) \in Seq(FrameOf)
         /\ Len(SubSeq(fs, 1, Len(fs) - 1)) = Len(fs) - 1
         /\ Ordered(SubSeq(fs, 1, Len(fs) - 1), fs[Len(fs)].base)
         /\ fs[Len(fs)].base \in Nat /\ fs[Len(fs)].base <= n
         /\ fs[Len(fs)].kind \in ContainerKinds \cup {"unknown"}
<1>1. /\ Len(fs) \in Nat \ {0} /\ Len(fs) \in DOMAIN fs /\ fs[Len(fs)] \in FrameOf
      /\ Len(fs) - 1 \in Nat /\ Len(fs) - 1 <= Len(fs) /\ DOMAIN fs = 1 .. Len(fs)
  BY LastOf, LenProperties
<1>2. /\ SubSeq(fs, 1, Len(fs) - 1) \in Seq(FrameOf)
      /\ Len(SubSeq(fs, 1, Len(fs) - 1)) = Len(fs) - 1
      /\ \A i \in DOMAIN SubSeq(fs, 1, Len(fs) - 1) :
           i \in DOMAIN fs /\ i <= Len(fs) - 1 /\ SubSeq(fs, 1, Len(fs) - 1)[i] = fs[i]
  BY <1>1, Cut
<1>3. DOMAIN SubSeq(fs, 1, Len(fs) - 1) = 1 .. Len(fs) - 1
  BY <1>2, LenProperties
<1>4. Ordered(SubSeq(fs, 1, Len(fs) - 1), fs[Len(fs)].base)
  <2> SUFFICES ASSUME NEW i \in 1 .. Len(fs) - 1
               PROVE  /\ SubSeq(fs, 1, Len(fs) - 1)[i].base <= fs[Len(fs)].base
                      /\ \A j \in 1 .. i : SubSeq(fs, 1, Len(fs) - 1)[j].base
                                             <= SubSeq(fs, 1, Len(fs) - 1)[i].base
    BY <1>3 DEF Ordered
  <2>1. i \in 1 .. Len(fs) /\ \A j \in 1 .. i : j \in 1 .. Len(fs) - 1
    BY <1>1
  <2> QED
    BY <1>1, <1>2, <1>3, <2>1 DEF Ordered
<1> QED
  BY <1>1, <1>2, <1>4 DEF FrameOf, Ordered

\* The innermost container of fs turns out to be of kind k.
Kinded(fs, k) == [fs EXCEPT ![Len(fs)].kind = k]

LEMMA OrderedKind ==
  ASSUME NEW fs \in Seq(FrameOf), NEW n \in Nat, Ordered(fs, n), fs # <<>>,
         NEW k \in ContainerKinds \cup {"unknown"}
  PROVE  /\ Kinded(fs, k) \in Seq(FrameOf) /\ Len(Kinded(fs, k)) = Len(fs)
         /\ Kinded(fs, k) # <<>> /\ Ordered(Kinded(fs, k), n)
         /\ Kinded(fs, k)[Len(Kinded(fs, k))].kind = k
<1> DEFINE gs == Kinded(fs, k)
<1>1. Len(fs) \in Nat \ {0} /\ Len(fs) \in 1 .. Len(fs) /\ fs[Len(fs)] \in FrameOf
      /\ DOMAIN fs = 1 .. Len(fs)
  BY LastOf, LenProperties
<1>2. [fs[Len(fs)] EXCEPT !.kind = k] \in FrameOf
  BY <1>1 DEF FrameOf
<1>3. gs = [fs EXCEPT ![Len(fs)] = [fs[Len(fs)] EXCEPT !.kind = k]]
  BY DEF Kinded
<1> HIDE DEF gs
<1>4. /\ gs \in Seq(FrameOf) /\ Len(gs) = Len(fs)
      /\ \A j \in 1 .. Len(fs) : gs[j] = IF j = Len(fs)
                                                THEN [fs[Len(fs)] EXCEPT !.kind = k] ELSE fs[j]
  BY <1>1, <1>2, <1>3, ExceptSeq
<1>5. \A j \in 1 .. Len(fs) : gs[j].base = fs[j].base
  BY <1>1, <1>4 DEF FrameOf
<1>6. gs[Len(gs)].kind = k
  BY <1>1, <1>4 DEF FrameOf
<1>7. gs # <<>> /\ DOMAIN gs = 1 .. Len(fs)
  BY <1>1, <1>4, EmptySeq, LenProperties
<1>8. Ordered(gs, n)
  BY <1>1, <1>5, <1>7 DEF Ordered
<1> QED
  BY <1>4, <1>6, <1>7, <1>8 DEF gs

LEMMA FramesAre == FramesOrdered = Ordered(frames, Len(items))
BY DEF FramesOrdered, Ordered

LEMMA FramesWillBe == FramesOrdered' = Ordered(frames', Len(items'))
BY DEF FramesOrdered, Ordered

-----------------------------------------------------------------------------
(* Terms (140_parse.inc:182-330).                                          *)

\* A turn that leaves the code of an expression alone.
LEMMA TermTurn ==
  ASSUME ParseIInv, UNCHANGED <<Elsewhere, exprVars>>, ReaderHeld', PoolsHeld', Grown, TermsHeld',
         TermsWithin(items', Len(terms')), TermEnds(value', Len(terms')),
         ControlHeld', TermPlaced', ExprPlaced', FormPlaced'
  PROVE  ParseIInv'
<1>1. CodeHeld'
  BY DEF ParseIInv, CodeHeld, StackOrdered, StackFits, exprVars
<1>2. CodePending'
  BY CodeStillPending DEF ParseIInv, exprVars
<1>3. TermsPending'
  <2>1. args' = args
    BY DEF Elsewhere, bodyVars
  <2>2. TermsWithin(args, Len(terms'))
    BY TermsWithinMore DEF ParseIInv, BodyHeld, TermsPending, Grown
  <2> QED
    BY <2>1, <2>2 DEF TermsPending
<1>4. HostHeld' /\ BodyHeld' /\ StatementHeld' /\ ClausePending' /\ WorldHeld'
      /\ WorldWithin' /\ AllAsk' /\ QueriesHeld'
  BY ElsewhereHeld
<1> QED
  BY <1>1, <1>2, <1>3, <1>4 DEF ParseIInv

LEMMA TermGoesOn ==
  ASSUME ParseIInv, pc \in TermPlaces, UNCHANGED <<back, exprVars, statementVars, bodyVars>>,
         NEW place \in TermPlaces, Goes(place)
  PROVE  ExprPlaced' /\ FormPlaced' /\ (back' \in {"operand", "argument"})
<1>1. ExprPlaced'
  BY DEF ParseIInv, ExprPlaced, ReceiverLast, TermPlaces, CallPlaces, Goes, exprVars
<1>2. FormPlaced'
  BY DEF ParseIInv, FormPlaced, TermPlaces, ExprPlaces, CallPlaces, BodyPlaces, ClausePlaces, Goes,
         ArgumentPlaces, IsHead, statementVars, bodyVars
<1> QED
  BY <1>1, <1>2 DEF ParseIInv, TermPlaced

LEMMA TermControl ==
  ASSUME ParseIInv, pc \in TermPlaces, Ends \/ \E place \in TermPlaces : Goes(place)
  PROVE  ControlHeld'
<1>1. pc # "stopped"
  BY DEF TermPlaces
<1> QED
  BY <1>1, ControlKept DEF ParseIInv, Places

LEMMA AtTermPlaced == AtTerm => pc \in TermPlaces
BY DEF AtTerm, TermPlaces

LEMMA OpenContainerKeeps ==
  ASSUME ParseIInv, OpenContainer, UNCHANGED Elsewhere
  PROVE  ParseIInv'
<1>1. pc \in TermPlaces
  BY AtTermPlaced DEF OpenContainer
<1>2. UNCHANGED <<Elsewhere, exprVars>> /\ UNCHANGED <<terms, ops, params, known, items, value,
       back>>
  BY DEF OpenContainer, poolVars
<1>3. PoolsHeld' /\ Grown
  BY <1>2, PoolsKept DEF ParseIInv, PoolsHeld
<1>4. TermsWithin(items', Len(terms')) /\ TermEnds(value', Len(terms'))
  BY <1>2 DEF ParseIInv, TermsPending
<1>5. CASE Halt("DEPTH") /\ UNCHANGED frames
  <2>1. ReaderHeld' /\ Ends
    BY <1>5, Halted DEF ParseIInv, Codes
  <2>2. TermsHeld'
    BY <1>2, <1>5 DEF ParseIInv, TermsHeld, FramesOrdered
  <2> QED
    BY <1>1, <1>2, <1>3, <1>4, <2>1, <2>2, TermTurn, TermControl, EndsPlaced
<1>6. CASE /\ Len(frames) < MaxDepth /\ Fetch("opened")
           /\ frames' = Append(frames, IF IsPunct("[") THEN Frame("array", "]")
                                       ELSE Frame("unknown", "}"))
  <2> DEFINE f == IF IsPunct("[") THEN Frame("array", "]") ELSE Frame("unknown", "}")
  <2>1. Len(items) \in Nat /\ items \in Seq(Term) /\ frames \in Seq(FrameOf)
        /\ Ordered(frames, Len(items)) /\ Len(frames) \in Nat /\ MaxDepth \in Nat
    BY FramesAre, LenProperties, ExprParseAssumption DEF ParseIInv, TermsHeld
  <2>2. f \in FrameOf /\ f.base = Len(items)
    BY <2>1 DEF FrameOf, Frame, ContainerKinds
  <2>3. frames' = Append(frames, f)
    BY <1>6
  <2> HIDE DEF f
  <2>4. Ordered(frames', Len(items'))
    BY <1>2, <2>1, <2>2, <2>3, OrderedPush
  <2>5. frames' \in Seq(FrameOf) /\ Len(frames') = Len(frames) + 1 /\ frames' # <<>>
    BY <2>1, <2>2, <2>3, Appended
  <2>. Len(frames') <= MaxDepth
    <3>1. Len(frames) < MaxDepth
      BY <1>6
    <3> QED
      BY ONLY <2>1, <2>5, <3>1
  <2>6. TermsHeld'
    BY <1>2, <2>4, <2>5, FramesWillBe DEF ParseIInv, TermsHeld
  <2>7. ReaderHeld' /\ (Ends \/ Goes("opened"))
    BY <1>6, FetchedNext DEF ParseIInv
  <2>8. "opened" \in TermPlaces
    BY DEF TermPlaces
  <2>9. ControlHeld'
    BY <1>1, <2>7, <2>8, TermControl
  <2>10. TermPlaced' /\ ExprPlaced' /\ FormPlaced'
    <3>1. CASE Ends
      BY <3>1, EndsPlaced
    <3>2. CASE Goes("opened")
      <4>1. ExprPlaced' /\ FormPlaced' /\ back' \in {"operand", "argument"}
        BY <1>1, <1>2, <2>8, <3>2, TermGoesOn DEF Elsewhere
      <4> QED
        BY <2>5, <3>2, <4>1 DEF TermPlaced, Goes
    <3> QED
      BY <2>7, <3>1, <3>2
  <2> QED
    BY <1>2, <1>3, <1>4, <2>6, <2>7, <2>9, <2>10, TermTurn
<1> QED
  BY <1>5, <1>6 DEF OpenContainer

LEMMA EmptySetKeeps ==
  ASSUME ParseIInv, EmptySet, UNCHANGED Elsewhere
  PROVE  ParseIInv'
<1>1. pc \in TermPlaces /\ pc = "opened" /\ frames # <<>>
  BY DEF EmptySet, TermPlaces, ParseIInv, TermPlaced
<1>2. UNCHANGED <<Elsewhere, exprVars>> /\ UNCHANGED <<terms, ops, params, known, items, value,
       back>>
  BY DEF EmptySet, poolVars
<1>3. PoolsHeld' /\ Grown
  BY <1>2, PoolsKept DEF ParseIInv, PoolsHeld
<1>4. TermsWithin(items', Len(terms')) /\ TermEnds(value', Len(terms'))
  BY <1>2 DEF ParseIInv, TermsPending
<1>5. Len(items) \in Nat /\ frames \in Seq(FrameOf) /\ Ordered(frames, Len(items))
  BY FramesAre, LenProperties DEF ParseIInv, TermsHeld
<1>6. /\ frames' \in Seq(FrameOf) /\ Len(frames') = Len(frames) /\ frames' # <<>>
      /\ Ordered(frames', Len(items')) /\ frames'[Len(frames')].kind = "set"
  <2>1. "set" \in ContainerKinds \cup {"unknown"} /\ frames' = Kinded(frames, "set")
    BY DEF ContainerKinds, EmptySet, AsKind, Kinded
  <2>2. /\ frames' \in Seq(FrameOf) /\ Len(frames') = Len(frames) /\ frames' # <<>>
        /\ Ordered(frames', Len(items)) /\ frames'[Len(frames')].kind = "set"
    BY ONLY <1>1, <1>5, <2>1, OrderedKind
  <2> QED
    BY <1>2, <2>2
<1>7. TermsHeld'
  BY <1>2, <1>6, FramesWillBe DEF ParseIInv, TermsHeld
<1>8. ReaderHeld' /\ (Ends \/ Goes("empty"))
  BY FetchedNext DEF ParseIInv, EmptySet
<1>9. "empty" \in TermPlaces
  BY DEF TermPlaces
<1>10. ControlHeld'
  BY <1>1, <1>8, <1>9, TermControl
<1>11. TermPlaced' /\ ExprPlaced' /\ FormPlaced'
  <2>1. CASE Ends
    BY <2>1, EndsPlaced
  <2>2. CASE Goes("empty")
    <3>1. ExprPlaced' /\ FormPlaced' /\ back' \in {"operand", "argument"}
      BY <1>1, <1>2, <1>9, <2>2, TermGoesOn DEF Elsewhere
    <3> QED
      BY <1>6, <2>2, <3>1 DEF TermPlaced, Goes, Innermost
  <2> QED
    BY <1>8, <2>1, <2>2
<1> QED
  BY <1>2, <1>3, <1>4, <1>7, <1>8, <1>10, <1>11, TermTurn

LEMMA CloseEmptyKeeps ==
  ASSUME ParseIInv, CloseEmpty, UNCHANGED Elsewhere
  PROVE  ParseIInv'
<1>1. pc \in TermPlaces /\ frames # <<>>
  BY DEF CloseEmpty, TermPlaces, ParseIInv, TermPlaced
<1>2. UNCHANGED <<Elsewhere, exprVars>> /\ UNCHANGED <<terms, ops, params, known, items, back>>
  BY DEF CloseEmpty, poolVars
<1>3. PoolsHeld' /\ Grown
  BY <1>2, PoolsKept DEF ParseIInv, PoolsHeld
<1>4. TermsWithin(items', Len(terms'))
  BY <1>2 DEF ParseIInv, TermsPending
<1>5. CASE Halt("MALFORMED") /\ UNCHANGED <<frames, value>>
  <2>1. ReaderHeld' /\ Ends
    BY <1>5, Halted DEF ParseIInv, Codes
  <2>2. TermsHeld' /\ TermEnds(value', Len(terms'))
    BY <1>2, <1>5 DEF ParseIInv, TermsHeld, FramesOrdered, TermsPending
  <2> QED
    BY <1>1, <1>2, <1>3, <1>4, <2>1, <2>2, TermTurn, TermControl, EndsPlaced
<1>6. CASE /\ FetchAfterOperand("value", "OK")
           /\ value' = [kind |-> IF Innermost.kind = "unknown" THEN "map" ELSE Innermost.kind,
                        at |-> Len(terms), count |-> 0]
           /\ frames' = Outer
  <2>1. Len(items) \in Nat /\ frames \in Seq(FrameOf) /\ Ordered(frames, Len(items))
        /\ Len(frames) \in Nat /\ MaxDepth \in Nat
    BY FramesAre, LenProperties, ExprParseAssumption DEF ParseIInv, TermsHeld
  <2>2. /\ frames' \in Seq(FrameOf) /\ Len(frames') = Len(frames) - 1
        /\ Ordered(frames', Innermost.base)
        /\ Innermost.base \in Nat /\ Innermost.base <= Len(items)
        /\ Innermost.kind \in ContainerKinds \cup {"unknown"}
    BY <1>1, <1>6, <2>1, OrderedCut DEF Outer, Innermost
  <2>3. Ordered(frames', Len(items'))
    BY <1>2, <2>1, <2>2, OrderedMore
  <2>4. value' \in Term /\ TermEnds(value', Len(terms'))
    <3>1. Len(terms) \in Nat
      BY PoolSizes DEF ParseIInv
    <3>2. PICK k \in ContainerKinds : value' = [kind |-> k, at |-> Len(terms), count |-> 0]
      BY <1>6, <2>2 DEF ContainerKinds
    <3> QED
      BY <1>2, <3>1, <3>2 DEF Term, TermEnds
  <2>5. TermsHeld'
    BY <1>2, <2>1, <2>2, <2>3, <2>4, FramesWillBe DEF ParseIInv, TermsHeld
  <2>6. ReaderHeld' /\ (Ends \/ Goes("value"))
    BY <1>6, FetchedAfter DEF ParseIInv, Codes
  <2>7. "value" \in TermPlaces
    BY DEF TermPlaces
  <2>8. ControlHeld'
    BY <1>1, <2>6, <2>7, TermControl
  <2>9. TermPlaced' /\ ExprPlaced' /\ FormPlaced'
    <3>1. CASE Ends
      BY <3>1, EndsPlaced
    <3>2. CASE Goes("value")
      <4>1. ExprPlaced' /\ FormPlaced' /\ back' \in {"operand", "argument"}
        BY <1>1, <1>2, <2>7, <3>2, TermGoesOn DEF Elsewhere
      <4> QED
        BY <3>2, <4>1 DEF TermPlaced, Goes
    <3> QED
      BY <2>6, <3>1, <3>2
  <2> QED
    BY <1>2, <1>3, <1>4, <2>4, <2>5, <2>6, <2>8, <2>9, TermTurn
<1> QED
  BY <1>5, <1>6 DEF CloseEmpty

LEMMA ScalarRead ==
  ASSUME ReaderHeld, NEW kind \in ScalarKinds, Scalar(kind), NEW n
  PROVE  value' \in Term /\ TermEnds(value', n)
<1>1. tok.text \in Spelling
  BY DEF ReaderHeld, Token
<1> QED
  BY <1>1 DEF Scalar, Term, TermEnds, ScalarKinds, ContainerKinds

LEMMA ReadScalarKeeps ==
  ASSUME ParseIInv, ReadScalar, UNCHANGED Elsewhere
  PROVE  ParseIInv'
<1>1. pc \in TermPlaces
  BY AtTermPlaced DEF ReadScalar
<1>2. UNCHANGED <<Elsewhere, exprVars>> /\ UNCHANGED <<terms, ops, params, items, frames, back>>
  BY DEF ReadScalar
<1>3. /\ known' \subseteq Spelling
      /\ value' \in Term /\ TermEnds(value', Len(terms))
      /\ ReaderHeld' /\ (Ends \/ Goes("value"))
  <2>1. /\ known \subseteq Spelling /\ tok.text \in Spelling /\ ReaderHeld /\ HostHeld
        /\ value \in Term /\ TermEnds(value, Len(terms)) /\ "OK" \in Codes
        /\ "NOMEM" \in Codes /\ "MALFORMED" \in Codes
    BY DEF ParseIInv, PoolsHeld, ReaderHeld, Token, TermsHeld, TermsPending, Codes
  <2>2. CASE /\ tok.kind \in {"string", "variable"} /\ known' = known \cup {tok.text}
             /\ Scalar(tok.kind) /\ FetchAfterOperand("value", "OK")
    <3>1. tok.kind \in ScalarKinds
      BY <2>2 DEF ScalarKinds
    <3> QED
      BY <2>1, <2>2, <3>1, ScalarRead, FetchedAfter
  <2>3. CASE /\ tok.kind \in {"integer", "negative", "date", "bytes"}
             /\ Scalar(tok.kind) /\ FetchAfterOperand("value", "OK") /\ UNCHANGED known
    <3>1. tok.kind \in ScalarKinds
      BY <2>3 DEF ScalarKinds
    <3> QED
      BY <2>1, <2>3, <3>1, ScalarRead, FetchedAfter
  <2>4. CASE /\ Scalar(IF IsWord("null") THEN "null" ELSE "bool")
             /\ FetchAfterOperand("value", "OK") /\ UNCHANGED known
    <3>1. (IF IsWord("null") THEN "null" ELSE "bool") \in ScalarKinds
      BY DEF ScalarKinds
    <3> QED
      BY <2>1, <2>4, <3>1, ScalarRead, FetchedAfter
  <2>5. CASE Halt("NOMEM") /\ UNCHANGED <<known, value>>
    BY <2>1, <2>5, Halted
  <2>6. CASE Halt("MALFORMED") /\ UNCHANGED <<known, value>>
    BY <2>1, <2>6, Halted
  <2> QED
    BY <2>2, <2>3, <2>4, <2>5, <2>6 DEF ReadScalar
<1>4. PoolsHeld' /\ Grown
  BY <1>2, <1>3, PoolsKept DEF ParseIInv, PoolsHeld
<1>5. TermsWithin(items', Len(terms')) /\ TermEnds(value', Len(terms'))
  BY <1>2, <1>3 DEF ParseIInv, TermsPending
<1>6. TermsHeld'
  BY <1>2, <1>3 DEF ParseIInv, TermsHeld, FramesOrdered
<1>7. "value" \in TermPlaces
  BY DEF TermPlaces
<1>8. ControlHeld'
  BY <1>1, <1>3, <1>7, TermControl
<1>9. TermPlaced' /\ ExprPlaced' /\ FormPlaced'
  <2>1. CASE Ends
    BY <2>1, EndsPlaced
  <2>2. CASE Goes("value")
    <3>1. ExprPlaced' /\ FormPlaced' /\ back' \in {"operand", "argument"}
      BY <1>1, <1>2, <1>7, <2>2, TermGoesOn DEF Elsewhere
    <3> QED
      BY <2>2, <3>1 DEF TermPlaced, Goes
  <2> QED
    BY <1>3, <2>1, <2>2
<1> QED
  BY <1>2, <1>3, <1>4, <1>5, <1>6, <1>8, <1>9, TermTurn

LEMMA ReturnTermKeeps ==
  ASSUME ParseIInv, ReturnTerm, UNCHANGED Elsewhere
  PROVE  ParseIInv'
<1>1. pc = "value" /\ pc \in TermPlaces
  BY DEF ReturnTerm, TermPlaces
<1>2. UNCHANGED <<Elsewhere, exprVars>>
      /\ UNCHANGED <<terms, ops, params, known, items, frames, value, back>>
  BY DEF ReturnTerm, poolVars, termVars
<1>3. PoolsHeld' /\ Grown
  BY <1>2, PoolsKept DEF ParseIInv, PoolsHeld
<1>4. TermsWithin(items', Len(terms')) /\ TermEnds(value', Len(terms'))
  BY <1>2 DEF ParseIInv, TermsPending
<1>5. TermsHeld'
  BY <1>2 DEF ParseIInv, TermsHeld, FramesOrdered
<1>6. ReaderHeld' /\ Goes(back) /\ back \in {"operand", "argument"}
  BY <1>1, Stayed DEF ParseIInv, ReturnTerm, TermPlaced
<1>7. ControlHeld'
  <2>1. back \in Places /\ pc # "stopped"
    BY <1>1, <1>6 DEF Places, ExprPlaces, BodyPlaces
  <2> QED
    BY <1>6, <2>1, ControlKept DEF ParseIInv
<1>8. TermPlaced'
  BY <1>6 DEF TermPlaced, Goes, TermPlaces
<1>9. ExprPlaced'
  BY <1>1, <1>2, <1>6 DEF ParseIInv, ExprPlaced, ReceiverLast, Goes, TermPlaces, CallPlaces,
         exprVars
<1>10. FormPlaced'
  <2>1. /\ form \in Stating
        /\ back = "argument" => /\ name \in Spelling /\ Len(args) < Scratch
                                /\ IsHead \/ Len(body) < MaxBody
        /\ back = "operand" => Len(tests) < MaxBody
    BY <1>1 DEF ParseIInv, FormPlaced
  <2> QED
    BY <1>2, <1>6, <2>1 DEF FormPlaced, IsHead, Goes, ClausePlaces, ArgumentPlaces, TermPlaces,
                            ExprPlaces, CallPlaces, Elsewhere, statementVars, bodyVars
<1> QED
  BY <1>2, <1>3, <1>4, <1>5, <1>6, <1>7, <1>8, <1>9, <1>10, TermTurn

LEMMA PlaceItemKeeps ==
  ASSUME ParseIInv, PlaceItem, UNCHANGED Elsewhere
  PROVE  ParseIInv'
<1>1. pc \in TermPlaces /\ frames # <<>>
  BY DEF PlaceItem, TermPlaces
<1>2. UNCHANGED <<Elsewhere, exprVars>> /\ UNCHANGED <<terms, ops, params, known, value, back>>
  BY DEF PlaceItem, poolVars
<1>3. PoolsHeld' /\ Grown
  BY <1>2, PoolsKept DEF ParseIInv, PoolsHeld
<1>4. TermEnds(value', Len(terms'))
  BY <1>2 DEF ParseIInv, TermsPending
<1>5. CASE Halt("LIMIT") /\ UNCHANGED <<items, frames>>
  <2>1. ReaderHeld' /\ Ends
    BY <1>5, Halted DEF ParseIInv, Codes
  <2>2. TermsHeld' /\ TermsWithin(items', Len(terms'))
    BY <1>2, <1>5 DEF ParseIInv, TermsHeld, FramesOrdered, TermsPending
  <2> QED
    BY <1>1, <1>2, <1>3, <1>4, <2>1, <2>2, TermTurn, TermControl, EndsPlaced
<1>6. CASE /\ Len(items) < Scratch
           /\ items' = Append(items, value) /\ frames' = AsKind(KindNow)
           /\ \/ Fetch("term")
              \/ Halt("MALFORMED")
              \/ Fetch("comma")
              \/ Stay("close")
  <2>1. /\ Len(items) \in Nat /\ items \in Seq(Term) /\ value \in Term
        /\ frames \in Seq(FrameOf) /\ Ordered(frames, Len(items))
        /\ TermsWithin(items, Len(terms)) /\ TermEnds(value, Len(terms)) /\ Scratch \in Nat
    BY FramesAre, LenProperties, ExprParseAssumption DEF ParseIInv, TermsHeld, TermsPending
  <2>2. /\ items' \in Seq(Term) /\ Len(items') = Len(items) + 1
        /\ \A i \in DOMAIN items' :
             \/ i \in DOMAIN items /\ items'[i] = items[i]
             \/ i = Len(items) + 1 /\ items'[i] = value
    BY <1>6, <2>1, Appended
  <2>3. Len(items') <= Scratch
    <3>1. Len(items) < Scratch
      BY <1>6
    <3> QED
      BY ONLY <2>1, <2>2, <3>1
  <2>4. TermsWithin(items', Len(terms'))
    BY <1>2, <2>1, <2>2 DEF TermsWithin
  <2>5. KindNow \in ContainerKinds
    <3>1. Innermost.kind \in ContainerKinds \cup {"unknown"}
      BY <1>1, <2>1, OrderedCut DEF Innermost
    <3> QED
      BY <3>1 DEF KindNow, ContainerKinds
  <2>6. /\ frames' \in Seq(FrameOf) /\ Len(frames') = Len(frames) /\ frames' # <<>>
        /\ Ordered(frames', Len(items)) /\ frames'[Len(frames')].kind = KindNow
    <3>1. frames' = Kinded(frames, KindNow)
      BY <1>6 DEF AsKind, Kinded
    <3> HIDE DEF KindNow
    <3> QED
      BY ONLY <1>1, <2>1, <2>5, <3>1, OrderedKind
  <2>7. Ordered(frames', Len(items'))
    BY <2>1, <2>2, <2>6, OrderedMore
  <2>8. TermsHeld'
    BY <1>2, <2>2, <2>3, <2>6, <2>7, FramesWillBe DEF ParseIInv, TermsHeld
  <2>9. ReaderHeld' /\ (Ends \/ \E place \in {"term", "comma", "close"} : Goes(place))
    <3>1. ReaderHeld /\ HostHeld /\ "MALFORMED" \in Codes
      BY DEF ParseIInv, Codes
    <3> QED
      BY <1>6, <3>1, FetchedNext, Halted, Stayed
  <2>10. {"term", "comma", "close"} \subseteq TermPlaces
    BY DEF TermPlaces
  <2>11. ControlHeld'
    BY <1>1, <2>9, <2>10, TermControl
  <2>12. TermPlaced' /\ ExprPlaced' /\ FormPlaced'
    <3>1. CASE Ends
      BY <3>1, EndsPlaced
    <3>2. ASSUME NEW place \in {"term", "comma", "close"}, Goes(place)
          PROVE  TermPlaced' /\ ExprPlaced' /\ FormPlaced'
      <4>1. ExprPlaced' /\ FormPlaced' /\ back' \in {"operand", "argument"}
        BY <1>1, <1>2, <2>10, <3>2, TermGoesOn DEF Elsewhere
      <4>2. frames'[Len(frames')].kind # "unknown"
        BY <2>5, <2>6 DEF ContainerKinds
      <4> QED
        BY <2>6, <3>2, <4>1, <4>2 DEF TermPlaced, Innermost
    <3> QED
      BY <2>9, <3>1, <3>2
  <2> QED
    BY <1>2, <1>3, <1>4, <2>4, <2>8, <2>9, <2>11, <2>12, TermTurn
<1> QED
  BY <1>5, <1>6 DEF PlaceItem

\* What is closed goes into the pool, and the elements of what holds it stay.
LEMMA CloseContainerKeeps ==
  ASSUME ParseIInv, CloseContainer, UNCHANGED Elsewhere
  PROVE  ParseIInv'
<1> DEFINE code == IF ~Paired THEN "MALFORMED"
                   ELSE IF ~Fits(terms, Len(Elements), limits.terms) THEN "NOMEM" ELSE "OK"
<1>1. pc \in {"close", "comma"} /\ pc \in TermPlaces /\ frames # <<>> /\ Innermost.kind # "unknown"
      /\ status = "none"
  BY DEF CloseContainer, TermPlaces, ParseIInv, TermPlaced, ControlHeld
<1>2. UNCHANGED <<Elsewhere, exprVars>> /\ UNCHANGED <<ops, params, known, back>>
  BY DEF CloseContainer
<1>3. ReaderHeld' /\ (Ends \/ Goes("value"))
  <2>1. HostHeld /\ ReaderHeld /\ code \in Codes /\ "MALFORMED" \in Codes
    BY DEF ParseIInv, Codes
  <2>2. Halt("MALFORMED") \/ FetchAfterOperand("value", code)
    BY DEF CloseContainer
  <2> HIDE DEF code
  <2> QED
    BY <2>1, <2>2, Halted, FetchedAfter
<1>4. /\ Len(items) \in Nat /\ items \in Seq(Term) /\ frames \in Seq(FrameOf)
      /\ Ordered(frames, Len(items)) /\ Len(frames) \in Nat /\ MaxDepth \in Nat /\ Scratch \in Nat
      /\ Len(terms) \in Nat /\ TermsWithin(items, Len(terms)) /\ Len(frames) <= MaxDepth
      /\ Len(items) <= Scratch
  BY FramesAre, LenProperties, PoolSizes, ExprParseAssumption DEF ParseIInv, TermsHeld, TermsPending
<1>5. CASE Ends
  <2>1. UNCHANGED <<terms, items, frames, value>>
    BY <1>1, <1>5 DEF CloseContainer, Proceeds, Ends, Codes
  <2>2. PoolsHeld' /\ Grown
    BY <1>2, <2>1, PoolsKept DEF ParseIInv, PoolsHeld
  <2>3. TermsHeld' /\ TermsWithin(items', Len(terms')) /\ TermEnds(value', Len(terms'))
    BY <1>2, <2>1 DEF ParseIInv, TermsHeld, FramesOrdered, TermsPending
  <2> QED
    BY <1>1, <1>2, <1>3, <1>5, <2>2, <2>3, TermTurn, TermControl, EndsPlaced
<1>6. CASE Goes("value")
  <2> DEFINE base == Innermost.base
  <2>1. /\ terms' = terms \o Elements
        /\ value' = [kind |-> Innermost.kind, at |-> Len(terms), count |-> Len(Elements)]
        /\ items' = SubSeq(items, 1, base) /\ frames' = Outer
    BY <1>6 DEF CloseContainer, Proceeds, Goes
  <2>2. /\ frames' \in Seq(FrameOf) /\ Len(frames') = Len(frames) - 1
        /\ Ordered(frames', base) /\ base \in Nat /\ base <= Len(items)
        /\ Innermost.kind \in ContainerKinds
    BY <1>1, <1>4, <2>1, OrderedCut DEF Outer, Innermost
  <2>3. /\ items' \in Seq(Term) /\ Len(items') = base
        /\ \A i \in DOMAIN items' : i \in DOMAIN items /\ i <= base /\ items'[i] = items[i]
    BY <1>4, <2>1, <2>2, Cut
  <2>4. /\ Elements \in Seq(Term) /\ Len(Elements) \in Nat
        /\ \A i \in DOMAIN Elements : base + i \in DOMAIN items /\ Elements[i] = items[base + i]
    BY <1>4, <2>2, CutEnd, LenProperties DEF Elements
  <2>5. TermsWithin(Elements, Len(terms))
    BY <1>4, <2>4 DEF TermsWithin
  <2>6. PoolsHeld' /\ Grown /\ Len(terms') = Len(terms) + Len(Elements)
    BY <1>2, <2>1, <2>4, <2>5, TermsPlaced DEF ParseIInv, PoolsHeld
  <2>7. value' \in Term /\ TermEnds(value', Len(terms'))
    <3>1. PICK k \in ContainerKinds :
            value' = [kind |-> k, at |-> Len(terms), count |-> Len(Elements)]
      BY <2>1, <2>2
    <3> QED
      BY <1>4, <2>4, <2>6, <3>1 DEF Term, TermEnds
  <2>8. TermsWithin(items', Len(terms'))
    <3>1. TermsWithin(items', Len(terms))
      BY <1>4, <2>3 DEF TermsWithin
    <3> QED
      BY <2>3, <2>6, <3>1, TermsWithinMore DEF Grown
  <2>9. Len(frames') <= MaxDepth /\ Len(items') <= Scratch
    BY ONLY <1>4, <2>2, <2>3
  <2>10. TermsHeld'
    BY <1>2, <2>2, <2>3, <2>7, <2>9, FramesWillBe DEF ParseIInv, TermsHeld
  <2>11. "value" \in TermPlaces
    BY DEF TermPlaces
  <2>12. ControlHeld'
    BY <1>1, <1>6, <2>11, TermControl
  <2>13. ExprPlaced' /\ FormPlaced' /\ back' \in {"operand", "argument"}
    BY <1>1, <1>2, <1>6, <2>11, TermGoesOn DEF Elsewhere
  <2>14. TermPlaced'
    BY <1>6, <2>13 DEF TermPlaced, Goes
  <2> QED
    BY <1>2, <1>3, <2>6, <2>7, <2>8, <2>10, <2>12, <2>13, <2>14, TermTurn
<1> QED
  BY <1>3, <1>5, <1>6

LEMMA ReadTermKeeps ==
  ASSUME ParseIInv, ReadTerm, UNCHANGED Elsewhere
  PROVE  ParseIInv'
BY OpenContainerKeeps, EmptySetKeeps, CloseEmptyKeeps, ReadScalarKeeps, ReturnTermKeeps,
   PlaceItemKeeps, CloseContainerKeeps DEF ReadTerm

-----------------------------------------------------------------------------
(* The operators and brackets that are open.                               *)

\* The entries of st begin one after the other, none behind n.
Stacked(st, n) ==
  \A i \in DOMAIN st : Marked(st[i]) =>
    /\ st[i].out <= n
    /\ \A j \in 1 .. i : Marked(st[j]) => st[j].out <= st[i].out

Fitting(st) == \A i \in DOMAIN st : EntryFits(st[i])

LEMMA StackIs == StackOrdered = Stacked(stack, Len(out)) /\ StackFits = Fitting(stack)
BY DEF StackOrdered, Stacked, StackFits, Fitting

LEMMA StackWillBe == StackOrdered' = Stacked(stack', Len(out')) /\ StackFits' = Fitting(stack')
BY DEF StackOrdered, Stacked, StackFits, Fitting

LEMMA StackedMore ==
  ASSUME NEW st \in Seq(EntryOf), NEW n \in Nat, NEW m \in Nat, n <= m, Stacked(st, n)
  PROVE  Stacked(st, m)
<1>1. \A i \in DOMAIN st : st[i] \in EntryOf
  BY LenProperties, ElementOfSeq
<1>2. \A i \in DOMAIN st : st[i].out \in Nat
  BY <1>1 DEF EntryOf
<1> QED
  BY <1>2 DEF Stacked

LEMMA StackedTight ==
  ASSUME NEW st, NEW n, NEW m, Stacked(st, n), \A i \in DOMAIN st : Marked(st[i]) => st[i].out <= m
  PROVE  Stacked(st, m)
BY DEF Stacked

LEMMA StackedPush ==
  ASSUME NEW st \in Seq(EntryOf), NEW n \in Nat, NEW m \in Nat, n <= m, Stacked(st, n), Fitting(st),
         Stacked(st, m), NEW e \in EntryOf, EntryFits(e), e.out = n \/ ~Marked(e)
  PROVE  /\ Append(st, e) \in Seq(EntryOf) /\ Len(Append(st, e)) = Len(st) + 1
         /\ Stacked(Append(st, e), m) /\ Fitting(Append(st, e))
<1>1. /\ Append(st, e) \in Seq(EntryOf) /\ Len(Append(st, e)) = Len(st) + 1
      /\ Len(st) \in Nat /\ DOMAIN st = 1 .. Len(st) /\ DOMAIN Append(st, e) = 1 .. Len(st) + 1
      /\ \A i \in 1 .. Len(st) : Append(st, e)[i] = st[i]
      /\ Append(st, e)[Len(st) + 1] = e
  BY AppendProperties, LenProperties
<1>2. ASSUME NEW i \in 1 .. Len(st) + 1, Marked(Append(st, e)[i])
      PROVE  /\ Append(st, e)[i].out <= m
             /\ \A j \in 1 .. i :
                  Marked(Append(st, e)[j]) => Append(st, e)[j].out <= Append(st, e)[i].out
  <2>1. CASE i \in 1 .. Len(st)
    <3>1. \A j \in 1 .. i : j \in 1 .. Len(st)
      BY <1>1, <2>1
    <3> QED
      BY <1>1, <1>2, <2>1, <3>1 DEF Stacked
  <2>2. CASE i = Len(st) + 1
    <3>1. Append(st, e)[i] = e /\ e.out = n
      BY <1>1, <1>2, <2>2
    <3>2. \A j \in 1 .. i : j \in 1 .. Len(st) \/ j = Len(st) + 1
      BY <1>1, <2>2
    <3> QED
      BY <1>1, <3>1, <3>2 DEF Stacked
  <2> QED
    BY <1>1, <2>1, <2>2
<1>3. Fitting(Append(st, e))
  BY <1>1 DEF Fitting
<1> QED
  BY <1>1, <1>2, <1>3 DEF Stacked

LEMMA StackedCut ==
  ASSUME NEW st \in Seq(EntryOf), NEW n \in Nat, Stacked(st, n), Fitting(st), st # <<>>
  PROVE  /\ SubSeq(st, 1, Len(st) - 1) \in Seq(EntryOf)
         /\ Len(SubSeq(st, 1, Len(st) - 1)) = Len(st) - 1 /\ Len(st) \in Nat \ {0}
         /\ Stacked(SubSeq(st, 1, Len(st) - 1), n) /\ Fitting(SubSeq(st, 1, Len(st) - 1))
         /\ st[Len(st)] \in EntryOf /\ EntryFits(st[Len(st)])
         /\ Marked(st[Len(st)]) => /\ st[Len(st)].out \in Nat /\ st[Len(st)].out <= n
                                   /\ Stacked(SubSeq(st, 1, Len(st) - 1), st[Len(st)].out)
<1>1. /\ Len(st) \in Nat \ {0} /\ Len(st) \in DOMAIN st /\ st[Len(st)] \in EntryOf
      /\ Len(st) - 1 \in Nat /\ Len(st) - 1 <= Len(st) /\ DOMAIN st = 1 .. Len(st)
  BY LastOf, LenProperties
<1>2. /\ SubSeq(st, 1, Len(st) - 1) \in Seq(EntryOf)
      /\ Len(SubSeq(st, 1, Len(st) - 1)) = Len(st) - 1
      /\ \A i \in DOMAIN SubSeq(st, 1, Len(st) - 1) :
           i \in DOMAIN st /\ i <= Len(st) - 1 /\ SubSeq(st, 1, Len(st) - 1)[i] = st[i]
  BY <1>1, Cut
<1>3. DOMAIN SubSeq(st, 1, Len(st) - 1) = 1 .. Len(st) - 1
  BY <1>2, LenProperties
<1>4. ASSUME NEW i \in 1 .. Len(st) - 1
      PROVE  i \in DOMAIN st /\ \A j \in 1 .. i : j \in DOMAIN SubSeq(st, 1, Len(st) - 1)
  BY <1>1, <1>3
<1>5. Stacked(SubSeq(st, 1, Len(st) - 1), n) /\ Fitting(SubSeq(st, 1, Len(st) - 1))
  BY <1>2, <1>3, <1>4 DEF Stacked, Fitting
<1>6. ASSUME Marked(st[Len(st)])
      PROVE  /\ st[Len(st)].out \in Nat /\ st[Len(st)].out <= n
             /\ Stacked(SubSeq(st, 1, Len(st) - 1), st[Len(st)].out)
  <2>1. \A i \in 1 .. Len(st) : Marked(st[i]) => st[i].out <= st[Len(st)].out
    BY <1>1, <1>6 DEF Stacked
  <2>2. \A i \in DOMAIN SubSeq(st, 1, Len(st) - 1) :
          Marked(SubSeq(st, 1, Len(st) - 1)[i])
            => SubSeq(st, 1, Len(st) - 1)[i].out <= st[Len(st)].out
    BY <1>1, <1>2, <2>1
  <2> QED
    BY <1>1, <1>5, <1>6, <2>2, StackedTight DEF Stacked, EntryOf
<1> QED
  BY <1>1, <1>2, <1>5, <1>6 DEF Fitting

-----------------------------------------------------------------------------
(* The code of an expression.                                              *)

LEMMA OpsLonger ==
  ASSUME NEW os \in Seq(Op), NEW n, NEW nt, NEW np, OpsWithin(os, n, nt, np),
         NEW o \in Op, OpWithin(o, n, nt, np), Len(os) < Scratch
  PROVE  /\ Append(os, o) \in Seq(Op) /\ Len(Append(os, o)) = Len(os) + 1
         /\ Len(Append(os, o)) <= Scratch /\ OpsWithin(Append(os, o), n, nt, np)
<1>1. /\ Append(os, o) \in Seq(Op) /\ Len(Append(os, o)) = Len(os) + 1 /\ Len(os) \in Nat
      /\ \A i \in DOMAIN Append(os, o) :
           \/ i \in DOMAIN os /\ Append(os, o)[i] = os[i]
           \/ i = Len(os) + 1 /\ Append(os, o)[i] = o
  BY Appended
<1>2. Len(Append(os, o)) <= Scratch
  BY <1>1, ExprParseAssumption
<1> QED
  BY <1>1, <1>2 DEF OpsWithin

LEMMA OperatorOps ==
  /\ \A k \in UnaryKinds, n \in Spelling \cup {NoName} : FFIOp("unary", k, n) \in Op
  /\ \A k \in BinaryKinds, n \in Spelling \cup {NoName} : FFIOp("binary", k, n) \in Op
  /\ UnaryOp("negate") \in Op /\ UnaryOp("parens") \in Op
  /\ \A k \in BinaryKinds : BinaryOp(k) \in Op
  /\ \A n, nt, np : /\ \A k, m : /\ OpWithin(FFIOp("unary", k, m), n, nt, np)
                                 /\ OpWithin(FFIOp("binary", k, m), n, nt, np)
                    /\ \A k : OpWithin(UnaryOp(k), n, nt, np) /\ OpWithin(BinaryOp(k), n, nt, np)
BY DEF FFIOp, UnaryOp, BinaryOp, Op, OpWithin, UnaryKinds

\* Operations go into the pool, and with them the parameters of a closure.
LEMMA OpsPlaced ==
  ASSUME PoolsHeld, NEW os \in Seq(Op), OpsWithin(os, Len(ops), Len(terms), Len(params)),
         NEW over \in Seq(Spelling), ops' = ops \o os, params' = params \o over \/ params' = params,
         terms' = terms, known' = known
  PROVE  /\ PoolsHeld' /\ Grown /\ Len(ops') = Len(ops) + Len(os)
         /\ params' = params \o over => Len(params') = Len(params) + Len(over)
<1>1. /\ terms \in Seq(Term) /\ TermsBack(terms) /\ OpsBack(ops, Len(terms), Len(params))
      /\ ops \in Seq(Op) /\ params \in Seq(Spelling) /\ known \subseteq Spelling
  BY DEF PoolsHeld
<1>2. Len(terms) \in Nat /\ Len(os) \in Nat /\ Len(params) \in Nat /\ Len(ops) \in Nat
      /\ Len(over) \in Nat /\ DOMAIN ops = 1 .. Len(ops)
  BY <1>1, LenProperties
<1>3. /\ ops' \in Seq(Op) /\ Len(ops') = Len(ops) + Len(os)
      /\ \A i \in DOMAIN ops' :
           \/ i \in DOMAIN ops /\ ops'[i] = ops[i]
           \/ i \in Nat /\ i > Len(ops) /\ i - Len(ops) \in DOMAIN os
              /\ ops'[i] = os[i - Len(ops)]
  BY <1>1, Joined
<1>4. /\ params' \in Seq(Spelling) /\ Len(params') \in Nat /\ Len(params) <= Len(params')
      /\ params' = params \o over => Len(params') = Len(params) + Len(over)
  <2>1. params \o over \in Seq(Spelling) /\ Len(params \o over) = Len(params) + Len(over)
    BY <1>1, Joined
  <2>2. PICK n \in Nat, m \in Nat : n = Len(params) /\ m = Len(over)
    BY <1>2
  <2>3. CASE params' = params \o over
    BY ONLY <2>1, <2>2, <2>3
  <2>4. CASE params' = params /\ params' # params \o over
    BY ONLY <1>1, <2>2, <2>4
  <2> QED
    BY <2>3, <2>4
<1>5. OpsBack(ops', Len(terms), Len(params'))
  <2> SUFFICES ASSUME NEW i \in DOMAIN ops'
               PROVE  OpWithin(ops'[i], i - 1, Len(terms), Len(params'))
    BY DEF OpsBack
  <2>1. CASE i \in DOMAIN ops /\ ops'[i] = ops[i]
    <3>1. ops[i] \in Op /\ i - 1 \in Nat
      BY <1>1, <1>2, <2>1, ElementOfSeq
    <3>2. OpWithin(ops[i], i - 1, Len(terms), Len(params))
      BY <1>1, <2>1 DEF OpsBack
    <3> QED
      BY <1>2, <1>4, <2>1, <3>1, <3>2, OpWithinMore
  <2>2. CASE i \in Nat /\ i > Len(ops) /\ i - Len(ops) \in DOMAIN os
             /\ ops'[i] = os[i - Len(ops)]
    <3>1. ops'[i] \in Op /\ OpWithin(ops'[i], Len(ops), Len(terms), Len(params))
      BY <2>2, LenProperties, ElementOfSeq DEF OpsWithin
    <3>2. i - 1 \in Nat /\ Len(ops) <= i - 1
      BY <1>2, <2>2
    <3> QED
      BY <1>2, <1>4, <3>1, <3>2, OpWithinMore
  <2> QED
    BY <1>3, <2>1, <2>2
<1>6. TermsBack(terms') /\ OpsBack(ops', Len(terms'), Len(params'))
  BY <1>1, <1>5
<1>7. PoolsHeld'
  BY <1>1, <1>3, <1>4, <1>6 DEF PoolsHeld
<1>8. Grown
  BY <1>2, <1>3, <1>4 DEF Grown
<1> QED
  BY <1>3, <1>4, <1>7, <1>8

\* A closure is cut out of the code, and stands for what was there.
LEMMA BodyMoved ==
  ASSUME PoolsHeld, NEW code \in Seq(Op), OpsWithin(code, Len(ops), Len(terms), Len(params)),
         NEW from \in Nat, from <= Len(code),
         NEW over \in Seq(Spelling), Len(over) \in 0 .. 1,
         MoveBody(code, from, over), terms' = terms, known' = known
  PROVE  /\ PoolsHeld' /\ Grown /\ ClosingOver(code, from, over) \in Codes
         /\ OpsWithin(code, Len(ops'), Len(terms'), Len(params'))
         /\ ClosingOver(code, from, over) = "OK" =>
              /\ ClosedOver(code, from, over) \in Seq(Op)
              /\ Len(ClosedOver(code, from, over)) = from + 1
              /\ Len(ClosedOver(code, from, over)) <= Scratch
              /\ OpsWithin(ClosedOver(code, from, over), Len(ops'), Len(terms'), Len(params'))
<1> DEFINE moved == SubSeq(code, from + 1, Len(code))
           kept == SubSeq(code, 1, from)
<1>1. /\ moved \in Seq(Op) /\ Len(moved) = Len(code) - from
      /\ \A i \in DOMAIN moved : from + i \in DOMAIN code /\ moved[i] = code[from + i]
  BY CutEnd
<1>2. /\ kept \in Seq(Op) /\ Len(kept) = from
      /\ \A i \in DOMAIN kept : i \in DOMAIN code /\ i <= from /\ kept[i] = code[i]
  BY Cut
<1>3. OpsWithin(moved, Len(ops), Len(terms), Len(params))
      /\ OpsWithin(kept, Len(ops), Len(terms), Len(params))
  BY <1>1, <1>2 DEF OpsWithin
<1>4. Len(code) \in Nat /\ Len(ops) \in Nat /\ Len(params) \in Nat /\ Len(terms) \in Nat
      /\ Scratch \in Nat
  BY PoolSizes, LenProperties, ExprParseAssumption
<1>5. ClosingOver(code, from, over) \in Codes
  BY DEF ClosingOver, Codes
<1>6. CASE ~BodyFits(code, from)
  <2>1. UNCHANGED <<terms, ops, params, known>>
    BY <1>6 DEF MoveBody
  <2>2. ClosingOver(code, from, over) # "OK"
    BY <1>6 DEF ClosingOver
  <2> QED
    BY <1>5, <2>1, <2>2, PoolsKept DEF PoolsHeld
<1>7. CASE BodyFits(code, from)
  <2>1. ops' = ops \o moved /\ (params' = params \o over \/ params' = params)
        /\ (ParamsFit(over) => params' = params \o over)
    BY <1>7 DEF MoveBody
  <2>2. /\ PoolsHeld' /\ Grown /\ Len(ops') = Len(ops) + Len(moved)
        /\ params' = params \o over => Len(params') = Len(params) + Len(over)
    BY <1>1, <1>3, <2>1, OpsPlaced
  <2>3. /\ OpsWithin(code, Len(ops'), Len(terms'), Len(params'))
        /\ OpsWithin(kept, Len(ops'), Len(terms'), Len(params'))
    BY <1>2, <1>3, <2>2, OpsWithinMore DEF Grown
  <2>4. ASSUME ClosingOver(code, from, over) = "OK"
        PROVE  /\ ClosedOver(code, from, over) \in Seq(Op)
               /\ Len(ClosedOver(code, from, over)) = from + 1
               /\ Len(ClosedOver(code, from, over)) <= Scratch
               /\ OpsWithin(ClosedOver(code, from, over), Len(ops'), Len(terms'), Len(params'))
    <3>1. ParamsFit(over) /\ ~(from >= Scratch)
      BY <2>4 DEF ClosingOver
    <3>2. Len(params') = Len(params) + Len(over) /\ Len(ops') = Len(ops) + (Len(code) - from)
      BY <1>1, <2>1, <2>2, <3>1
    <3>3. ClosureOp(code, from, over) \in Op
      BY <1>4 DEF ClosureOp, Op
    <3>4. OpWithin(ClosureOp(code, from, over), Len(ops'), Len(terms'), Len(params'))
      BY <1>4, <3>2 DEF ClosureOp, OpWithin
    <3>5. Len(kept) < Scratch
      BY <1>2, <1>4, <3>1
    <3> QED
      BY <1>2, <2>3, <3>3, <3>4, <3>5, OpsLonger DEF ClosedOver
  <2> QED
    BY <1>5, <2>2, <2>3, <2>4
<1> QED
  BY <1>6, <1>7

-----------------------------------------------------------------------------
(* Expressions (140_parse.inc:485-878).                                    *)

LEMMA Signs ==
  \A p \in Binary : KindOf(p) \in BinaryKinds /\ Precedence(p) \in 0 .. UnaryLevel
<1> SUFFICES ASSUME NEW p \in Binary
             PROVE  KindOf(p) \in BinaryKinds /\ Precedence(p) \in 0 .. UnaryLevel
  OBVIOUS
<1>1. PICK n \in DOMAIN Levels : p \in Levels[n]
  BY DEF Binary
<1>2. DOMAIN Levels = 1 .. 8
  BY DEF Levels
<1>3. Precedence(p) \in DOMAIN Levels
  BY <1>1 DEF Precedence
<1>4. Precedence(p) \in 0 .. UnaryLevel
  BY <1>2, <1>3 DEF UnaryLevel
<1>5. \E o \in Operators : o[1] = p
  <2>1. n \in {1, 2, 3, 4, 5, 6, 7, 8}
    BY <1>1, <1>2
  <2>2. p \in {"||", "||!", "&&", "&&!", "<", ">", "<=", ">=", "===", "!==", "==", "!=",
               "^", "|", "&", "+", "-", "*", "/"}
    BY <1>1, <2>1 DEF Levels
  <2> QED
    BY <2>2 DEF Operators
<1>6. KindOf(p) \in {o[2] : o \in Operators}
  BY <1>5 DEF KindOf
<1> QED
  BY <1>4, <1>6 DEF BinaryKinds

\* What is known of the code and of the stack.
LEMMA CodeIs ==
  ASSUME ParseIInv
  PROVE  /\ out \in Seq(Op) /\ Len(out) \in Nat /\ Len(out) <= Scratch
         /\ OpsWithin(out, Len(ops), Len(terms), Len(params))
         /\ stack \in Seq(EntryOf) /\ Len(stack) \in Nat /\ Len(stack) <= MaxDepth
         /\ Stacked(stack, Len(out)) /\ Fitting(stack)
         /\ operand_at \in Nat /\ last_prec \in 0 .. UnaryLevel
         /\ method \in MethodOf /\ CallFits(method)
         /\ run \in Run /\ run.at + run.count <= Len(ops)
         /\ MaxDepth \in Nat /\ Scratch \in Nat
         /\ HostHeld /\ ReaderHeld /\ PoolsHeld
BY StackIs, LenProperties, ExprParseAssumption DEF ParseIInv, CodeHeld, CodePending

LEMMA CodeAfter ==
  ASSUME ParseIInv, Grown
  PROVE  /\ OpsWithin(out, Len(ops'), Len(terms'), Len(params'))
         /\ run.at + run.count <= Len(ops')
<1>1. OpsWithin(out, Len(ops'), Len(terms'), Len(params'))
  BY OpsWithinMore DEF ParseIInv, CodeHeld, CodePending, Grown
<1>2. run.at \in Nat /\ run.count \in Nat
  BY CodeIs DEF Run
<1> QED
  BY <1>1, <1>2, CodeIs DEF Grown

\* A turn that leaves the term being read alone.
LEMMA CodeTurn ==
  ASSUME ParseIInv, UNCHANGED <<Elsewhere, termVars>>, ReaderHeld', PoolsHeld', Grown,
         out' \in Seq(Op), Len(out') <= Scratch,
         OpsWithin(out', Len(ops'), Len(terms'), Len(params')),
         stack' \in Seq(EntryOf), Len(stack') <= MaxDepth, Stacked(stack', Len(out')),
         Fitting(stack'), operand_at' \in Nat, last_prec' \in 0 .. UnaryLevel,
         method' \in MethodOf, CallFits(method'), run' \in Run, run'.at + run'.count <= Len(ops'),
         ControlHeld', TermPlaced', ExprPlaced', FormPlaced'
  PROVE  ParseIInv'
<1>1. CodeHeld'
  <2>1. CallFits(method)'
    BY DEF CallFits
  <2> QED
    BY <2>1, StackWillBe DEF CodeHeld
<1>2. CodePending'
  BY DEF CodePending, OpsWithin
<1>3. TermsHeld'
  BY DEF ParseIInv, TermsHeld, FramesOrdered, termVars
<1>4. TermsPending'
  BY TermsStillPending DEF ParseIInv, termVars, Elsewhere, bodyVars
<1>5. HostHeld' /\ BodyHeld' /\ StatementHeld' /\ ClausePending' /\ WorldHeld'
      /\ WorldWithin' /\ AllAsk' /\ QueriesHeld'
  BY ElsewhereHeld
<1> QED
  BY <1>1, <1>2, <1>3, <1>4, <1>5 DEF ParseIInv

\* What a method is called on is the last of the code.
ReceiverAt(st, n, l) == n < l /\ \A i \in DOMAIN st : Marked(st[i]) => st[i].out <= n

LEMMA CodePlaced ==
  ASSUME ParseIInv, pc \in ExprPlaces, UNCHANGED Elsewhere,
         NEW place \in ExprPlaces, place # "operand", Ends \/ Goes(place),
         Goes(place) => /\ place \in CallPlaces => ReceiverAt(stack', operand_at', Len(out'))
                        /\ place \in {"named", "called"} => method'.tag # "none"
                        /\ place = "binary" => AtBinary'
  PROVE  ControlHeld' /\ TermPlaced' /\ ExprPlaced' /\ FormPlaced'
<1>1. ControlHeld'
  <2>1. pc # "stopped"
    BY DEF ExprPlaces, CallPlaces
  <2> QED
    BY <2>1, ControlKept DEF ParseIInv, Places
<1>2. CASE Ends
  BY <1>1, <1>2, EndsPlaced
<1>3. CASE Goes(place)
  <2>1. TermPlaced'
    BY <1>3 DEF TermPlaced, TermPlaces, ExprPlaces, CallPlaces, Goes
  <2>2. ExprPlaced'
    BY <1>3 DEF ExprPlaced, ReceiverLast, ReceiverAt, TermPlaces, ExprPlaces, CallPlaces, Goes
  <2>3. FormPlaced'
    BY <1>3 DEF ParseIInv, FormPlaced, TermPlaces, ExprPlaces, CallPlaces, BodyPlaces,
                ArgumentPlaces, ClausePlaces, Goes, IsHead, Elsewhere, statementVars, bodyVars
  <2> QED
    BY <1>1, <2>1, <2>2, <2>3
<1> QED
  BY <1>2, <1>3

LEMMA ReceiverIs ==
  ASSUME ParseIInv, pc \in CallPlaces
  PROVE  pc \in ExprPlaces /\ ReceiverAt(stack, operand_at, Len(out))
BY DEF ParseIInv, ExprPlaced, ReceiverLast, ReceiverAt, ExprPlaces

\* A turn that only looks at the token at hand.
LEMMA CodeUntouched ==
  ASSUME ParseIInv, pc \in ExprPlaces, UNCHANGED <<Elsewhere, poolVars, termVars, exprVars>>,
         ReaderHeld', NEW place \in ExprPlaces, place # "operand", Ends \/ Goes(place),
         place \in CallPlaces => pc \in CallPlaces,
         place \in {"named", "called"} => method.tag # "none",
         Goes(place) /\ place = "binary" => AtBinary'
  PROVE  ParseIInv'
<1>1. UNCHANGED <<terms, ops, params, known, out, stack, operand_at, last_prec, method, run>>
  BY DEF poolVars, exprVars
<1>2. PoolsHeld' /\ Grown
  BY <1>1, PoolsKept DEF ParseIInv, PoolsHeld
<1>3. place \in CallPlaces => ReceiverAt(stack', operand_at', Len(out'))
  BY <1>1, ReceiverIs
<1>4. ControlHeld' /\ TermPlaced' /\ ExprPlaced' /\ FormPlaced'
  BY <1>1, <1>3, CodePlaced
<1> QED
  BY <1>1, <1>2, <1>4, CodeIs, CodeTurn

LEMMA LookingKeeps ==
  ASSUME ParseIInv, UNCHANGED Elsewhere,
         \/ Dot \/ OpenCall \/ StartClosing \/ CloseNothing \/ RefuseChain \/ StartBinary
         \/ StartEnding \/ LeaveOpen
  PROVE  ParseIInv'
<1>1. {"have", "dot", "named", "called", "closing", "binary", "ending"} \subseteq ExprPlaces
      /\ {"have", "dot", "named", "called"} = CallPlaces
  BY DEF ExprPlaces, CallPlaces
<1>2. HostHeld /\ ReaderHeld /\ "MALFORMED" \in Codes
  BY DEF ParseIInv, Codes
<1>3. CASE Dot
  <2>1. pc = "have" /\ UNCHANGED <<poolVars, termVars, exprVars>> /\ Fetch("dot")
    BY <1>3 DEF Dot
  <2>2. ReaderHeld' /\ (Ends \/ Goes("dot"))
    BY <1>2, <2>1, FetchedNext
  <2> QED
    BY <1>1, <2>1, <2>2, CodeUntouched
<1>4. CASE OpenCall
  <2>1. pc = "named" /\ UNCHANGED <<poolVars, termVars, exprVars>>
        /\ (Fetch("called") \/ Halt("MALFORMED"))
    BY <1>4 DEF OpenCall
  <2>2. ReaderHeld' /\ (Ends \/ Goes("called"))
    BY <1>2, <2>1, FetchedNext, Halted
  <2>3. method.tag # "none"
    BY <2>1 DEF ParseIInv, ExprPlaced
  <2> QED
    BY <1>1, <2>1, <2>2, <2>3, CodeUntouched
<1>5. CASE StartClosing
  <2>1. pc = "have" /\ UNCHANGED <<poolVars, termVars, exprVars>> /\ Stay("closing")
    BY <1>5 DEF StartClosing
  <2>2. ReaderHeld' /\ Goes("closing")
    BY <1>2, <2>1, Stayed
  <2> QED
    BY <1>1, <2>1, <2>2, CodeUntouched DEF CallPlaces
<1>6. CASE CloseNothing
  <2>1. pc = "closing" /\ UNCHANGED <<poolVars, termVars, exprVars>> /\ Halt("MALFORMED")
    BY <1>6 DEF CloseNothing
  <2>2. ReaderHeld' /\ Ends
    BY <1>2, <2>1, Halted
  <2> QED
    BY <1>1, <2>1, <2>2, CodeUntouched DEF CallPlaces
<1>7. CASE RefuseChain
  <2>1. pc = "have" /\ UNCHANGED <<poolVars, termVars, exprVars>> /\ Halt("MALFORMED")
    BY <1>7 DEF RefuseChain
  <2>2. ReaderHeld' /\ Ends
    BY <1>2, <2>1, Halted
  <2> QED
    BY <1>1, <2>1, <2>2, CodeUntouched
<1>8. CASE StartBinary
  <2>1. pc = "have" /\ UNCHANGED <<poolVars, termVars, exprVars>> /\ Stay("binary") /\ AtBinary
    BY <1>8 DEF StartBinary
  <2>2. ReaderHeld' /\ Goes("binary") /\ tok' = tok
    BY <1>2, <2>1, Stayed
  <2>3. AtBinary'
    BY <2>1, <2>2 DEF AtBinary
  <2> QED
    BY <1>1, <2>1, <2>2, <2>3, CodeUntouched DEF CallPlaces
<1>9. CASE StartEnding
  <2>1. pc = "have" /\ UNCHANGED <<poolVars, termVars, exprVars>> /\ Stay("ending")
    BY <1>9 DEF StartEnding
  <2>2. ReaderHeld' /\ Goes("ending")
    BY <1>2, <2>1, Stayed
  <2> QED
    BY <1>1, <2>1, <2>2, CodeUntouched DEF CallPlaces
<1>10. CASE LeaveOpen
  <2>1. pc = "ending" /\ UNCHANGED <<poolVars, termVars, exprVars>> /\ Halt("MALFORMED")
    BY <1>10 DEF LeaveOpen
  <2>2. ReaderHeld' /\ Ends
    BY <1>2, <2>1, Halted
  <2> QED
    BY <1>1, <2>1, <2>2, CodeUntouched DEF CallPlaces
<1> QED
  BY <1>3, <1>4, <1>5, <1>6, <1>7, <1>8, <1>9, <1>10

LEMMA PushHeld ==
  ASSUME ParseIInv, ~Deep, NEW e \in EntryOf, EntryFits(e), e.out = Len(out) \/ ~Marked(e),
         stack' = Append(stack, e)
  PROVE  /\ stack' \in Seq(EntryOf) /\ Len(stack') <= MaxDepth
         /\ Stacked(stack', Len(out)) /\ Fitting(stack')
<1>1. /\ stack' \in Seq(EntryOf) /\ Len(stack') = Len(stack) + 1
      /\ Stacked(stack', Len(out)) /\ Fitting(stack')
  BY CodeIs, StackedPush
<1>2. Len(stack') <= MaxDepth
  <2>1. Len(stack) < MaxDepth /\ Len(stack) \in Nat /\ MaxDepth \in Nat
    BY CodeIs DEF Deep
  <2> QED
    BY ONLY <1>1, <2>1
<1> QED
  BY <1>1, <1>2

\* A turn that opens something, or puts an operator by.
LEMMA PushKeeps ==
  ASSUME ParseIInv, pc \in ExprPlaces, ~Deep,
         UNCHANGED <<Elsewhere, termVars, terms, ops, params, out, operand_at, method, run>>,
         known' \subseteq Spelling, NEW e \in EntryOf, EntryFits(e), e.out = Len(out) \/ ~Marked(e),
         NEW level \in 0 .. UnaryLevel, Push(e, level), ReaderHeld', Ends \/ Goes("want")
  PROVE  ParseIInv'
<1>1. /\ stack' \in Seq(EntryOf) /\ Len(stack') <= MaxDepth
      /\ Stacked(stack', Len(out)) /\ Fitting(stack') /\ last_prec' = level
  BY PushHeld DEF Push
<1>2. PoolsHeld' /\ Grown
  BY PoolsKept DEF ParseIInv
<1>3. "want" \in ExprPlaces /\ "want" \notin CallPlaces \cup {"operand", "named", "called",
       "binary"}
  BY DEF ExprPlaces, CallPlaces
<1>4. ControlHeld' /\ TermPlaced' /\ ExprPlaced' /\ FormPlaced'
  BY <1>3, CodePlaced
<1>5. UNCHANGED <<terms, ops, params, out, operand_at, method, run>>
  OBVIOUS
<1>6. UNCHANGED <<Elsewhere, termVars>>
  OBVIOUS
<1> QED
  BY <1>1, <1>2, <1>4, <1>5, <1>6, CodeIs, CodeTurn

\* A turn that is refused before anything has changed.
LEMMA RefusedKeeps ==
  ASSUME ParseIInv, pc \in ExprPlaces, UNCHANGED <<Elsewhere, poolVars, termVars, exprVars>>,
         NEW code \in Codes, Halt(code)
  PROVE  ParseIInv'
<1>1. ReaderHeld' /\ Ends
  BY Halted DEF ParseIInv
<1>2. "want" \in ExprPlaces /\ "want" \notin CallPlaces
  BY DEF ExprPlaces, CallPlaces
<1> QED
  BY <1>1, <1>2, CodeUntouched

LEMMA EntriesFit ==
  /\ Entry("unary", "!", 0, NoName) \in EntryOf /\ EntryFits(Entry("unary", "!", 0, NoName))
  /\ ~Marked(Entry("unary", "!", 0, NoName))
  /\ \A n \in Nat :
       /\ Entry("paren", "(", n, NoName) \in EntryOf /\ EntryFits(Entry("paren", "(", n, NoName))
       /\ \A t \in Spelling : /\ Entry("closure", "->", n, t) \in EntryOf
                              /\ EntryFits(Entry("closure", "->", n, t))
       /\ \A p \in Binary : /\ Entry("binary", p, n, NoName) \in EntryOf
                            /\ EntryFits(Entry("binary", p, n, NoName))
       /\ \A m \in Methods \cup {"ffi"}, t \in Spelling \cup {NoName} :
            /\ Entry("method", m, n, t) \in EntryOf
            /\ EntryFits(Entry("method", m, n, t))
       /\ \A what, sign, t : Entry(what, sign, n, t).out = n
BY DEF Entry, EntryOf, EntryFits, Marked

LEMMA WantPlaced == {"want", "operand", "closing", "binary", "ending"} \subseteq ExprPlaces
BY DEF ExprPlaces

LEMMA NegationKeeps ==
  ASSUME ParseIInv, Negation, UNCHANGED Elsewhere
  PROVE  ParseIInv'
<1>1. pc \in ExprPlaces /\ UNCHANGED <<poolVars, termVars, out, operand_at, method, run>>
      /\ UNCHANGED <<terms, ops, params, known>>
  BY WantPlaced DEF Negation, poolVars
<1>2. CASE Halt("DEPTH") /\ UNCHANGED <<stack, last_prec>>
  BY <1>1, <1>2, RefusedKeeps DEF exprVars, Codes
<1>3. CASE ~Deep /\ Fetch("want") /\ Push(Entry("unary", "!", 0, NoName), last_prec)
  <2>1. ReaderHeld' /\ (Ends \/ Goes("want"))
    BY <1>3, FetchedNext DEF ParseIInv
  <2>2. last_prec \in 0 .. UnaryLevel /\ known' \subseteq Spelling
    BY <1>1 DEF ParseIInv, CodeHeld, PoolsHeld
  <2> QED
    BY <1>1, <1>3, <2>1, <2>2, EntriesFit, PushKeeps
<1> QED
  BY <1>2, <1>3 DEF Negation

LEMMA OpenParenKeeps ==
  ASSUME ParseIInv, OpenParen, UNCHANGED Elsewhere
  PROVE  ParseIInv'
<1>1. pc \in ExprPlaces /\ UNCHANGED <<poolVars, termVars, out, operand_at, method, run>>
      /\ UNCHANGED <<terms, ops, params, known>>
  BY WantPlaced DEF OpenParen, poolVars
<1>2. CASE Halt("DEPTH") /\ UNCHANGED <<stack, last_prec>>
  BY <1>1, <1>2, RefusedKeeps DEF exprVars, Codes
<1>3. CASE ~Deep /\ Fetch("want") /\ Push(Entry("paren", "(", Len(out), NoName), 0)
  <2>1. ReaderHeld' /\ (Ends \/ Goes("want"))
    BY <1>3, FetchedNext DEF ParseIInv
  <2>2. 0 \in 0 .. UnaryLevel /\ known' \subseteq Spelling /\ Len(out) \in Nat
    BY <1>1, CodeIs DEF ParseIInv, UnaryLevel, PoolsHeld
  <2> QED
    BY <1>1, <1>3, <2>1, <2>2, EntriesFit, PushKeeps
<1> QED
  BY <1>2, <1>3 DEF OpenParen

LEMMA OpenClosureKeeps ==
  ASSUME ParseIInv, OpenClosure, UNCHANGED Elsewhere
  PROVE  ParseIInv'
<1>1. pc \in ExprPlaces /\ UNCHANGED <<terms, ops, params, termVars, out, operand_at, method, run>>
  BY WantPlaced DEF OpenClosure
<1>2. CASE (Halt("DEPTH") \/ Halt("NOMEM")) /\ UNCHANGED <<known, stack, last_prec>>
  BY <1>1, <1>2, RefusedKeeps DEF exprVars, poolVars, Codes
<1>3. CASE /\ ~Deep /\ Interns(tok.text)
           /\ FetchFrom(Behind(pos, FALSE), FALSE, "want", "OK")
           /\ known' = known \cup {tok.text}
           /\ Push(Entry("closure", "->", Len(out), tok.text), 0)
  <2>1. Behind(pos, FALSE) \in Nat \ {0} /\ tok.text \in Spelling
    BY TokenRead DEF ParseIInv, HostHeld, ReaderHeld, Token
  <2>2. ReaderHeld' /\ (Ends \/ Goes("want"))
    BY <1>3, <2>1, Fetched DEF ParseIInv, Codes
  <2>3. 0 \in 0 .. UnaryLevel /\ known' \subseteq Spelling /\ Len(out) \in Nat
    BY <1>3, <2>1, CodeIs DEF ParseIInv, UnaryLevel, PoolsHeld
  <2> QED
    BY <1>1, <1>3, <2>1, <2>2, <2>3, EntriesFit, PushKeeps
<1> QED
  BY <1>2, <1>3 DEF OpenClosure

LEMMA PushBinaryKeeps ==
  ASSUME ParseIInv, PushBinary, UNCHANGED Elsewhere
  PROVE  ParseIInv'
<1>1. pc \in ExprPlaces /\ UNCHANGED <<poolVars, termVars, out, operand_at, method, run>>
      /\ UNCHANGED <<terms, ops, params, known>>
  BY WantPlaced DEF PushBinary, poolVars
<1>2. CASE Halt("DEPTH") /\ UNCHANGED <<stack, last_prec>>
  BY <1>1, <1>2, RefusedKeeps DEF exprVars, Codes
<1>3. CASE /\ ~Deep /\ Fetch("want")
           /\ Push(Entry("binary", tok.text, Len(out), NoName), Precedence(tok.text))
  <2>1. ReaderHeld' /\ (Ends \/ Goes("want"))
    BY <1>3, FetchedNext DEF ParseIInv
  <2>2. tok.text \in Binary
    BY DEF PushBinary, ParseIInv, ExprPlaced, AtBinary
  <2>3. Precedence(tok.text) \in 0 .. UnaryLevel /\ known' \subseteq Spelling /\ Len(out) \in Nat
    BY <1>1, <2>2, CodeIs, Signs DEF ParseIInv, PoolsHeld
  <2> QED
    BY <1>1, <1>3, <2>1, <2>2, <2>3, EntriesFit, PushKeeps
<1> QED
  BY <1>2, <1>3 DEF PushBinary

LEMMA TermCalled ==
  ASSUME TermsHeld, NEW place \in {"operand", "argument"}, CallTerm(place), value' = value
  PROVE  TermsHeld' /\ (\A n : TermsWithin(items', n)) /\ back' = place /\ pc' = "term"
<1>1. items' = <<>> /\ frames' = <<>> /\ back' = place /\ pc' = "term"
  BY DEF CallTerm
<1>2. Len(items') = 0 /\ Len(frames') = 0 /\ items' \in Seq(Term) /\ frames' \in Seq(FrameOf)
      /\ DOMAIN items' = {} /\ DOMAIN frames' = {}
  BY <1>1, LenProperties, EmptySeq
<1>3. FramesOrdered' /\ \A n : TermsWithin(items', n)
  BY <1>2 DEF FramesOrdered, TermsWithin
<1> QED
  BY <1>1, <1>2, <1>3, ExprParseAssumption DEF TermsHeld

LEMMA StartOperandKeeps ==
  ASSUME ParseIInv, StartOperand, UNCHANGED Elsewhere
  PROVE  ParseIInv'
<1>1. pc \in ExprPlaces /\ UNCHANGED <<poolVars, out, stack, last_prec, method, run>>
      /\ UNCHANGED <<terms, ops, params, known>> /\ operand_at' = Len(out)
  BY WantPlaced DEF StartOperand, poolVars
<1>2. PoolsHeld' /\ Grown
  BY <1>1, PoolsKept DEF ParseIInv, PoolsHeld
<1>3. CodeHeld'
  <2>1. UNCHANGED <<out, stack, last_prec, method, run>> /\ operand_at' \in Nat
    BY <1>1, CodeIs
  <2> QED
    BY <2>1 DEF ParseIInv, CodeHeld, StackOrdered, StackFits
<1>4. CodePending'
  BY <1>1, <1>2, CodeStillPending DEF ParseIInv
<1>5. HostHeld' /\ BodyHeld' /\ StatementHeld' /\ ClausePending' /\ WorldHeld'
      /\ WorldWithin' /\ AllAsk' /\ QueriesHeld'
  BY <1>2, ElsewhereHeld
<1>6. CASE Halt("MALFORMED") /\ UNCHANGED termVars
  <2>1. ReaderHeld' /\ Ends
    BY <1>6, Halted DEF ParseIInv, Codes
  <2>2. TermPlaced' /\ ExprPlaced' /\ FormPlaced'
    BY <2>1, EndsPlaced
  <2>3. ControlHeld'
    BY <1>1, <2>1, ControlKept DEF ParseIInv, ExprPlaces, CallPlaces
  <2>4. TermsHeld'
    BY <1>6 DEF ParseIInv, TermsHeld, FramesOrdered, termVars
  <2>5. TermsPending'
    BY <1>2, <1>6, TermsStillPending DEF ParseIInv, termVars, Elsewhere, bodyVars
  <2> QED
    BY <1>2, <1>3, <1>4, <1>5, <2>1, <2>2, <2>3, <2>4, <2>5 DEF ParseIInv
<1>7. CASE CallTerm("operand") /\ UNCHANGED <<tokenVars, status, value>>
  <2>1. TermsHeld' /\ TermsWithin(items', Len(terms')) /\ back' = "operand" /\ pc' = "term"
    BY <1>7, TermCalled DEF ParseIInv
  <2>2. TermsPending'
    BY <1>1, <1>7, <2>1 DEF ParseIInv, TermsPending, Elsewhere, bodyVars
  <2>3. ReaderHeld'
    BY <1>7 DEF ParseIInv, ReaderHeld, tokenVars
  <2>4. ControlHeld'
    BY <1>1, <1>7, <2>1 DEF ParseIInv, ControlHeld, Places, TermPlaces, ExprPlaces, CallPlaces
  <2>5. TermPlaced'
    BY <2>1 DEF TermPlaced
  <2>6. ExprPlaced'
    BY <1>1, <2>1 DEF ExprPlaced, ReceiverLast, CallPlaces, TermPlaces
  <2>7. FormPlaced'
    BY <1>1, <2>1 DEF ParseIInv, FormPlaced, TermPlaces, ExprPlaces, CallPlaces, ClausePlaces,
           ArgumentPlaces,
                      IsHead, Elsewhere, statementVars, bodyVars
  <2> QED
    BY <1>2, <1>3, <1>4, <1>5, <2>1, <2>2, <2>3, <2>4, <2>5, <2>6, <2>7 DEF ParseIInv
<1> QED
  BY <1>6, <1>7 DEF StartOperand

LEMMA NamedKeeps ==
  ASSUME ParseIInv, pc = "dot", known' \subseteq Spelling, Fetch("named"),
         UNCHANGED <<Elsewhere, termVars, terms, ops, params, out, stack, operand_at, last_prec,
                run>>,
         method' \in MethodOf, CallFits(method'), method'.tag # "none"
  PROVE  ParseIInv'
<1>1. ReaderHeld' /\ (Ends \/ Goes("named"))
  BY FetchedNext DEF ParseIInv
<1>2. PoolsHeld' /\ Grown
  BY PoolsKept DEF ParseIInv
<1>3. pc \in CallPlaces /\ "named" \in ExprPlaces
  BY DEF CallPlaces, ExprPlaces
<1>4. ReceiverAt(stack', operand_at', Len(out')) /\ pc \in ExprPlaces
  BY <1>3, ReceiverIs
<1>5. ControlHeld' /\ TermPlaced' /\ ExprPlaced' /\ FormPlaced'
  BY <1>1, <1>3, <1>4, CodePlaced
<1>6. UNCHANGED <<terms, ops, params, out, stack, operand_at, last_prec, run>>
  OBVIOUS
<1> QED
  BY <1>1, <1>2, <1>5, <1>6, CodeIs, CodeTurn

LEMMA NameExternKeeps ==
  ASSUME ParseIInv, NameExtern, UNCHANGED Elsewhere
  PROVE  ParseIInv'
<1>1. pc = "dot" /\ pc \in ExprPlaces
      /\ UNCHANGED <<terms, ops, params, termVars, out, stack, operand_at, last_prec, run>>
  BY DEF NameExtern, ExprPlaces, CallPlaces
<1>2. PICK called : called = ExternNames[tok.text]
  OBVIOUS
<1>3. CASE (Halt("MALFORMED") \/ Halt("NOMEM")) /\ UNCHANGED <<known, method>>
  BY <1>1, <1>3, RefusedKeeps DEF exprVars, poolVars, Codes
<1>4. CASE /\ called # NoName /\ known' = known \cup {called}
           /\ method' = Call("extern", "ffi", called) /\ Fetch("named")
  <2>1. called \in Spelling
    BY <1>2, <1>4, ExprParseAssumption DEF NameExtern
  <2>2. method' \in MethodOf /\ CallFits(method') /\ method'.tag # "none"
    BY <1>4, <2>1 DEF Call, MethodOf, CallFits
  <2>3. known' \subseteq Spelling
    BY <1>4, <2>1 DEF ParseIInv, PoolsHeld
  <2> QED
    BY <1>1, <1>4, <2>2, <2>3, NamedKeeps
<1> QED
  BY <1>2, <1>3, <1>4 DEF NameExtern

LEMMA NameMethodKeeps ==
  ASSUME ParseIInv, NameMethod, UNCHANGED Elsewhere
  PROVE  ParseIInv'
<1>1. pc = "dot" /\ pc \in ExprPlaces /\ UNCHANGED <<terms, ops, params, known>>
      /\ UNCHANGED <<poolVars, termVars, out, stack, operand_at, last_prec, run>>
  BY DEF NameMethod, ExprPlaces, CallPlaces, poolVars
<1>2. known' \subseteq Spelling
  BY <1>1 DEF ParseIInv, PoolsHeld
<1>3. CASE /\ tok.text \in Methods /\ Fetch("named")
           /\ method' = Call("binary", tok.text, NoName)
  <2>1. method' \in MethodOf /\ CallFits(method') /\ method'.tag # "none"
    BY <1>3 DEF Call, MethodOf, CallFits
  <2> QED
    BY <1>1, <1>2, <1>3, <2>1, NamedKeeps
<1>4. CASE /\ tok.text \in NullaryMethods /\ Fetch("named")
           /\ method' = Call("unary", NullaryKind(tok.text), NoName)
  <2>1. NullaryKind(tok.text) \in UnaryKinds
    BY <1>4 DEF NullaryKind, NullaryMethods, UnaryKinds
  <2>2. method' \in MethodOf /\ CallFits(method') /\ method'.tag # "none"
    BY <1>4, <2>1 DEF Call, MethodOf, CallFits
  <2> QED
    BY <1>1, <1>2, <1>4, <2>2, NamedKeeps
<1>5. CASE Halt("MALFORMED") /\ UNCHANGED method
  BY <1>1, <1>5, RefusedKeeps DEF exprVars, Codes
<1> QED
  BY <1>3, <1>4, <1>5 DEF NameMethod

LEMMA EmitOperandKeeps ==
  ASSUME ParseIInv, EmitOperand, UNCHANGED Elsewhere
  PROVE  ParseIInv'
<1>1. pc = "operand" /\ pc \in ExprPlaces /\ UNCHANGED <<ops, params, known, termVars>>
      /\ UNCHANGED <<stack, operand_at, last_prec, method, run>>
  BY WantPlaced DEF EmitOperand
<1>2. CASE Halt("NOMEM") /\ UNCHANGED <<terms, out>>
  BY <1>1, <1>2, RefusedKeeps DEF exprVars, poolVars, Codes
<1>3. CASE terms' = Append(terms, value)
  <2>1. value \in Term /\ TermEnds(value, Len(terms)) /\ terms \in Seq(Term) /\ Len(terms) \in Nat
    BY PoolSizes DEF ParseIInv, TermsHeld, TermsPending, PoolsHeld
  <2>2. /\ <<value>> \in Seq(Term) /\ Len(<<value>>) = 1 /\ TermsWithin(<<value>>, Len(terms))
        /\ terms' = terms \o <<value>> /\ known' \subseteq Spelling
    BY <1>1, <1>3, <2>1, AppendIsConcat DEF TermsWithin, ParseIInv, PoolsHeld
  <2>3. PoolsHeld' /\ Grown /\ Len(terms') = Len(terms) + 1
    BY <1>1, <2>2, TermsPlaced DEF ParseIInv
  <2>4. OpsWithin(out, Len(ops'), Len(terms'), Len(params')) /\ run.at + run.count <= Len(ops')
    BY <2>3, CodeAfter
  <2>5. CASE Emitting(out) # "OK" /\ Halt(Emitting(out)) /\ UNCHANGED out
    <3>1. ReaderHeld' /\ Ends
      BY <2>5, CodeIs, Halted DEF Emitting, Codes
    <3>2. ControlHeld' /\ TermPlaced' /\ ExprPlaced' /\ FormPlaced'
      BY <1>1, <3>1, ControlKept, EndsPlaced DEF ParseIInv
    <3> QED
      BY <1>1, <2>3, <2>4, <2>5, <3>1, <3>2, CodeIs, CodeTurn
  <2>6. CASE Emitting(out) = "OK" /\ Stay("have") /\ out' = Append(out, ValueOp(Len(terms)))
    <3>1. ReaderHeld' /\ Goes("have")
      BY <2>6, CodeIs, Stayed
    <3>2. ValueOp(Len(terms)) \in Op
          /\ OpWithin(ValueOp(Len(terms)), Len(ops'), Len(terms'), Len(params'))
      BY <2>1, <2>3 DEF ValueOp, Op, OpWithin
    <3>3. Len(out) < Scratch
      BY <2>6, CodeIs DEF Emitting
    <3>4. /\ out' \in Seq(Op) /\ Len(out') = Len(out) + 1 /\ Len(out') <= Scratch
          /\ OpsWithin(out', Len(ops'), Len(terms'), Len(params'))
      BY <2>4, <2>6, <3>2, <3>3, CodeIs, OpsLonger
    <3>5. operand_at = Len(out)
      BY <1>1 DEF ParseIInv, ExprPlaced
    <3>6. Len(out) \in Nat /\ Stacked(stack, Len(out)) /\ stack \in Seq(EntryOf)
      BY CodeIs
    <3>7. Len(out') \in Nat /\ Len(out) <= Len(out') /\ Len(out) < Len(out')
      BY <3>4, <3>6
    <3>8. Stacked(stack', Len(out')) /\ Fitting(stack')
      BY <1>1, <3>6, <3>7, StackedMore, CodeIs
    <3>9. ReceiverAt(stack', operand_at', Len(out'))
      BY <1>1, <3>5, <3>6, <3>7 DEF ReceiverAt, Stacked
    <3>10. "have" \in ExprPlaces /\ "have" \notin {"operand", "named", "called", "binary"}
      BY DEF ExprPlaces, CallPlaces
    <3>11. ControlHeld' /\ TermPlaced' /\ ExprPlaced' /\ FormPlaced'
      BY <1>1, <3>1, <3>9, <3>10, CodePlaced
    <3> QED
      BY <1>1, <2>3, <2>4, <3>1, <3>4, <3>8, <3>11, CodeIs, CodeTurn
  <2> QED
    BY <1>2, <2>5, <2>6 DEF EmitOperand
<1> QED
  BY <1>2, <1>3 DEF EmitOperand

LEMMA CallBareKeeps ==
  ASSUME ParseIInv, CallBare, UNCHANGED Elsewhere
  PROVE  ParseIInv'
<1>1. pc = "called" /\ pc \in ExprPlaces /\ pc \in CallPlaces /\ status = "none" /\ CallsBare
      /\ UNCHANGED <<poolVars, termVars, stack, operand_at, last_prec, method, run>>
      /\ UNCHANGED <<terms, ops, params, known>>
  BY DEF CallBare, ExprPlaces, CallPlaces, ParseIInv, ControlHeld, poolVars
<1>2. CASE Halt("MALFORMED") /\ UNCHANGED out
  BY <1>1, <1>2, RefusedKeeps DEF exprVars, Codes
<1>3. CASE /\ FetchAfterOperand("have", Emitting(out))
           /\ IF Proceeds THEN out' = Append(out, FFIOp("unary", method.kind, method.name))
              ELSE UNCHANGED out
  <2>1. ReaderHeld' /\ (Ends \/ (Goes("have") /\ Emitting(out) = "OK"))
    BY <1>3, CodeIs, FetchedAfter DEF Emitting, Codes
  <2>2. CASE Ends
    <3>1. UNCHANGED exprVars
      BY <1>1, <1>3, <2>2 DEF Proceeds, Ends, Codes, exprVars
    <3>2. "want" \in ExprPlaces /\ "want" \notin CallPlaces
      BY DEF ExprPlaces, CallPlaces
    <3> QED
      BY <1>1, <2>1, <2>2, <3>1, <3>2, CodeUntouched
  <2>3. CASE Goes("have") /\ Emitting(out) = "OK"
    <3>1. out' = Append(out, FFIOp("unary", method.kind, method.name))
      BY <1>3, <2>3 DEF Proceeds, Goes
    <3>2. method.kind \in UnaryKinds /\ method.name \in Spelling \cup {NoName}
      BY <1>1, CodeIs DEF CallsBare, CallFits, UnaryKinds, MethodOf
    <3>3. PoolsHeld' /\ Grown
      BY <1>1, PoolsKept DEF ParseIInv, PoolsHeld
    <3>4. OpsWithin(out, Len(ops'), Len(terms'), Len(params')) /\ run.at + run.count <= Len(ops')
      BY <3>3, CodeAfter
    <3>5. Len(out) < Scratch
      BY <2>3, CodeIs DEF Emitting
    <3>6. /\ out' \in Seq(Op) /\ Len(out') = Len(out) + 1 /\ Len(out') <= Scratch
          /\ OpsWithin(out', Len(ops'), Len(terms'), Len(params'))
      BY <3>1, <3>2, <3>4, <3>5, CodeIs, OperatorOps, OpsLonger
    <3>7. Len(out) \in Nat /\ Len(out') \in Nat /\ Len(out) <= Len(out') /\ operand_at \in Nat
      BY <3>6, CodeIs
    <3>8. Stacked(stack', Len(out')) /\ Fitting(stack')
      BY <1>1, <3>7, StackedMore, CodeIs
    <3>9. ReceiverAt(stack', operand_at', Len(out'))
      <4>1. ReceiverAt(stack, operand_at, Len(out))
        BY <1>1, ReceiverIs
      <4> QED
        BY <1>1, <3>7, <4>1 DEF ReceiverAt
    <3>10. "have" \in ExprPlaces /\ "have" \notin {"operand", "named", "called", "binary"}
      BY DEF ExprPlaces, CallPlaces
    <3>11. ControlHeld' /\ TermPlaced' /\ ExprPlaced' /\ FormPlaced'
      BY <1>1, <2>3, <3>9, <3>10, CodePlaced
    <3> QED
      BY <1>1, <2>1, <3>3, <3>4, <3>6, <3>8, <3>11, CodeIs, CodeTurn
  <2> QED
    BY <2>1, <2>2, <2>3
<1> QED
  BY <1>2, <1>3 DEF CallBare

\* The receiver of try_or becomes a closure; what is before it stays.
LEMMA CallWithKeeps ==
  ASSUME ParseIInv, CallWith, UNCHANGED Elsewhere
  PROVE  ParseIInv'
<1>1. pc = "called" /\ pc \in ExprPlaces /\ pc \in CallPlaces /\ ~CallsBare
      /\ UNCHANGED <<terms, known, termVars, operand_at, method, run>>
  BY DEF CallWith, ExprPlaces, CallPlaces
<1>2. /\ operand_at < Len(out) /\ operand_at \in Nat /\ Len(out) \in Nat
      /\ \A i \in DOMAIN stack : Marked(stack[i]) => stack[i].out <= operand_at
  BY <1>1, ReceiverIs, CodeIs DEF ReceiverAt
<1>3. CASE Halt("DEPTH") /\ UNCHANGED <<ops, params, out, stack, last_prec>>
  BY <1>1, <1>3, RefusedKeeps DEF exprVars, poolVars, Codes
<1>4. CASE /\ ~Deep
           /\ IF HoldsBack THEN MoveBody(out, operand_at, <<>>) ELSE UNCHANGED <<ops, params>>
           /\ \/ /\ HoldsBack /\ ClosingOver(out, operand_at, <<>>) # "OK"
                 /\ Halt(ClosingOver(out, operand_at, <<>>)) /\ UNCHANGED <<out, stack, last_prec>>
              \/ /\ HoldsBack => ClosingOver(out, operand_at, <<>>) = "OK"
                 /\ Stay("want")
                 /\ out' = IF HoldsBack THEN ClosedOver(out, operand_at, <<>>) ELSE out
                 /\ Push(Entry("method", method.kind, operand_at, method.name), 0)
  <2> DEFINE code == IF HoldsBack THEN ClosedOver(out, operand_at, <<>>) ELSE out
  <2>1. /\ PoolsHeld' /\ Grown /\ (HoldsBack => ClosingOver(out, operand_at, <<>>) \in Codes)
        /\ OpsWithin(out, Len(ops'), Len(terms'), Len(params'))
        /\ (HoldsBack => ClosingOver(out, operand_at, <<>>) = "OK") =>
             /\ code \in Seq(Op) /\ operand_at <= Len(code) /\ Len(code) <= Scratch
             /\ OpsWithin(code, Len(ops'), Len(terms'), Len(params'))
    <3>1. CASE HoldsBack
      <4>1. <<>> \in Seq(Spelling) /\ Len(<<>>) \in 0 .. 1
        OBVIOUS
      <4>2. MoveBody(out, operand_at, <<>>)
        BY <1>4, <3>1
      <4>3. /\ PoolsHeld' /\ Grown /\ ClosingOver(out, operand_at, <<>>) \in Codes
            /\ OpsWithin(out, Len(ops'), Len(terms'), Len(params'))
            /\ ClosingOver(out, operand_at, <<>>) = "OK" =>
                 /\ ClosedOver(out, operand_at, <<>>) \in Seq(Op)
                 /\ Len(ClosedOver(out, operand_at, <<>>)) = operand_at + 1
                 /\ Len(ClosedOver(out, operand_at, <<>>)) <= Scratch
                 /\ OpsWithin(ClosedOver(out, operand_at, <<>>),
                              Len(ops'), Len(terms'), Len(params'))
        <5>1. operand_at <= Len(out) /\ operand_at \in Nat
          BY <1>2
        <5>2. /\ PoolsHeld /\ out \in Seq(Op)
              /\ OpsWithin(out, Len(ops), Len(terms), Len(params))
              /\ terms' = terms /\ known' = known
          BY <1>1, CodeIs
        <5> QED
          BY ONLY <4>1, <4>2, <5>1, <5>2, BodyMoved
      <4> QED
        BY <1>2, <3>1, <4>3
    <3>2. CASE ~HoldsBack
      <4>1. PoolsHeld' /\ Grown
        BY <1>1, <1>4, <3>2, PoolsKept DEF ParseIInv, PoolsHeld
      <4> QED
        BY <1>2, <3>2, <4>1, CodeIs, CodeAfter
    <3> QED
      BY <3>1, <3>2
  <2>2. run.at + run.count <= Len(ops')
    BY <2>1, CodeAfter
  <2>3. CASE /\ HoldsBack /\ Halt(ClosingOver(out, operand_at, <<>>))
             /\ UNCHANGED <<out, stack, last_prec>>
    <3>1. ReaderHeld' /\ Ends
      BY <2>1, <2>3, CodeIs, Halted
    <3>2. ControlHeld' /\ TermPlaced' /\ ExprPlaced' /\ FormPlaced'
      BY <1>1, <3>1, ControlKept, EndsPlaced DEF ParseIInv
    <3>3. UNCHANGED <<Elsewhere, termVars, out, stack, operand_at, last_prec, method, run>>
      BY <1>1, <2>3
    <3> QED
      BY <2>1, <2>2, <3>1, <3>2, <3>3, CodeIs, CodeTurn
  <2>4. CASE /\ HoldsBack => ClosingOver(out, operand_at, <<>>) = "OK"
             /\ Stay("want") /\ out' = code
             /\ Push(Entry("method", method.kind, operand_at, method.name), 0)
    <3> DEFINE e == Entry("method", method.kind, operand_at, method.name)
    <3>1. ReaderHeld' /\ Goes("want")
      BY <2>4, CodeIs, Stayed
    <3>2. method.kind \in Methods \cup {"ffi"} /\ method.name \in Spelling \cup {NoName}
      <4>1. method.tag # "none"
        BY <1>1 DEF ParseIInv, ExprPlaced
      <4> QED
        BY <1>1, <4>1, CodeIs DEF CallsBare, CallFits, MethodOf
    <3>3. e \in EntryOf /\ EntryFits(e) /\ e.out = operand_at
      BY <1>2, <3>2, EntriesFit
    <3> HIDE DEF e, code
    <3>4. code \in Seq(Op) /\ operand_at <= Len(code) /\ Len(code) <= Scratch
          /\ OpsWithin(code, Len(ops'), Len(terms'), Len(params')) /\ out' = code
      BY <2>1, <2>4
    <3>5. Len(code) \in Nat
      BY <3>4, LenProperties
    <3>6. stack \in Seq(EntryOf) /\ Stacked(stack, operand_at) /\ Fitting(stack)
          /\ Stacked(stack, Len(code))
      BY <1>2, <3>4, <3>5, CodeIs, StackedTight, StackedMore
    <3>7. stack' = Append(stack, e) /\ last_prec' = 0
      BY <2>4 DEF Push, e
    <3>8. /\ stack' \in Seq(EntryOf) /\ Len(stack') = Len(stack) + 1
          /\ Stacked(stack', Len(out')) /\ Fitting(stack')
      BY <1>2, <3>3, <3>4, <3>5, <3>6, <3>7, StackedPush
    <3>9. Len(stack') <= MaxDepth
      <4>1. Len(stack) < MaxDepth /\ Len(stack) \in Nat /\ MaxDepth \in Nat
        BY <1>4, CodeIs DEF Deep
      <4> QED
        BY ONLY <3>8, <4>1
    <3>10. "want" \in ExprPlaces /\ "want" \notin CallPlaces \cup {"operand", "binary"}
           /\ "want" \notin {"named", "called"}
      BY DEF ExprPlaces, CallPlaces
    <3>11. ControlHeld' /\ TermPlaced' /\ ExprPlaced' /\ FormPlaced'
      BY <1>1, <3>1, <3>10, CodePlaced
    <3>12. UNCHANGED <<operand_at, method, run>> /\ last_prec' \in 0 .. UnaryLevel
      BY <1>1, <3>7 DEF UnaryLevel
    <3> QED
      BY <1>1, <2>1, <2>2, <3>1, <3>4, <3>8, <3>9, <3>11, <3>12, CodeIs, CodeTurn
  <2> QED
    BY <1>4, <2>3, <2>4
<1> QED
  BY <1>3, <1>4 DEF CallWith

\* What is on the top of the stack, and what is below it.
LEMMA TopIs ==
  ASSUME ParseIInv, stack # <<>>
  PROVE  /\ Below \in Seq(EntryOf) /\ Len(Below) <= MaxDepth
         /\ Stacked(Below, Len(out)) /\ Fitting(Below)
         /\ Top \in EntryOf /\ EntryFits(Top)
         /\ Marked(Top) => Top.out \in Nat /\ Top.out <= Len(out) /\ Stacked(Below, Top.out)
<1>1. /\ Below \in Seq(EntryOf) /\ Len(Below) = Len(stack) - 1
      /\ Stacked(Below, Len(out)) /\ Fitting(Below)
      /\ Top \in EntryOf /\ EntryFits(Top)
      /\ Marked(Top) => Top.out \in Nat /\ Top.out <= Len(out) /\ Stacked(Below, Top.out)
  BY CodeIs, StackedCut DEF Below, Top
<1>2. Len(Below) <= MaxDepth
  <2>1. Len(stack) <= MaxDepth /\ Len(stack) \in Nat /\ MaxDepth \in Nat
    BY CodeIs
  <2> QED
    BY ONLY <1>1, <2>1
<1> QED
  BY <1>1, <1>2

LEMMA ApplyTopKeeps ==
  ASSUME ParseIInv, pc \in {"closing", "binary", "ending"}, stack # <<>>, IsOperator(Top),
         ApplyTop, UNCHANGED Elsewhere
  PROVE  ParseIInv'
<1> DEFINE code == OperandsOf(Top)
           op == IF Top.what = "unary" THEN UnaryOp("negate") ELSE BinaryOp(KindOf(Top.sign))
<1>1. pc \in ExprPlaces /\ pc \notin CallPlaces \cup {"operand", "named", "called"}
      /\ UNCHANGED <<terms, known, tokenVars, termVars, operand_at, last_prec, method, run>>
      /\ stack' = Below
  BY WantPlaced DEF ApplyTop, CallPlaces
<1>2. op \in Op /\ \A n, nt, np : OpWithin(op, n, nt, np)
  <2>1. CASE Top.what = "unary"
    BY <2>1, OperatorOps
  <2>2. CASE Top.what = "binary"
    <3>1. KindOf(Top.sign) \in BinaryKinds
      BY <2>2, TopIs, Signs DEF EntryFits
    <3> QED
      BY <2>2, <3>1, OperatorOps
  <2> QED
    BY <2>1, <2>2 DEF IsOperator
<1>3. ReaderHeld' /\ tok' = tok
  BY <1>1 DEF ParseIInv, ReaderHeld, tokenVars
<1>4. /\ PoolsHeld' /\ Grown /\ Applying(Top) \in Codes
      /\ OpsWithin(out, Len(ops'), Len(terms'), Len(params'))
      /\ Applying(Top) = "OK" =>
           /\ code \in Seq(Op) /\ Len(code) < Scratch
           /\ OpsWithin(code, Len(ops'), Len(terms'), Len(params'))
           /\ Stacked(Below, Len(code))
  <2>1. CASE IsLazyEntry(Top)
    <3>1. Marked(Top) /\ MoveBody(out, Top.out, <<>>) /\ code = ClosedOver(out, Top.out, <<>>)
      BY <2>1 DEF IsLazyEntry, Marked, ApplyTop, OperandsOf
    <3>2. Top.out \in Nat /\ Top.out <= Len(out) /\ Stacked(Below, Top.out)
      BY <3>1, TopIs
    <3>3. <<>> \in Seq(Spelling) /\ Len(<<>>) \in 0 .. 1
      OBVIOUS
    <3>4. /\ PoolsHeld' /\ Grown /\ ClosingOver(out, Top.out, <<>>) \in Codes
          /\ OpsWithin(out, Len(ops'), Len(terms'), Len(params'))
          /\ ClosingOver(out, Top.out, <<>>) = "OK" =>
               /\ ClosedOver(out, Top.out, <<>>) \in Seq(Op)
               /\ Len(ClosedOver(out, Top.out, <<>>)) = Top.out + 1
               /\ Len(ClosedOver(out, Top.out, <<>>)) <= Scratch
               /\ OpsWithin(ClosedOver(out, Top.out, <<>>), Len(ops'), Len(terms'), Len(params'))
      BY <1>1, <3>1, <3>2, <3>3, CodeIs, BodyMoved
    <3>5. Applying(Top) \in Codes
      BY <3>4 DEF Applying, Emitting, Codes
    <3>6. ASSUME Applying(Top) = "OK"
          PROVE  /\ code \in Seq(Op) /\ Len(code) < Scratch
                 /\ OpsWithin(code, Len(ops'), Len(terms'), Len(params'))
                 /\ Stacked(Below, Len(code))
      <4>1. ClosingOver(out, Top.out, <<>>) = "OK" /\ Emitting(code) = "OK"
        BY <2>1, <3>6 DEF Applying
      <4>2. code \in Seq(Op) /\ Len(code) = Top.out + 1
            /\ OpsWithin(code, Len(ops'), Len(terms'), Len(params'))
        BY <3>1, <3>4, <4>1
      <4> HIDE DEF code
      <4>3. Len(code) \in Nat /\ Scratch \in Nat
        BY <4>2, LenProperties, CodeIs
      <4>4. Len(code) < Scratch
        BY <4>1, <4>3 DEF Emitting
      <4>5. Stacked(Below, Len(code))
        BY <3>2, <4>2, <4>3, TopIs, StackedMore
      <4> QED
        BY <4>2, <4>4, <4>5
    <3> QED
      BY <3>4, <3>5, <3>6
  <2>2. CASE ~IsLazyEntry(Top)
    <3>1. UNCHANGED <<ops, params>> /\ code = out /\ Applying(Top) = Emitting(out)
      BY <2>2 DEF ApplyTop, OperandsOf, Applying
    <3>2. PoolsHeld' /\ Grown
      BY <1>1, <3>1, PoolsKept DEF ParseIInv, PoolsHeld
    <3>3. OpsWithin(out, Len(ops'), Len(terms'), Len(params'))
      BY <3>2, CodeAfter
    <3>4. Emitting(out) \in Codes /\ (Emitting(out) = "OK" => Len(out) < Scratch)
      BY CodeIs DEF Emitting, Codes
    <3>5. out \in Seq(Op) /\ Stacked(Below, Len(out))
      BY CodeIs, TopIs
    <3> HIDE DEF code
    <3> QED
      BY <3>1, <3>2, <3>3, <3>4, <3>5
  <2> QED
    BY <2>1, <2>2
<1>5. run.at + run.count <= Len(ops')
  BY <1>4, CodeAfter
<1>6. CASE Applying(Top) = "OK"
  <2>1. out' = Append(code, op) /\ Goes(pc)
    BY <1>6 DEF ApplyTop, Goes, controlVars
  <2> HIDE DEF code, op
  <2>2. /\ out' \in Seq(Op) /\ Len(out') = Len(code) + 1 /\ Len(out') <= Scratch
        /\ OpsWithin(out', Len(ops'), Len(terms'), Len(params'))
    BY <1>2, <1>4, <1>6, <2>1, OpsLonger
  <2>3. Len(code) \in Nat /\ Len(out') \in Nat /\ Len(code) <= Len(out')
    BY <1>4, <1>6, <2>2, LenProperties
  <2>4. stack' \in Seq(EntryOf) /\ Len(stack') <= MaxDepth /\ Stacked(stack', Len(out'))
        /\ Fitting(stack')
    BY <1>1, <1>4, <1>6, <2>3, TopIs, StackedMore
  <2>5. pc = "binary" => AtBinary'
    BY <1>3 DEF ParseIInv, ExprPlaced, AtBinary
  <2>6. ControlHeld' /\ TermPlaced' /\ ExprPlaced' /\ FormPlaced'
    BY <1>1, <2>1, <2>5, CodePlaced
  <2> QED
    BY <1>1, <1>3, <1>4, <1>5, <2>2, <2>4, <2>6, CodeIs, CodeTurn
<1>7. CASE Applying(Top) # "OK"
  <2>1. out' = out /\ Ends
    BY <1>4, <1>7 DEF ApplyTop, Refuse, Ends
  <2>2. ControlHeld' /\ TermPlaced' /\ ExprPlaced' /\ FormPlaced'
    BY <1>1, <2>1, ControlKept, EndsPlaced DEF ParseIInv
  <2>3. stack' \in Seq(EntryOf) /\ Len(stack') <= MaxDepth /\ Stacked(stack', Len(out'))
        /\ Fitting(stack')
    BY <1>1, <2>1, TopIs
  <2> QED
    BY <1>1, <1>3, <1>4, <1>5, <2>1, <2>2, <2>3, CodeIs, CodeTurn
<1> QED
  BY <1>6, <1>7

LEMMA ApplyingKeeps ==
  ASSUME ParseIInv, ApplyBeforeClosing \/ ApplyBeforeBinary \/ ApplyBeforeEnd, UNCHANGED Elsewhere
  PROVE  ParseIInv'
BY ApplyTopKeeps DEF ApplyBeforeClosing, ApplyBeforeBinary, ApplyBeforeEnd, GoesFirst

LEMMA CloseBracketKeeps ==
  ASSUME ParseIInv, CloseBracket, UNCHANGED Elsewhere
  PROVE  ParseIInv'
<1> DEFINE op == IF Top.what = "paren" THEN UnaryOp("parens")
                 ELSE FFIOp("binary", Top.sign, Top.name)
<1>1. pc = "closing" /\ pc \in ExprPlaces /\ stack # <<>> /\ Top.what \in {"paren", "method"}
      /\ stack' = Below /\ operand_at' = Top.out
      /\ UNCHANGED <<poolVars, termVars, method, run>> /\ UNCHANGED <<terms, ops, params, known>>
  BY WantPlaced DEF CloseBracket, Receiver, poolVars
<1>2. /\ Top.out \in Nat /\ Top.out <= Len(out) /\ Stacked(Below, Top.out)
      /\ stack' \in Seq(EntryOf) /\ Len(stack') <= MaxDepth /\ Fitting(stack')
      /\ Stacked(stack', Len(out)) /\ operand_at' \in Nat
  BY <1>1, TopIs DEF Marked
<1>3. PoolsHeld' /\ Grown
  BY <1>1, PoolsKept DEF ParseIInv, PoolsHeld
<1>4. OpsWithin(out, Len(ops'), Len(terms'), Len(params')) /\ run.at + run.count <= Len(ops')
  BY <1>3, CodeAfter
<1>5. CASE Emitting(out) # "OK" /\ Halt(Emitting(out)) /\ UNCHANGED <<out, last_prec>>
  <2>1. ReaderHeld' /\ Ends
    BY <1>5, CodeIs, Halted DEF Emitting, Codes
  <2>2. ControlHeld' /\ TermPlaced' /\ ExprPlaced' /\ FormPlaced'
    BY <1>1, <2>1, ControlKept, EndsPlaced DEF ParseIInv
  <2> QED
    BY <1>1, <1>2, <1>3, <1>4, <1>5, <2>1, <2>2, CodeIs, CodeTurn
<1>6. CASE Emitting(out) = "OK" /\ out' = Append(out, op)
           /\ FetchAfterOperand("have", "OK") /\ last_prec' = 0
  <2>1. ReaderHeld' /\ (Ends \/ Goes("have"))
    BY <1>6, CodeIs, FetchedAfter DEF Codes
  <2>2. op \in Op /\ \A n, nt, np : OpWithin(op, n, nt, np)
    <3>1. CASE Top.what = "paren"
      BY <3>1, OperatorOps
    <3>2. CASE Top.what = "method"
      <4>1. Top.sign \in BinaryKinds /\ Top.name \in Spelling \cup {NoName}
        BY <1>1, <3>2, TopIs DEF EntryFits, EntryOf, BinaryKinds
      <4> QED
        BY <3>2, <4>1, OperatorOps
    <3> QED
      BY <1>1, <3>1, <3>2
  <2> HIDE DEF op
  <2>3. Len(out) < Scratch
    BY <1>6, CodeIs DEF Emitting
  <2>4. /\ out' \in Seq(Op) /\ Len(out') = Len(out) + 1 /\ Len(out') <= Scratch
        /\ OpsWithin(out', Len(ops'), Len(terms'), Len(params'))
    BY <1>4, <1>6, <2>2, <2>3, CodeIs, OpsLonger
  <2>5. Len(out) \in Nat /\ Len(out') \in Nat /\ Len(out) <= Len(out') /\ Top.out < Len(out')
    BY <1>2, <2>4, CodeIs
  <2>6. Stacked(stack', Len(out'))
    BY <1>2, <2>5, StackedMore
  <2>7. ReceiverAt(stack', operand_at', Len(out'))
    BY <1>1, <1>2, <2>5 DEF ReceiverAt, Stacked
  <2>8. "have" \in ExprPlaces /\ "have" \notin {"operand", "named", "called", "binary"}
    BY DEF ExprPlaces, CallPlaces
  <2>9. ControlHeld' /\ TermPlaced' /\ ExprPlaced' /\ FormPlaced'
    BY <1>1, <2>1, <2>7, <2>8, CodePlaced
  <2>10. last_prec' \in 0 .. UnaryLevel
    BY <1>6 DEF UnaryLevel
  <2> QED
    BY <1>1, <1>2, <1>3, <1>4, <2>1, <2>4, <2>6, <2>9, <2>10, CodeIs, CodeTurn
<1> QED
  BY <1>5, <1>6 DEF CloseBracket

LEMMA CloseClosureKeeps ==
  ASSUME ParseIInv, CloseClosure, UNCHANGED Elsewhere
  PROVE  ParseIInv'
<1> DEFINE over == <<Top.name>>
<1>1. pc = "closing" /\ pc \in ExprPlaces /\ stack # <<>> /\ Top.what = "closure"
      /\ stack' = Below /\ operand_at' = Top.out /\ MoveBody(out, Top.out, over)
      /\ UNCHANGED <<terms, known, termVars, last_prec, method, run>>
  BY WantPlaced DEF CloseClosure
<1>2. /\ Top.out \in Nat /\ Top.out <= Len(out) /\ Stacked(Below, Top.out)
      /\ stack' \in Seq(EntryOf) /\ Len(stack') <= MaxDepth /\ Fitting(stack')
      /\ Stacked(stack', Len(out)) /\ operand_at' \in Nat /\ Top.name \in Spelling
  BY <1>1, TopIs DEF Marked, EntryFits
<1>3. over \in Seq(Spelling) /\ Len(over) \in 0 .. 1
  BY <1>2
<1> HIDE DEF over
<1>4. /\ PoolsHeld' /\ Grown /\ ClosingOver(out, Top.out, over) \in Codes
      /\ OpsWithin(out, Len(ops'), Len(terms'), Len(params'))
      /\ ClosingOver(out, Top.out, over) = "OK" =>
           /\ ClosedOver(out, Top.out, over) \in Seq(Op)
           /\ Len(ClosedOver(out, Top.out, over)) = Top.out + 1
           /\ Len(ClosedOver(out, Top.out, over)) <= Scratch
           /\ OpsWithin(ClosedOver(out, Top.out, over), Len(ops'), Len(terms'), Len(params'))
  <2>1. /\ PoolsHeld /\ out \in Seq(Op) /\ OpsWithin(out, Len(ops), Len(terms), Len(params))
        /\ terms' = terms /\ known' = known
    BY <1>1, CodeIs
  <2> QED
    BY <1>1, <1>2, <1>3, <2>1, BodyMoved
<1>5. run.at + run.count <= Len(ops')
  BY <1>4, CodeAfter
<1>6. CASE Halt(ClosingOver(out, Top.out, over)) /\ UNCHANGED out
  <2>1. ReaderHeld' /\ Ends
    BY <1>4, <1>6, CodeIs, Halted
  <2>2. ControlHeld' /\ TermPlaced' /\ ExprPlaced' /\ FormPlaced'
    BY <1>1, <2>1, ControlKept, EndsPlaced DEF ParseIInv
  <2> QED
    BY <1>1, <1>2, <1>4, <1>5, <1>6, <2>1, <2>2, CodeIs, CodeTurn
<1>7. CASE /\ ClosingOver(out, Top.out, over) = "OK" /\ Stay("closing")
           /\ out' = ClosedOver(out, Top.out, over)
  <2>1. ReaderHeld' /\ Goes("closing")
    BY <1>7, CodeIs, Stayed
  <2>2. out' \in Seq(Op) /\ Len(out') = Top.out + 1 /\ Len(out') <= Scratch
        /\ OpsWithin(out', Len(ops'), Len(terms'), Len(params'))
    BY <1>4, <1>7
  <2>3. Len(out') \in Nat /\ Top.out <= Len(out')
    BY <1>2, <2>2
  <2>4. Stacked(stack', Len(out'))
    BY <1>1, <1>2, <2>3, StackedMore
  <2>5. "closing" \in ExprPlaces /\ "closing" \notin CallPlaces \cup {"operand", "binary"}
        /\ "closing" \notin {"named", "called"}
    BY DEF ExprPlaces, CallPlaces
  <2>6. ControlHeld' /\ TermPlaced' /\ ExprPlaced' /\ FormPlaced'
    BY <1>1, <2>1, <2>5, CodePlaced
  <2> QED
    BY <1>1, <1>2, <1>4, <1>5, <2>1, <2>2, <2>4, <2>6, CodeIs, CodeTurn
<1> QED
  BY <1>6, <1>7 DEF CloseClosure, over

LEMMA FinishExpressionKeeps ==
  ASSUME ParseIInv, FinishExpression, UNCHANGED Elsewhere
  PROVE  ParseIInv'
<1>1. pc = "ending" /\ pc \in ExprPlaces
      /\ UNCHANGED <<terms, params, known, termVars, out, stack, operand_at, last_prec, method>>
  BY WantPlaced DEF FinishExpression
<1>2. CASE Halt("NOMEM") /\ UNCHANGED <<ops, run>>
  BY <1>1, <1>2, RefusedKeeps DEF exprVars, poolVars, Codes
<1>3. CASE /\ Stay("expressed") /\ ops' = ops \o out
           /\ run' = [at |-> Len(ops), count |-> Len(out)]
  <2>1. <<>> \in Seq(Spelling)
    OBVIOUS
  <2>2. PoolsHeld' /\ Grown /\ Len(ops') = Len(ops) + Len(out)
    BY <1>1, <1>3, <2>1, CodeIs, OpsPlaced
  <2>3. OpsWithin(out', Len(ops'), Len(terms'), Len(params'))
    BY <1>1, <2>2, CodeAfter
  <2>4. run' \in Run /\ run'.at + run'.count <= Len(ops')
    <3>1. Len(ops) \in Nat /\ Len(out) \in Nat
      BY CodeIs, PoolSizes
    <3> QED
      BY <1>3, <2>2, <3>1 DEF Run
  <2>5. ReaderHeld' /\ Goes("expressed")
    BY <1>3, CodeIs, Stayed
  <2>6. ControlHeld' /\ TermPlaced' /\ ExprPlaced'
    BY <1>1, <2>5, ControlKept DEF ParseIInv, TermPlaced, ExprPlaced, ReceiverLast, TermPlaces,
      ExprPlaces, CallPlaces, Places, BodyPlaces, Goes
  <2>7. FormPlaced'
    BY <1>1, <2>5 DEF ParseIInv, FormPlaced, TermPlaces, ExprPlaces, CallPlaces, BodyPlaces,
                      ArgumentPlaces, ClausePlaces, Goes, IsHead, Elsewhere, statementVars, bodyVars
  <2> QED
    BY <1>1, <2>2, <2>3, <2>4, <2>5, <2>6, <2>7, CodeIs, CodeTurn
<1> QED
  BY <1>2, <1>3 DEF FinishExpression

LEMMA ReadExpressionKeeps ==
  ASSUME ParseIInv, ReadExpression, UNCHANGED Elsewhere
  PROVE  ParseIInv'
BY NegationKeeps, OpenParenKeeps, OpenClosureKeeps, StartOperandKeeps, EmitOperandKeeps,
   LookingKeeps, NameExternKeeps, NameMethodKeeps, CallBareKeeps, CallWithKeeps, ApplyingKeeps,
   CloseBracketKeeps, CloseClosureKeeps, PushBinaryKeeps, FinishExpressionKeeps DEF ReadExpression

-----------------------------------------------------------------------------
(* Predicates, bodies, statements and texts (140_parse.inc:334-420,        *)
(* 894-1110, 1180-1300).                                                   *)

Outside == BodyPlaces \cup (TextPlaces \ {"stopped"})

LEMMA QueriesKept ==
  ASSUME QueriesHeld, UNCHANGED <<form, head, queries_at, rules>>
  PROVE  QueriesHeld'
BY DEF QueriesHeld

LEMMA Settled ==
  ASSUME ParseIInv, pc \in Outside, NEW place \in Outside, Ends \/ Goes(place),
         Goes(place) => FormPlaced'
  PROVE  ControlHeld' /\ TermPlaced' /\ ExprPlaced' /\ FormPlaced'
<1>1. ControlHeld'
  <2>1. pc # "stopped" /\ place \in Places
    BY DEF Outside, BodyPlaces, Places
  <2> QED
    BY <2>1, ControlKept DEF ParseIInv
<1>2. CASE Ends
  BY <1>1, <1>2, EndsPlaced
<1>3. CASE Goes(place)
  <2>1. TermPlaced' /\ ExprPlaced'
    BY <1>3 DEF TermPlaced, ExprPlaced, ReceiverLast, TermPlaces, ExprPlaces, CallPlaces, Outside,
                BodyPlaces, TextPlaces, Goes
  <2> QED
    BY <1>1, <1>3, <2>1
<1> QED
  BY <1>2, <1>3

\* A turn outside a term and an expression.
LEMMA BodyTurn ==
  ASSUME ParseIInv, UNCHANGED <<hostVars, termVars, exprVars>>, ReaderHeld', PoolsHeld', Grown,
         BodyHeld', StatementHeld', TermsWithin(args', Len(terms')), ClausePending',
         WorldHeld', WorldWithin', AllAsk', QueriesHeld',
         ControlHeld', TermPlaced', ExprPlaced', FormPlaced'
  PROVE  ParseIInv'
<1>1. HostHeld'
  BY DEF ParseIInv, HostHeld, hostVars, sourceVars
<1>2. TermsHeld' /\ CodeHeld'
  BY DEF ParseIInv, TermsHeld, FramesOrdered, CodeHeld, StackOrdered, StackFits, termVars, exprVars
<1>3. CodePending'
  BY CodeStillPending DEF ParseIInv, exprVars
<1>4. TermsPending'
  <2>1. items' = items /\ value' = value
    BY DEF termVars
  <2>2. TermsWithin(items, Len(terms')) /\ TermEnds(value, Len(terms'))
    BY TermsWithinMore, TermEndsMore DEF ParseIInv, TermsHeld, TermsPending, Grown
  <2> QED
    BY <2>1, <2>2 DEF TermsPending
<1> QED
  BY <1>1, <1>2, <1>3, <1>4 DEF ParseIInv

\* One that leaves the pools alone.
LEMMA QuietTurn ==
  ASSUME ParseIInv, pc \in Outside,
         UNCHANGED <<hostVars, poolVars, worldVars, termVars, exprVars>>, ReaderHeld',
         BodyHeld', StatementHeld', QueriesHeld', TermsWithin(args', Len(terms)),
         RangesWithin(body', Len(terms)), RangesWithin(head', Len(terms)),
         RangesWithin(tests', Len(ops)),
         NEW place \in Outside, Ends \/ Goes(place), Goes(place) => FormPlaced'
  PROVE  ParseIInv'
<1>1. UNCHANGED <<terms, ops, params, known>>
  BY DEF poolVars
<1>2. PoolsHeld' /\ Grown
  BY <1>1, PoolsKept DEF ParseIInv, PoolsHeld
<1>3. WorldHeld' /\ WorldWithin'
  BY <1>2, StillWithin DEF ParseIInv
<1>4. AllAsk'
  BY DEF ParseIInv, AllAsk, AsksQueries, worldVars
<1>5. ClausePending' /\ TermsWithin(args', Len(terms'))
  BY <1>1 DEF ClausePending
<1>6. ControlHeld' /\ TermPlaced' /\ ExprPlaced' /\ FormPlaced'
  BY Settled
<1> QED
  BY <1>2, <1>3, <1>4, <1>5, <1>6, BodyTurn

LEMMA ClauseIs ==
  ASSUME ParseIInv
  PROVE  /\ HostHeld /\ ReaderHeld /\ PoolsHeld /\ BodyHeld /\ StatementHeld /\ QueriesHeld
         /\ TermsWithin(args, Len(terms)) /\ RangesWithin(body, Len(terms))
         /\ RangesWithin(head, Len(terms)) /\ RangesWithin(tests, Len(ops))
BY DEF ParseIInv, TermsPending, ClausePending

\* One that only looks at the token at hand.
LEMMA LookTurn ==
  ASSUME ParseIInv, pc \in Outside,
         UNCHANGED <<hostVars, poolVars, worldVars, statementVars, bodyVars, termVars, exprVars>>,
         ReaderHeld', NEW place \in Outside, Ends \/ Goes(place), Goes(place) => FormPlaced'
  PROVE  ParseIInv'
<1>1. UNCHANGED <<default_trust, form, head, queries_at, body, tests, name, args, trust, rules>>
  BY DEF statementVars, bodyVars, worldVars
<1>2. BodyHeld' /\ StatementHeld' /\ QueriesHeld'
  BY <1>1, ClauseIs, QueriesKept DEF BodyHeld, StatementHeld
<1> QED
  BY <1>1, <1>2, ClauseIs, QuietTurn

LEMMA ReadNameKeeps ==
  ASSUME ParseIInv, ReadName, UNCHANGED hostVars
  PROVE  ParseIInv'
<1>1. pc = "predicate" /\ pc \in Outside /\ args' = <<>>
      /\ UNCHANGED <<terms, ops, params, worldVars, statementVars, body, tests, trust, termVars,
             exprVars>>
  BY DEF ReadName, Outside, BodyPlaces
<1>2. tok.text \in Spelling
  BY DEF ParseIInv, ReaderHeld, Token
<1>3. known' \subseteq Spelling /\ name' \in Spelling \cup {NoName}
  BY <1>1, <1>2 DEF ReadName, ParseIInv, PoolsHeld, BodyHeld
<1>4. PoolsHeld' /\ Grown
  BY <1>1, <1>3, PoolsKept DEF ParseIInv
<1>5. BodyHeld' /\ TermsWithin(args', Len(terms'))
  <2>1. args' \in Seq(Term) /\ Len(args') = 0 /\ DOMAIN args' = {}
    BY <1>1
  <2> QED
    BY <1>1, <1>3, <2>1, ClauseIs, ExprParseAssumption DEF BodyHeld, TermsWithin
<1>6. StatementHeld' /\ QueriesHeld'
  BY <1>1, ClauseIs, QueriesKept DEF StatementHeld, statementVars, worldVars
<1>7. ClausePending'
  BY <1>1, <1>4, ClauseStillPending DEF ParseIInv, statementVars
<1>8. WorldHeld' /\ WorldWithin' /\ AllAsk'
  BY <1>1, <1>4, StillWithin DEF ParseIInv, AllAsk, AsksQueries, worldVars
<1>9. ReaderHeld' /\ (Ends \/ (Goes("named_predicate") /\ name' \in Spelling))
  BY <1>2, Halted, FetchedNext DEF ReadName, ParseIInv, Codes
<1>10. Goes("named_predicate") => FormPlaced'
  BY <1>1, <1>9 DEF ParseIInv, FormPlaced, IsHead, TermPlaces, ExprPlaces, CallPlaces, BodyPlaces,
                    ClausePlaces, ArgumentPlaces, Goes, Ends, statementVars
<1>11. ControlHeld' /\ TermPlaced' /\ ExprPlaced' /\ FormPlaced'
  BY <1>1, <1>9, <1>10, Settled DEF Outside, BodyPlaces
<1> QED
  BY <1>1, <1>4, <1>5, <1>6, <1>7, <1>8, <1>9, <1>11, BodyTurn

LEMMA OpenArgumentsKeeps ==
  ASSUME ParseIInv, OpenArguments, UNCHANGED hostVars
  PROVE  ParseIInv'
<1>1. pc = "named_predicate" /\ {pc, "arguments"} \subseteq Outside
      /\ UNCHANGED <<poolVars, worldVars, statementVars, bodyVars, termVars, exprVars>>
  BY DEF OpenArguments, Outside, BodyPlaces
<1>2. ReaderHeld' /\ (Ends \/ Goes("arguments"))
  BY Halted, FetchedNext DEF OpenArguments, ParseIInv, Codes
<1>3. Goes("arguments") => FormPlaced'
  BY <1>1 DEF ParseIInv, FormPlaced, IsHead, TermPlaces, ExprPlaces, CallPlaces, BodyPlaces,
              ClausePlaces, ArgumentPlaces, Goes, statementVars, bodyVars
<1> QED
  BY <1>1, <1>2, <1>3, LookTurn

LEMMA StartArgumentKeeps ==
  ASSUME ParseIInv, StartArgument, UNCHANGED hostVars
  PROVE  ParseIInv'
<1>1. pc \in {"next_argument", "arguments"} /\ pc \in Outside
      /\ UNCHANGED <<poolVars, worldVars, statementVars, bodyVars, exprVars>>
      /\ UNCHANGED Elsewhere
  BY DEF StartArgument, Outside, BodyPlaces, Elsewhere
<1>2. CASE Halt("LIMIT") /\ UNCHANGED termVars
  <2>1. ReaderHeld' /\ Ends
    BY <1>2, Halted DEF ParseIInv, Codes
  <2>2. ~Goes(pc)
    BY <1>1, <2>1 DEF Ends, Goes
  <2> QED
    BY <1>1, <1>2, <2>1, <2>2, LookTurn
<1>3. CASE Len(args) < Scratch /\ CallTerm("argument") /\ UNCHANGED <<tokenVars, status, value>>
  <2>1. TermsHeld' /\ TermsWithin(items', Len(terms')) /\ back' = "argument" /\ pc' = "term"
    BY <1>3, TermCalled DEF ParseIInv
  <2>2. PoolsHeld' /\ Grown
    BY <1>1, PoolsKept DEF ParseIInv, PoolsHeld, poolVars
  <2>3. TermEnds(value', Len(terms'))
    BY <1>1, <1>3 DEF ParseIInv, TermsPending, poolVars
  <2>4. ReaderHeld'
    BY <1>3 DEF ParseIInv, ReaderHeld, tokenVars
  <2>5. ControlHeld'
    BY <1>1, <1>3, <2>1 DEF ParseIInv, ControlHeld, Places, TermPlaces
  <2>6. TermPlaced'
    BY <2>1 DEF TermPlaced
  <2>7. ExprPlaced'
    BY <2>1 DEF ExprPlaced, ReceiverLast, CallPlaces
  <2>8. FormPlaced'
    BY <1>1, <1>3, <2>1 DEF ParseIInv, FormPlaced, IsHead, TermPlaces, ExprPlaces, CallPlaces,
                            BodyPlaces, ClausePlaces, ArgumentPlaces, statementVars, bodyVars
  <2> QED
    BY <1>1, <2>1, <2>2, <2>3, <2>4, <2>5, <2>6, <2>7, <2>8, TermTurn
<1> QED
  BY <1>2, <1>3 DEF StartArgument

LEMMA TakeArgumentKeeps ==
  ASSUME ParseIInv, TakeArgument, UNCHANGED hostVars
  PROVE  ParseIInv'
<1>1. pc = "argument" /\ {pc, "next_argument", "end_arguments"} \subseteq Outside
      /\ UNCHANGED <<hostVars, poolVars, worldVars, termVars, exprVars>>
      /\ UNCHANGED <<default_trust, form, head, queries_at, body, tests, name, trust, rules>>
      /\ args' = Append(args, value)
  BY DEF TakeArgument, Outside, BodyPlaces, statementVars, worldVars
<1>2. /\ form \in Stating /\ name \in Spelling /\ Len(args) < Scratch
      /\ IsHead \/ Len(body) < MaxBody
  BY <1>1 DEF ParseIInv, FormPlaced, BodyPlaces, ClausePlaces, ArgumentPlaces
<1>3. args \in Seq(Term) /\ value \in Term /\ TermEnds(value, Len(terms)) /\ Scratch \in Nat
  BY ExprParseAssumption DEF ParseIInv, BodyHeld, TermsHeld, TermsPending
<1>4. /\ args' \in Seq(Term) /\ Len(args') = Len(args) + 1 /\ Len(args) \in Nat
      /\ \A i \in DOMAIN args' : \/ i \in DOMAIN args /\ args'[i] = args[i]
                                 \/ i = Len(args) + 1 /\ args'[i] = value
  BY <1>1, <1>3, Appended
<1>5. Len(args') <= Scratch
  BY ONLY <1>2, <1>3, <1>4
<1>6. BodyHeld' /\ StatementHeld' /\ QueriesHeld'
  BY <1>1, <1>4, <1>5, ClauseIs, QueriesKept DEF BodyHeld, StatementHeld
<1>7. TermsWithin(args', Len(terms))
  BY <1>3, <1>4, ClauseIs DEF TermsWithin
<1>8. \/ ReaderHeld' /\ (Ends \/ Goes("next_argument"))
      \/ ReaderHeld' /\ (Ends \/ Goes("end_arguments"))
  BY Stayed, FetchedNext DEF TakeArgument, ParseIInv
<1>9. (Goes("next_argument") \/ Goes("end_arguments")) => FormPlaced'
  BY <1>1, <1>2 DEF FormPlaced, IsHead, TermPlaces, ExprPlaces, CallPlaces, BodyPlaces,
                    ClausePlaces, ArgumentPlaces, Goes
<1> QED
  BY <1>1, <1>6, <1>7, <1>8, <1>9, ClauseIs, QuietTurn

LEMMA FinishPredicateKeeps ==
  ASSUME ParseIInv, FinishPredicate, UNCHANGED hostVars
  PROVE  ParseIInv'
<1> DEFINE place == IF IsHead THEN "head" ELSE "element_read"
           code == IF Fits(terms, Len(args), limits.terms) THEN "OK" ELSE "NOMEM"
<1>1. pc \in {"end_arguments", "arguments"} /\ pc \in Outside /\ place \in Outside
      /\ UNCHANGED <<hostVars, ops, params, known, worldVars, termVars, exprVars>>
      /\ UNCHANGED <<default_trust, form, queries_at, tests, name, args, trust>>
      /\ status = "none"
  BY DEF FinishPredicate, Outside, BodyPlaces, TextPlaces, ParseIInv, ControlHeld
<1>2. ReaderHeld' /\ (Ends \/ Goes(place))
  <2>1. HostHeld /\ ReaderHeld /\ code \in Codes /\ "MALFORMED" \in Codes /\ pos \in Nat \ {0}
    BY DEF ParseIInv, ReaderHeld, Codes
  <2>2. Halt("MALFORMED") \/ FetchFrom(pos, FALSE, place, code)
    BY DEF FinishPredicate
  <2> HIDE DEF code, place
  <2> QED
    BY <2>1, <2>2, Halted, Fetched
<1>3. CASE Ends
  <2>1. UNCHANGED <<terms, head, body>>
    BY <1>1, <1>3 DEF FinishPredicate, Proceeds, Ends, Codes
  <2>2. UNCHANGED <<poolVars, statementVars, bodyVars>>
    BY <1>1, <2>1 DEF poolVars, statementVars, bodyVars
  <2>3. ~Goes(pc)
    BY <1>1, <1>3 DEF Ends, Goes
  <2> QED
    BY <1>1, <1>2, <1>3, <2>2, <2>3, LookTurn
<1>4. CASE Goes(place)
  <2>1. /\ terms' = terms \o args
        /\ IF IsHead THEN head' = <<Predicate>> /\ UNCHANGED body
           ELSE body' = Append(body, Predicate) /\ UNCHANGED head
    BY <1>4 DEF FinishPredicate, Proceeds, Goes
  <2>2. PICK p : p = Predicate
    OBVIOUS
  <2>3. /\ form \in Stating /\ name \in Spelling /\ (IsHead \/ Len(body) < MaxBody)
    BY <1>1 DEF ParseIInv, FormPlaced, BodyPlaces, ClausePlaces, ArgumentPlaces
  <2>4. args \in Seq(Term) /\ TermsWithin(args, Len(terms)) /\ Len(args) \in Nat
        /\ Len(terms) \in Nat
    BY ClauseIs, PoolSizes, LenProperties DEF BodyHeld
  <2>5. PoolsHeld' /\ Grown /\ Len(terms') = Len(terms) + Len(args)
    <3>1. known' \subseteq Spelling
      BY <1>1 DEF ParseIInv, PoolsHeld
    <3> QED
      BY <1>1, <2>1, <2>4, <3>1, TermsPlaced DEF ParseIInv
  <2>6. p \in Pred /\ p.at + p.count <= Len(terms')
    BY <2>2, <2>3, <2>4, <2>5 DEF Predicate, Pred
  <2>7. /\ body \in Seq(Pred) /\ head \in Seq(Pred) /\ MaxBody \in Nat
        /\ Len(body) <= MaxBody /\ Len(head) <= 1
    BY ParseAssumption DEF ParseIInv, BodyHeld, StatementHeld
  <2>8. RangesWithin(body, Len(terms')) /\ RangesWithin(head, Len(terms'))
        /\ RangesWithin(tests, Len(ops'))
    BY <1>1, <2>5, <2>7, ClauseIs, PredsWithinMore DEF Grown
  <2>9. /\ body' \in Seq(Pred) /\ Len(body') <= MaxBody /\ RangesWithin(body', Len(terms'))
        /\ head' \in Seq(Pred) /\ Len(head') <= 1 /\ RangesWithin(head', Len(terms'))
        /\ IsHead => head' # <<>>
    <3>1. CASE IsHead
      <4>1. head' = <<p>> /\ body' = body
        BY <2>1, <2>2, <3>1
      <4>2. head' \in Seq(Pred) /\ Len(head') = 1 /\ DOMAIN head' = {1} /\ head'[1] = p
        BY <2>6, <4>1
      <4> QED
        BY <2>6, <2>7, <2>8, <4>1, <4>2 DEF RangesWithin
    <3>2. CASE ~IsHead
      <4>1. body' = Append(body, p) /\ head' = head
        BY <2>1, <2>2, <3>2
      <4>2. /\ body' \in Seq(Pred) /\ Len(body') = Len(body) + 1 /\ Len(body) \in Nat
            /\ \A i \in DOMAIN body' : \/ i \in DOMAIN body /\ body'[i] = body[i]
                                       \/ i = Len(body) + 1 /\ body'[i] = p
        BY <2>6, <2>7, <4>1, Appended
      <4>3. Len(body') <= MaxBody
        <5>1. Len(body) < MaxBody
          BY <2>3, <3>2
        <5> QED
          BY ONLY <2>7, <4>2, <5>1
      <4>4. RangesWithin(body', Len(terms'))
        BY <2>6, <2>8, <4>2 DEF RangesWithin
      <4> QED
        BY <2>7, <2>8, <3>2, <4>1, <4>2, <4>3, <4>4
    <3> QED
      BY <3>1, <3>2
  <2>10. BodyHeld' /\ StatementHeld' /\ ClausePending'
    BY <1>1, <2>8, <2>9, ClauseIs DEF BodyHeld, StatementHeld, ClausePending
  <2>11. TermsWithin(args', Len(terms'))
    BY <1>1, <2>4, <2>5, TermsWithinMore DEF Grown
  <2>12. WorldHeld' /\ WorldWithin' /\ AllAsk'
    BY <1>1, <2>5, StillWithin DEF ParseIInv, AllAsk, AsksQueries, worldVars
  <2>13. QueriesHeld'
    <3>1. UNCHANGED <<form, queries_at, rules>>
      BY <1>1 DEF worldVars
    <3>2. CASE IsHead
      BY <3>1, <3>2 DEF IsHead, QueriesHeld, Asking, CheckForms, PolicyForms
    <3>3. CASE ~IsHead
      BY <2>1, <3>1, <3>3, ClauseIs, QueriesKept
    <3> QED
      BY <3>2, <3>3
  <2>14. FormPlaced'
    <3>1. CASE IsHead
      <4>1. pc' = "head" /\ form' = "clause" /\ head' # <<>>
        BY <1>1, <1>4, <2>9, <3>1 DEF Goes, IsHead
      <4> QED
        BY <4>1 DEF FormPlaced, TermPlaces, ExprPlaces, CallPlaces, BodyPlaces, ClausePlaces,
                    ArgumentPlaces
    <3>2. CASE ~IsHead
      <4>1. pc' = "element_read" /\ form' \in Stating
        BY <1>1, <1>4, <2>3, <3>2 DEF Goes
      <4> QED
        BY <4>1 DEF FormPlaced, TermPlaces, ExprPlaces, CallPlaces, BodyPlaces, ClausePlaces,
                    ArgumentPlaces
    <3> QED
      BY <3>1, <3>2
  <2> HIDE DEF place
  <2>15. ControlHeld' /\ TermPlaced' /\ ExprPlaced' /\ FormPlaced'
    BY <1>1, <1>4, <2>14, Settled
  <2> QED
    BY <1>1, <1>2, <2>5, <2>10, <2>11, <2>12, <2>13, <2>15, BodyTurn
<1> QED
  BY <1>2, <1>3, <1>4

LEMMA StartBodyKeeps ==
  ASSUME ParseIInv, StartBody, UNCHANGED hostVars
  PROVE  ParseIInv'
<1>1. pc = "body" /\ {pc, "element"} \subseteq Outside /\ body' = <<>> /\ tests' = <<>>
      /\ UNCHANGED <<poolVars, worldVars, termVars, exprVars>>
      /\ UNCHANGED <<default_trust, form, head, queries_at, name, args, trust, rules>>
  BY DEF StartBody, Outside, BodyPlaces, statementVars, worldVars
<1>2. /\ body' \in Seq(Pred) /\ tests' \in Seq(Run) /\ Len(body') = 0 /\ Len(tests') = 0
      /\ DOMAIN body' = {} /\ DOMAIN tests' = {}
  BY <1>1
<1>3. BodyHeld' /\ StatementHeld' /\ QueriesHeld'
  BY <1>1, <1>2, ClauseIs, QueriesKept, ParseAssumption DEF BodyHeld, StatementHeld
<1>4. RangesWithin(body', Len(terms)) /\ RangesWithin(tests', Len(ops))
  BY <1>2 DEF RangesWithin
<1>5. ReaderHeld' /\ Goes("element")
  BY Stayed DEF StartBody, ParseIInv
<1>6. FormPlaced'
  BY <1>1, <1>5 DEF ParseIInv, FormPlaced, TermPlaces, ExprPlaces, CallPlaces, BodyPlaces,
                    ClausePlaces, ArgumentPlaces, Goes
<1> QED
  BY <1>1, <1>3, <1>4, <1>5, <1>6, ClauseIs, QuietTurn

LEMMA StartElementKeeps ==
  ASSUME ParseIInv, StartElement, UNCHANGED hostVars
  PROVE  ParseIInv'
<1>1. pc = "element" /\ {pc, "predicate"} \subseteq Outside /\ form \in Stating
      /\ UNCHANGED <<poolVars, worldVars, statementVars, bodyVars, termVars, method, run>>
      /\ UNCHANGED Elsewhere
  BY DEF StartElement, Outside, BodyPlaces, ClausePlaces, Elsewhere, ParseIInv, FormPlaced
<1>2. CASE (Halt("MALFORMED") \/ Halt("LIMIT")) /\ UNCHANGED <<out, stack, operand_at, last_prec>>
  <2>1. ReaderHeld' /\ Ends
    BY <1>2, Halted DEF ParseIInv, Codes
  <2>2. ~Goes(pc) /\ UNCHANGED exprVars
    BY <1>1, <1>2, <2>1 DEF Ends, Goes, exprVars
  <2> QED
    BY <1>1, <2>1, <2>2, LookTurn
<1>3. CASE Len(body) < MaxBody /\ Stay("predicate") /\
         UNCHANGED <<out, stack, operand_at, last_prec>>
  <2>1. ReaderHeld' /\ Goes("predicate")
    BY <1>3, Stayed DEF ParseIInv
  <2>2. UNCHANGED exprVars
    BY <1>1, <1>3 DEF exprVars
  <2>3. FormPlaced'
    BY <1>1, <1>3, <2>1 DEF FormPlaced, IsHead, TermPlaces, ExprPlaces, CallPlaces, ClausePlaces,
                            ArgumentPlaces, Goes, statementVars, bodyVars
  <2> QED
    BY <1>1, <2>1, <2>2, <2>3, LookTurn
<1>4. CASE Len(tests) < MaxBody /\ CallExpression /\ UNCHANGED <<tokenVars, status>>
  <2>1. pc' = "want" /\ out' = <<>> /\ stack' = <<>> /\ operand_at' = 0 /\ last_prec' = 0
    BY <1>4 DEF CallExpression
  <2>2. /\ out' \in Seq(Op) /\ stack' \in Seq(EntryOf) /\ Len(out') = 0 /\ Len(stack') = 0
        /\ DOMAIN out' = {} /\ DOMAIN stack' = {}
    BY <2>1
  <2>3. /\ Stacked(stack', Len(out')) /\ Fitting(stack')
        /\ OpsWithin(out', Len(ops'), Len(terms'), Len(params'))
        /\ Len(out') <= Scratch /\ Len(stack') <= MaxDepth
    BY <2>2, CodeIs DEF Stacked, Fitting, OpsWithin
  <2>4. PoolsHeld' /\ Grown
    BY <1>1, PoolsKept DEF ParseIInv, PoolsHeld, poolVars
  <2>5. run.at + run.count <= Len(ops')
    BY <2>4, CodeAfter
  <2>6. ReaderHeld'
    BY <1>4 DEF ParseIInv, ReaderHeld, tokenVars
  <2>7. ControlHeld' /\ TermPlaced' /\ ExprPlaced'
    BY <1>1, <1>4, <2>1 DEF ParseIInv, ControlHeld, Places, TermPlaced, ExprPlaced, ReceiverLast,
                            TermPlaces, ExprPlaces, CallPlaces
  <2>8. FormPlaced'
    BY <1>1, <1>4, <2>1 DEF FormPlaced, TermPlaces, ExprPlaces, CallPlaces, BodyPlaces,
                            ClausePlaces, ArgumentPlaces, statementVars, bodyVars
  <2>9. operand_at' \in Nat /\ last_prec' \in 0 .. UnaryLevel /\ UNCHANGED <<method, run, termVars>>
    BY <1>1, <2>1 DEF UnaryLevel
  <2> QED
    BY <1>1, <2>2, <2>3, <2>4, <2>5, <2>6, <2>7, <2>8, <2>9, CodeIs, CodeTurn
<1> QED
  BY <1>2, <1>3, <1>4 DEF StartElement

LEMMA TakeExpressionKeeps ==
  ASSUME ParseIInv, TakeExpression, UNCHANGED hostVars
  PROVE  ParseIInv'
<1>1. pc = "expressed" /\ {pc, "element_read"} \subseteq Outside /\ tests' = Append(tests, run)
      /\ UNCHANGED <<poolVars, worldVars, termVars, exprVars>>
      /\ UNCHANGED <<default_trust, form, head, queries_at, body, name, args, trust, rules>>
  BY DEF TakeExpression, Outside, BodyPlaces, statementVars, worldVars
<1>2. form \in Stating /\ Len(tests) < MaxBody
  BY <1>1 DEF ParseIInv, FormPlaced, BodyPlaces, ClausePlaces
<1>3. tests \in Seq(Run) /\ run \in Run /\ run.at + run.count <= Len(ops) /\ MaxBody \in Nat
  BY CodeIs, ParseAssumption DEF ParseIInv, BodyHeld
<1>4. /\ tests' \in Seq(Run) /\ Len(tests') = Len(tests) + 1 /\ Len(tests) \in Nat
      /\ \A i \in DOMAIN tests' : \/ i \in DOMAIN tests /\ tests'[i] = tests[i]
                                  \/ i = Len(tests) + 1 /\ tests'[i] = run
  BY <1>1, <1>3, Appended
<1>5. Len(tests') <= MaxBody
  BY ONLY <1>2, <1>3, <1>4
<1>6. BodyHeld' /\ StatementHeld' /\ QueriesHeld'
  BY <1>1, <1>4, <1>5, ClauseIs, QueriesKept DEF BodyHeld, StatementHeld
<1>7. RangesWithin(tests', Len(ops))
  BY <1>3, <1>4, ClauseIs DEF RangesWithin
<1>8. ReaderHeld' /\ Goes("element_read")
  BY Stayed DEF TakeExpression, ParseIInv
<1>9. FormPlaced'
  BY <1>1, <1>2, <1>8 DEF FormPlaced, TermPlaces, ExprPlaces, CallPlaces, ClausePlaces,
                          ArgumentPlaces, Goes
<1> QED
  BY <1>1, <1>6, <1>7, <1>8, <1>9, ClauseIs, QuietTurn

LEMMA NextElementKeeps ==
  ASSUME ParseIInv, NextElement, UNCHANGED hostVars
  PROVE  ParseIInv'
<1>1. pc = "element_read" /\ {pc, "element", "trusting"} \subseteq Outside /\ form \in Stating
      /\ UNCHANGED <<poolVars, worldVars, statementVars, bodyVars, termVars, exprVars>>
  BY DEF NextElement, Outside, BodyPlaces, ClausePlaces, ParseIInv, FormPlaced
<1>2. \/ ReaderHeld' /\ (Ends \/ Goes("element"))
      \/ ReaderHeld' /\ (Ends \/ Goes("trusting"))
  BY Stayed, FetchedNext DEF NextElement, ParseIInv
<1>3. Goes("element") \/ Goes("trusting") => FormPlaced'
  BY <1>1 DEF FormPlaced, TermPlaces, ExprPlaces, CallPlaces, BodyPlaces, ClausePlaces,
              ArgumentPlaces, Goes, Stating, CheckForms, PolicyForms, statementVars
<1> QED
  BY <1>1, <1>2, <1>3, LookTurn

LEMMA ReadTrustingKeeps ==
  ASSUME ParseIInv, ReadTrusting, UNCHANGED hostVars
  PROVE  ParseIInv'
<1>1. pc = "trusting" /\ {pc, "end_body", "scope"} \subseteq Outside
      /\ form \in Stating \cup {"block"} /\ (form = "block" => IsWord("trusting"))
      /\ UNCHANGED <<poolVars, worldVars, termVars, exprVars>>
      /\ UNCHANGED <<default_trust, form, head, queries_at, body, tests, name, args, rules>>
  BY DEF ReadTrusting, Outside, BodyPlaces, ClausePlaces, ParseIInv, FormPlaced, statementVars,
         worldVars
<1>2. trust' \in Origins
  <2>1. MaxBlocks \in Nat /\ block \in 0 .. MaxBlocks /\ default_trust \in Origins
    BY ParseAssumption DEF ParseIInv, StatementHeld, HostHeld
  <2>2. trust' = default_trust \/ trust' = {MaxBlocks} \cup {block}
    BY DEF ReadTrusting, Self, Authorizer
  <2>3. MaxBlocks \in 0 .. MaxBlocks
    BY <2>1
  <2>4. {MaxBlocks} \cup {block} \in Origins
    BY <2>1, <2>3 DEF Origins
  <2> QED
    BY <2>1, <2>2, <2>4
<1>3. BodyHeld' /\ StatementHeld' /\ QueriesHeld'
  BY <1>1, <1>2, ClauseIs, QueriesKept DEF BodyHeld, StatementHeld
<1>4. \/ ReaderHeld' /\ (Ends \/ (Goes("end_body") /\ form \in Stating))
      \/ ReaderHeld' /\ (Ends \/ Goes("scope"))
  BY <1>1, Stayed, FetchedNext DEF ReadTrusting, ParseIInv
<1>5. (Goes("end_body") /\ form \in Stating) \/ Goes("scope") => FormPlaced'
  BY <1>1 DEF FormPlaced, TermPlaces, ExprPlaces, CallPlaces, BodyPlaces, ClausePlaces,
              ArgumentPlaces, Goes
<1>6. CASE Ends
  <2>1. ~Goes(pc)
    BY <1>1, <1>6 DEF Ends, Goes
  <2> QED
    BY <1>1, <1>3, <1>4, <1>6, <2>1, ClauseIs, QuietTurn
<1>7. CASE ~Ends
  BY <1>1, <1>3, <1>4, <1>5, <1>7, ClauseIs, QuietTurn
<1> QED
  BY <1>6, <1>7

LEMMA ReadScopeKeeps ==
  ASSUME ParseIInv, ReadScope, UNCHANGED hostVars
  PROVE  ParseIInv'
<1>1. pc = "scope" /\ {pc, "scope_read"} \subseteq Outside /\ form \in Stating \cup {"block"}
      /\ UNCHANGED <<poolVars, worldVars, termVars, exprVars>>
      /\ UNCHANGED <<default_trust, form, head, queries_at, body, tests, name, args, rules>>
  BY DEF ReadScope, Outside, BodyPlaces, ClausePlaces, ParseIInv, FormPlaced, statementVars,
         worldVars
<1>2. ScopeAdds \in Origins
  <2>1. /\ Len(signers) \in Nat /\ Len(signers) <= MaxBlocks /\ MaxBlocks \in Nat
        /\ block \in 0 .. MaxBlocks
    BY LenProperties, ParseAssumption DEF ParseIInv, HostHeld
  <2>2. SignedBy(tok.text) \subseteq 0 .. MaxBlocks
    BY <2>1 DEF SignedBy
  <2>3. 0 .. block \subseteq 0 .. MaxBlocks /\ 0 \in 0 .. MaxBlocks
    BY <2>1
  <2> QED
    BY <2>2, <2>3 DEF ScopeAdds, Origins
<1>3. trust' \in Origins
  BY <1>2 DEF ReadScope, ParseIInv, BodyHeld, Origins
<1>4. BodyHeld' /\ StatementHeld' /\ QueriesHeld'
  BY <1>1, <1>3, ClauseIs, QueriesKept DEF BodyHeld, StatementHeld
<1>5. ReaderHeld' /\ (Ends \/ Goes("scope_read"))
  BY Halted, FetchedNext DEF ReadScope, ParseIInv, Codes
<1>6. Goes("scope_read") => FormPlaced'
  BY <1>1 DEF FormPlaced, TermPlaces, ExprPlaces, CallPlaces, BodyPlaces, ClausePlaces,
              ArgumentPlaces, Goes
<1> QED
  BY <1>1, <1>4, <1>5, <1>6, ClauseIs, QuietTurn

LEMMA NextScopeKeeps ==
  ASSUME ParseIInv, NextScope, UNCHANGED hostVars
  PROVE  ParseIInv'
<1> DEFINE place == IF form = "block" THEN "end_clause" ELSE "end_body"
<1>1. pc = "scope_read" /\ {pc, "scope", "end_clause", "end_body"} \subseteq Outside
      /\ form \in Stating \cup {"block"}
      /\ UNCHANGED <<poolVars, worldVars, statementVars, bodyVars, termVars, exprVars>>
  BY DEF NextScope, Outside, BodyPlaces, TextPlaces, ClausePlaces, ParseIInv, FormPlaced
<1>2. \/ ReaderHeld' /\ (Ends \/ Goes("scope"))
      \/ ReaderHeld' /\ (Ends \/ Goes(place))
  <2> HIDE DEF place
  <2>1. Fetch("scope") \/ Stay(place)
    BY DEF NextScope, place
  <2> QED
    BY <2>1, Stayed, FetchedNext DEF ParseIInv
<1>3. Goes("scope") \/ Goes(place) => FormPlaced'
  BY <1>1 DEF FormPlaced, TermPlaces, ExprPlaces, CallPlaces, BodyPlaces, ClausePlaces,
              ArgumentPlaces, Goes, statementVars
<1>4. place \in Outside
  BY <1>1
<1> HIDE DEF place
<1> QED
  BY <1>1, <1>2, <1>3, <1>4, LookTurn

\* What a check asks is still there, and still queries, when another rule is
\* placed.
AskedIn(a, rs) == /\ a.query_count > 0 /\ a.query_at + a.query_count <= Len(rs)
                  /\ \A i \in a.query_at + 1 .. a.query_at + a.query_count : rs[i].is_query

LEMMA AskedMore ==
  ASSUME NEW a \in Asked, NEW rs \in Seq(RuleOf), NEW r \in RuleOf, AskedIn(a, rs)
  PROVE  AskedIn(a, Append(rs, r))
<1>1. a.query_at \in Nat /\ a.query_count \in Nat
  BY DEF Asked
<1>2. /\ Len(Append(rs, r)) = Len(rs) + 1 /\ Len(rs) \in Nat
      /\ \A i \in 1 .. Len(rs) : Append(rs, r)[i] = rs[i]
  BY AppendProperties, LenProperties
<1>3. a.query_at + a.query_count <= Len(rs) /\ a.query_count > 0
  BY DEF AskedIn
<1>4. \A i \in a.query_at + 1 .. a.query_at + a.query_count : i \in 1 .. Len(rs)
  BY <1>1, <1>2, <1>3
<1>5. a.query_at + a.query_count <= Len(Append(rs, r))
  BY ONLY <1>1, <1>2, <1>3
<1>6. \A i \in a.query_at + 1 .. a.query_at + a.query_count : Append(rs, r)[i].is_query
  BY <1>2, <1>4 DEF AskedIn
<1> QED
  BY <1>3, <1>5, <1>6 DEF AskedIn

LEMMA AllAskIs ==
  ASSUME WorldHeld
  PROVE  /\ AllAsk <=> /\ \A i \in DOMAIN checks : AskedIn(checks[i].asks, rules)
                       /\ \A i \in DOMAIN policies : AskedIn(policies[i], rules)
         /\ AllAsk' <=> /\ \A i \in DOMAIN checks' : AskedIn(checks'[i].asks, rules')
                        /\ \A i \in DOMAIN policies' : AskedIn(policies'[i], rules')
         /\ \A i \in DOMAIN checks : checks[i] \in CheckOf /\ checks[i].asks \in Asked
         /\ \A i \in DOMAIN policies : policies[i] \in Asked
<1>1. \A i \in DOMAIN checks : checks[i] \in CheckOf
  BY LenProperties, ElementOfSeq DEF WorldHeld
<1>2. \A i \in DOMAIN policies : policies[i] \in Asked
  BY LenProperties, ElementOfSeq DEF WorldHeld
<1> QED
  BY <1>1, <1>2 DEF AllAsk, AsksQueries, AskedIn, CheckOf

\* The predicates of a body, or its expressions, go behind those placed.
LEMMA PredsPlaced ==
  ASSUME NEW ps \in Seq(Pred), NEW qs \in Seq(Pred), NEW n, RangesWithin(ps, n), RangesWithin(qs, n)
  PROVE  /\ ps \o qs \in Seq(Pred) /\ Len(ps \o qs) = Len(ps) + Len(qs)
         /\ Len(ps) \in Nat /\ Len(qs) \in Nat /\ RangesWithin(ps \o qs, n)
BY Joined, LenProperties DEF RangesWithin

LEMMA RunsPlaced ==
  ASSUME NEW ps \in Seq(Run), NEW qs \in Seq(Run), NEW n, RangesWithin(ps, n), RangesWithin(qs, n)
  PROVE  /\ ps \o qs \in Seq(Run) /\ Len(ps \o qs) = Len(ps) + Len(qs)
         /\ Len(ps) \in Nat /\ Len(qs) \in Nat /\ RangesWithin(ps \o qs, n)
BY Joined, LenProperties DEF RangesWithin

LEMMA PlaceRuleKeeps ==
  ASSUME ParseIInv, PlaceRule, UNCHANGED hostVars
  PROVE  ParseIInv'
<1> DEFINE place == IF form = "clause" THEN "end_statement" ELSE "asked"
<1>1. pc = "end_body" /\ {pc, "end_statement", "asked"} \subseteq Outside /\ form \in Stating
      /\ UNCHANGED <<hostVars, poolVars, facts, checks, policies, statementVars, bodyVars>>
      /\ UNCHANGED <<termVars, exprVars>>
      /\ UNCHANGED <<terms, ops, params, known, default_trust, form, head, queries_at, body, tests,
                     name, args, trust>>
  BY DEF PlaceRule, Outside, BodyPlaces, TextPlaces, ClausePlaces, ParseIInv, FormPlaced, poolVars,
         statementVars, bodyVars
<1>2. PoolsHeld' /\ Grown
  BY <1>1, PoolsKept DEF ParseIInv, PoolsHeld
<1>3. /\ preds \in Seq(Pred) /\ exprs \in Seq(Run) /\ rules \in Seq(RuleOf)
      /\ RangesWithin(preds, Len(terms)) /\ RangesWithin(exprs, Len(ops))
      /\ body \in Seq(Pred) /\ tests \in Seq(Run) /\ head \in Seq(Pred)
      /\ trust \in Origins /\ block \in 0 .. MaxBlocks /\ queries_at \in Nat
      /\ Len(preds) \in Nat /\ Len(exprs) \in Nat /\ Len(rules) \in Nat
      /\ \A i \in DOMAIN rules : RuleWithin(rules[i], Len(terms), Len(preds), Len(exprs))
  BY LenProperties DEF ParseIInv, WorldHeld, WorldWithin, BodyHeld, StatementHeld, HostHeld
<1>4. /\ RangesWithin(body, Len(terms)) /\ RangesWithin(head, Len(terms))
      /\ RangesWithin(tests, Len(ops)) /\ Len(terms) \in Nat
  BY ClauseIs, PoolSizes DEF ParseIInv
<1>5. /\ preds' \in Seq(Pred) /\ RangesWithin(preds', Len(terms)) /\ Len(preds') \in Nat
      /\ Len(preds) <= Len(preds')
      /\ Placing = "OK" => Len(preds') = Len(preds) + Len(body)
  <2>1. preds' = preds \o body \/ preds' = preds
    BY DEF PlaceRule
  <2>2. Placing = "OK" => preds' = preds \o body
    BY DEF PlaceRule, Placing
  <2>3. /\ preds \o body \in Seq(Pred) /\ Len(preds \o body) = Len(preds) + Len(body)
        /\ RangesWithin(preds \o body, Len(terms)) /\ Len(body) \in Nat
    BY <1>3, <1>4, PredsPlaced
  <2>4. CASE preds' = preds \o body
    BY <1>3, <2>3, <2>4
  <2>5. CASE preds' = preds /\ preds' # preds \o body
    BY <1>3, <2>2, <2>5
  <2> QED
    BY <2>1, <2>4, <2>5
<1>6. /\ exprs' \in Seq(Run) /\ RangesWithin(exprs', Len(ops)) /\ Len(exprs') \in Nat
      /\ Len(exprs) <= Len(exprs')
      /\ Placing = "OK" => Len(exprs') = Len(exprs) + Len(tests)
  <2>1. exprs' = exprs \o tests \/ exprs' = exprs
    BY DEF PlaceRule
  <2>2. Placing = "OK" => exprs' = exprs \o tests
    BY DEF PlaceRule, Placing
  <2>3. /\ exprs \o tests \in Seq(Run) /\ Len(exprs \o tests) = Len(exprs) + Len(tests)
        /\ RangesWithin(exprs \o tests, Len(ops)) /\ Len(tests) \in Nat
    BY <1>3, <1>4, RunsPlaced
  <2>4. CASE exprs' = exprs \o tests
    BY <1>3, <2>3, <2>4
  <2>5. CASE exprs' = exprs /\ exprs' # exprs \o tests
    BY <1>3, <2>2, <2>5
  <2> QED
    BY <2>1, <2>4, <2>5
<1>7. \A i \in DOMAIN rules : RuleWithin(rules[i], Len(terms), Len(preds'), Len(exprs'))
  <2>1. \A i \in DOMAIN rules : rules[i] \in RuleOf
    BY <1>3, LenProperties, ElementOfSeq
  <2> QED
    BY <1>3, <1>4, <1>5, <1>6, <2>1, RuleWithinMore
<1>8. PICK r : r = Rule
  OBVIOUS
<1>9. /\ r \in RuleOf /\ (head = <<>> => r.is_query)
      /\ Placing = "OK" => RuleWithin(r, Len(terms), Len(preds'), Len(exprs'))
  <2>1. Len(body) \in Nat /\ Len(tests) \in Nat
    BY <1>3, LenProperties
  <2>2. /\ r.head = head /\ r.is_query = (head = <<>>) /\ r.body_at = Len(preds)
        /\ r.body_count = Len(body) /\ r.expr_at = Len(exprs) /\ r.expr_count = Len(tests)
    BY <1>8 DEF Rule
  <2>3. r \in RuleOf
    BY <1>3, <1>8, <2>1 DEF Rule, RuleOf
  <2>4. ASSUME Placing = "OK" PROVE RuleWithin(r, Len(terms), Len(preds'), Len(exprs'))
    <3>1. Len(preds') = Len(preds) + Len(body) /\ Len(exprs') = Len(exprs) + Len(tests)
      BY <1>5, <1>6, <2>4
    <3> QED
      BY <1>3, <1>4, <2>1, <2>2, <3>1 DEF RuleWithin
  <2> QED
    BY <2>2, <2>3, <2>4
<1>10. \/ Placing = "OK" /\ rules' = Append(rules, r)
       \/ Placing # "OK" /\ rules' = rules
  BY <1>8 DEF PlaceRule, Counts
<1>11. /\ rules' \in Seq(RuleOf)
       /\ Placing = "OK" => Len(rules') = Len(rules) + 1
       /\ Placing # "OK" => rules' = rules
       /\ \A i \in DOMAIN rules' :
            \/ i \in DOMAIN rules /\ rules'[i] = rules[i]
            \/ Placing = "OK" /\ i = Len(rules) + 1 /\ rules'[i] = r
  <2>1. /\ Append(rules, r) \in Seq(RuleOf) /\ Len(Append(rules, r)) = Len(rules) + 1
        /\ \A i \in DOMAIN Append(rules, r) :
             \/ i \in DOMAIN rules /\ Append(rules, r)[i] = rules[i]
             \/ i = Len(rules) + 1 /\ Append(rules, r)[i] = r
    BY <1>3, <1>9, Appended
  <2>2. CASE Placing = "OK" /\ rules' = Append(rules, r)
    BY <2>1, <2>2
  <2>3. CASE Placing # "OK" /\ rules' = rules
    BY <1>3, <2>3
  <2> QED
    BY <1>10, <2>2, <2>3
<1>12. WorldHeld'
  BY <1>1, <1>5, <1>6, <1>11 DEF ParseIInv, WorldHeld
<1>13. WorldWithin'
  <2>1. \A i \in DOMAIN rules' : RuleWithin(rules'[i], Len(terms'), Len(preds'), Len(exprs'))
    BY <1>1, <1>7, <1>9, <1>11
  <2> QED
    BY <1>1, <1>5, <1>6, <2>1 DEF ParseIInv, WorldWithin
<1>14. AllAsk'
  <2>1. WorldHeld /\ AllAsk
    BY DEF ParseIInv
  <2>2. CASE rules' = rules
    BY <1>1, <2>1, <2>2, AllAskIs
  <2>3. CASE rules' = Append(rules, r)
    BY <1>1, <1>3, <1>9, <2>1, <2>3, AllAskIs, AskedMore
  <2> QED
    BY <1>10, <2>2, <2>3
<1>15. QueriesHeld'
  <2> SUFFICES ASSUME form \in Asking
               PROVE  /\ head = <<>> /\ queries_at <= Len(rules')
                      /\ \A i \in queries_at + 1 .. Len(rules') : rules'[i].is_query
    BY <1>1 DEF QueriesHeld
  <2>1. /\ head = <<>> /\ queries_at <= Len(rules)
        /\ \A i \in queries_at + 1 .. Len(rules) : rules[i].is_query
    BY DEF ParseIInv, QueriesHeld
  <2>2. CASE Placing = "OK"
    <3>1. Len(rules') = Len(rules) + 1
      BY <1>11, <2>2
    <3>2. ASSUME NEW i \in queries_at + 1 .. Len(rules')
          PROVE  rules'[i].is_query
      <4>1. i \in DOMAIN rules'
        BY <1>3, <1>11, <3>1, LenProperties
      <4>2. CASE i \in DOMAIN rules /\ rules'[i] = rules[i]
        <5>1. i \in queries_at + 1 .. Len(rules)
          BY <1>3, <4>2, LenProperties
        <5> QED
          BY <2>1, <4>2, <5>1
      <4>3. CASE rules'[i] = r
        BY <1>9, <2>1, <4>3
      <4> QED
        BY <1>11, <4>1, <4>2, <4>3
    <3> QED
      BY <1>3, <2>1, <3>1, <3>2
  <2>3. CASE Placing # "OK"
    BY <1>11, <2>1, <2>3
  <2> QED
    BY <2>2, <2>3
<1>16. BodyHeld' /\ StatementHeld' /\ TermsWithin(args', Len(terms')) /\ ClausePending'
  BY <1>1, <1>2, ClauseIs, ClauseStillPending DEF ParseIInv, BodyHeld, StatementHeld
<1>17. ReaderHeld' /\ (Ends \/ (Goes(place) /\ Placing = "OK"))
  <2> HIDE DEF place
  <2>1. (Placing # "OK" /\ Halt(Placing)) \/ (Placing = "OK" /\ Stay(place))
    BY DEF PlaceRule, place
  <2>2. Placing \in Codes
    BY DEF Placing, Codes
  <2> QED
    BY <2>1, <2>2, Halted, Stayed DEF ParseIInv
<1>18. Goes(place) /\ Placing = "OK" => FormPlaced'
  <2>1. CASE form = "clause"
    BY <1>1, <2>1 DEF FormPlaced, Goes, TermPlaces, ExprPlaces, CallPlaces, BodyPlaces,
                      ClausePlaces, ArgumentPlaces
  <2>2. CASE form # "clause" /\ Placing = "OK"
    <3>1. form \in CheckForms \cup PolicyForms /\ form \in Asking
      BY <1>1, <2>2 DEF Stating, Asking
    <3>2. queries_at <= Len(rules)
      BY <3>1 DEF ParseIInv, QueriesHeld
    <3>3. queries_at' < Len(rules')
      BY <1>1, <1>3, <1>11, <2>2, <3>2
    <3> QED
      BY <1>1, <2>2, <3>1, <3>3 DEF FormPlaced, Goes, TermPlaces, ExprPlaces, CallPlaces,
             BodyPlaces,
                                    ClausePlaces, ArgumentPlaces
  <2> QED
    BY <2>1, <2>2
<1>19. ControlHeld' /\ TermPlaced' /\ ExprPlaced' /\ FormPlaced'
  <2>1. place \in Outside
    BY <1>1
  <2> HIDE DEF place
  <2>2. CASE Ends
    <3>1. ~Goes(pc)
      BY <1>1, <2>2 DEF Ends, Goes, Outside
    <3> QED
      BY <1>1, <2>2, <3>1, Settled
  <2> QED
    BY <1>1, <1>17, <1>18, <2>1, <2>2, Settled
<1> QED
  BY <1>1, <1>2, <1>12, <1>13, <1>14, <1>15, <1>16, <1>17, <1>19, BodyTurn

LEMMA StartStatementKeeps ==
  ASSUME ParseIInv, StartStatement, UNCHANGED hostVars
  PROVE  ParseIInv'
<1>1. pc = "statement" /\ {pc, "asks", "predicate"} \subseteq Outside
      /\ head' = <<>> /\ queries_at' = Len(rules)
      /\ UNCHANGED <<poolVars, worldVars, termVars, exprVars>>
      /\ UNCHANGED <<default_trust, body, tests, name, args, trust, rules>>
  BY DEF StartStatement, FirstQuery, Outside, BodyPlaces, TextPlaces, bodyVars, worldVars
<1>2. form' \in {"check", "reject", "allow", "deny", "clause"}
  BY DEF StartStatement
<1>3. \/ ReaderHeld' /\ (Ends \/ Goes("asks")) /\ form' # "clause"
      \/ ReaderHeld' /\ (Ends \/ Goes("predicate")) /\ form' = "clause"
  BY Stayed, FetchedNext DEF StartStatement, ParseIInv
<1>4. Len(rules) \in Nat /\ head' \in Seq(Pred) /\ Len(head') = 0 /\ DOMAIN head' = {}
  BY <1>1, LenProperties DEF ParseIInv, WorldHeld
<1>5. BodyHeld' /\ StatementHeld'
  BY <1>1, <1>2, <1>4, ClauseIs DEF BodyHeld, StatementHeld, Forms, CheckForms,
    PolicyForms
<1>6. QueriesHeld'
  BY <1>1, <1>4 DEF QueriesHeld
<1>7. RangesWithin(head', Len(terms))
  BY <1>4 DEF RangesWithin
<1>8. Goes("asks") /\ form' # "clause" => FormPlaced'
  BY <1>2 DEF FormPlaced, TermPlaces, ExprPlaces, CallPlaces, BodyPlaces, ClausePlaces,
              ArgumentPlaces, Goes
<1>9. Goes("predicate") /\ form' = "clause" => FormPlaced'
  BY <1>1 DEF FormPlaced, IsHead, TermPlaces, ExprPlaces, CallPlaces, ClausePlaces, ArgumentPlaces,
              Goes, Stating
<1>10. CASE ReaderHeld' /\ (Ends \/ Goes("asks")) /\ form' # "clause"
  BY <1>1, <1>5, <1>6, <1>7, <1>8, <1>10, ClauseIs, QuietTurn
<1>11. CASE ReaderHeld' /\ (Ends \/ Goes("predicate")) /\ form' = "clause"
  BY <1>1, <1>5, <1>6, <1>7, <1>9, <1>11, ClauseIs, QuietTurn
<1> QED
  BY <1>3, <1>10, <1>11

LEMMA StartQueriesKeeps ==
  ASSUME ParseIInv, StartQueries, UNCHANGED hostVars
  PROVE  ParseIInv'
<1>1. pc = "asks" /\ {pc, "body"} \subseteq Outside
      /\ UNCHANGED <<poolVars, worldVars, termVars, exprVars>>
      /\ UNCHANGED <<default_trust, head, queries_at, body, tests, name, args, trust, rules>>
  BY DEF StartQueries, Outside, BodyPlaces, TextPlaces, bodyVars, worldVars
<1>2. form \in {"check", "reject", "allow", "deny"}
  BY <1>1 DEF ParseIInv, FormPlaced
<1>3. \/ ReaderHeld' /\ Ends /\ form' = form
      \/ /\ ReaderHeld' /\ (Ends \/ Goes("body"))
         /\ form' \in CheckForms \cup PolicyForms
  BY <1>2, Halted, FetchedNext DEF StartQueries, ParseIInv, Codes, CheckForms, PolicyForms
<1>4. form \in Asking /\ form' \in Asking /\ form' \in Forms
  BY <1>2, <1>3 DEF Asking, Forms, CheckForms, PolicyForms
<1>5. BodyHeld' /\ StatementHeld' /\ QueriesHeld'
  BY <1>1, <1>4, ClauseIs DEF BodyHeld, StatementHeld, QueriesHeld
<1>6. Goes("body") /\ form' \in CheckForms \cup PolicyForms => FormPlaced'
  BY DEF FormPlaced, TermPlaces, ExprPlaces, CallPlaces, ClausePlaces, ArgumentPlaces, Goes, Stating
<1>7. CASE Ends
  <2>1. ~Goes(pc)
    BY <1>1, <1>7 DEF Ends, Goes, Outside
  <2> QED
    BY <1>1, <1>3, <1>5, <1>7, <2>1, ClauseIs, QuietTurn
<1>8. CASE ~Ends
  BY <1>1, <1>3, <1>5, <1>6, <1>8, ClauseIs, QuietTurn
<1> QED
  BY <1>7, <1>8

LEMMA OnwardKeeps ==
  ASSUME ParseIInv, NextQuery \/ StartRule \/ EndStatement \/ Start \/ EndText, UNCHANGED hostVars
  PROVE  ParseIInv'
<1>1. {"asked", "head", "end_statement", "start", "statement", "body", "first"} \subseteq Outside
  BY DEF Outside, BodyPlaces, TextPlaces
<1>2. HostHeld /\ ReaderHeld /\ {"MALFORMED", "NOMEM", "OK"} \subseteq Codes
  BY DEF ParseIInv, Codes
<1>3. CASE NextQuery
  <2>1. pc = "asked" /\ UNCHANGED <<poolVars, worldVars, statementVars, bodyVars, termVars,
         exprVars>>
        /\ form \in CheckForms \cup PolicyForms
    BY <1>3 DEF NextQuery, ParseIInv, FormPlaced
  <2>2. ReaderHeld' /\ (Ends \/ Goes("body"))
    BY <1>2, <1>3, FetchedNext DEF NextQuery
  <2>3. Goes("body") => FormPlaced'
    BY <2>1 DEF FormPlaced, TermPlaces, ExprPlaces, CallPlaces, ClausePlaces, ArgumentPlaces, Goes,
                Stating, statementVars
  <2> QED
    BY <1>1, <2>1, <2>2, <2>3, LookTurn
<1>4. CASE StartRule
  <2>1. pc = "head" /\ UNCHANGED <<poolVars, worldVars, statementVars, bodyVars, termVars,
         exprVars>>
        /\ form = "clause"
    BY <1>4 DEF StartRule, ParseIInv, FormPlaced
  <2>2. ReaderHeld' /\ (Ends \/ Goes("body"))
    BY <1>2, <1>4, FetchedNext DEF StartRule
  <2>3. Goes("body") => FormPlaced'
    BY <2>1 DEF FormPlaced, TermPlaces, ExprPlaces, CallPlaces, ClausePlaces, ArgumentPlaces, Goes,
                Stating, statementVars
  <2> QED
    BY <1>1, <2>1, <2>2, <2>3, LookTurn
<1>5. CASE EndStatement
  <2>1. pc = "end_statement"
        /\ UNCHANGED <<poolVars, worldVars, statementVars, bodyVars, termVars, exprVars>>
    BY <1>5 DEF EndStatement
  <2>2. ReaderHeld' /\ (Ends \/ Goes("statement"))
    BY <1>2, <1>5, FetchedNext, Stayed, Halted DEF EndStatement
  <2>3. Goes("statement") => FormPlaced'
    BY DEF FormPlaced, TermPlaces, ExprPlaces, CallPlaces, BodyPlaces, ClausePlaces, ArgumentPlaces,
           Goes
  <2> QED
    BY <1>1, <2>1, <2>2, <2>3, LookTurn
<1>6. CASE Start
  <2>1. pc = "start"
        /\ UNCHANGED <<poolVars, worldVars, statementVars, bodyVars, termVars, exprVars>>
    BY <1>6 DEF Start
  <2>2. ReaderHeld' /\ (Ends \/ Goes("first"))
    BY <1>2, <1>6, FetchedNext, Halted DEF Start
  <2>3. Goes("first") => FormPlaced'
    BY DEF FormPlaced, TermPlaces, ExprPlaces, CallPlaces, BodyPlaces, ClausePlaces, ArgumentPlaces,
           Goes
  <2> QED
    BY <1>1, <2>1, <2>2, <2>3, LookTurn
<1>7. CASE EndText
  <2>1. pc = "statement"
        /\ UNCHANGED <<poolVars, worldVars, statementVars, bodyVars, termVars, exprVars>>
    BY <1>7 DEF EndText, readerVars
  <2>2. ReaderHeld' /\ Ends
    BY <1>2, <1>7 DEF EndText, readerVars, tokenVars, ReaderHeld, Ends
  <2>3. ~Goes(pc)
    BY <2>1, <2>2 DEF Ends, Goes
  <2> QED
    BY <1>1, <2>1, <2>2, <2>3, LookTurn
<1> QED
  BY <1>3, <1>4, <1>5, <1>6, <1>7

\* A turn that adds to what is stated or asked, and to nothing else.
LEMMA PlaceTurn ==
  ASSUME ParseIInv, pc \in Outside,
         UNCHANGED <<hostVars, poolVars, preds, exprs, rules, statementVars, bodyVars, termVars,
                exprVars>>,
         ReaderHeld', facts' \in Seq(FactOf), checks' \in Seq(CheckOf), policies' \in Seq(Asked),
         \A i \in DOMAIN facts' : facts'[i].pred.at + facts'[i].pred.count <= Len(terms),
         \A i \in DOMAIN checks' : AskedIn(checks'[i].asks, rules),
         \A i \in DOMAIN policies' : AskedIn(policies'[i], rules),
         Ends \/ Goes("end_statement")
  PROVE  ParseIInv'
<1>1. UNCHANGED <<terms, ops, params, known, default_trust, form, head, queries_at, body, tests,
                  name, args, trust>>
  BY DEF poolVars, statementVars, bodyVars
<1>2. PoolsHeld' /\ Grown
  BY <1>1, PoolsKept DEF ParseIInv, PoolsHeld
<1>3. BodyHeld' /\ StatementHeld' /\ QueriesHeld' /\ ClausePending'
       /\ TermsWithin(args', Len(terms'))
  BY <1>1, ClauseIs, QueriesKept DEF BodyHeld, StatementHeld, ClausePending
<1>4. WorldHeld' /\ WorldWithin'
  BY <1>1 DEF ParseIInv, WorldHeld, WorldWithin
<1>5. AllAsk'
  BY AllAskIs DEF ParseIInv
<1>6. "end_statement" \in Outside
  BY DEF Outside, TextPlaces
<1>7. Goes("end_statement") => FormPlaced'
  BY DEF FormPlaced, TermPlaces, ExprPlaces, CallPlaces, BodyPlaces, ClausePlaces, ArgumentPlaces,
         Goes
<1>8. ControlHeld' /\ TermPlaced' /\ ExprPlaced' /\ FormPlaced'
  BY <1>6, <1>7, Settled
<1> QED
  BY <1>2, <1>3, <1>4, <1>5, <1>8, BodyTurn

LEMMA WorldIs ==
  ASSUME ParseIInv
  PROVE  /\ facts \in Seq(FactOf) /\ checks \in Seq(CheckOf) /\ policies \in Seq(Asked)
         /\ \A i \in DOMAIN facts : facts[i].pred.at + facts[i].pred.count <= Len(terms)
         /\ \A i \in DOMAIN checks : AskedIn(checks[i].asks, rules)
         /\ \A i \in DOMAIN policies : AskedIn(policies[i], rules)
         /\ Len(rules) \in Nat /\ block \in 0 .. MaxBlocks /\ HostHeld /\ ReaderHeld
         /\ "MALFORMED" \in Codes /\ "NOMEM" \in Codes
BY AllAskIs, LenProperties DEF ParseIInv, WorldHeld, WorldWithin, HostHeld, Codes

LEMMA AsksWell ==
  ASSUME ParseIInv, pc = "asked"
  PROVE  /\ pc \in Outside
         /\ \A a : a = Asks => a \in Asked /\ AskedIn(a, rules)
<1>1. pc \in Outside
  BY DEF Outside, TextPlaces
<1>2. form \in CheckForms \cup PolicyForms /\ queries_at < Len(rules) /\ queries_at \in Nat
      /\ Len(rules) \in Nat
  BY WorldIs DEF ParseIInv, FormPlaced, StatementHeld
<1>3. \A i \in queries_at + 1 .. Len(rules) : rules[i].is_query
  BY <1>2 DEF ParseIInv, QueriesHeld, Asking
<1>4. PICK n \in Nat : n = Len(rules) - queries_at /\ n > 0 /\ queries_at + n = Len(rules)
  BY <1>2
<1>5. Asks = [kind |-> form, query_at |-> queries_at, query_count |-> n]
  BY <1>4 DEF Asks
<1>6. Asks \in Asked
  BY <1>2, <1>5 DEF Asked
<1>7. AskedIn(Asks, rules)
  BY <1>2, <1>3, <1>4, <1>5 DEF AskedIn
<1> QED
  BY <1>1, <1>6, <1>7

LEMMA PlaceAskingKeeps ==
  ASSUME ParseIInv, PlaceCheck \/ PlacePolicy, UNCHANGED hostVars
  PROVE  ParseIInv'
<1>1. pc = "asked" /\ pc \in Outside
      /\ UNCHANGED <<poolVars, preds, exprs, facts, rules, statementVars, bodyVars, termVars,
             exprVars>>
  BY AsksWell DEF PlaceCheck, PlacePolicy
<1>2. PICK a : a = Asks
  OBVIOUS
<1>3. a \in Asked /\ AskedIn(a, rules)
  BY <1>1, <1>2, AsksWell
<1>4. ReaderHeld' /\ (Ends \/ Goes("end_statement"))
  BY WorldIs, Halted, Stayed DEF PlaceCheck, PlacePolicy
<1>5. CASE PlaceCheck
  <2>1. (checks' = checks \/ checks' = Append(checks, [asks |-> a, block |-> block]))
        /\ policies' = policies
    BY <1>2, <1>5 DEF PlaceCheck
  <2>2. PICK c : c = [asks |-> a, block |-> block]
    OBVIOUS
  <2>3. c \in CheckOf /\ c.asks = a
    BY <1>3, <2>2, WorldIs DEF CheckOf
  <2>4. checks' \in Seq(CheckOf) /\ \A i \in DOMAIN checks' : AskedIn(checks'[i].asks, rules)
    <3>1. CASE checks' = checks
      BY <3>1, WorldIs
    <3>2. CASE checks' = Append(checks, c)
      BY <1>3, <2>3, <3>2, WorldIs, Appended
    <3> QED
      BY <2>1, <2>2, <3>1, <3>2
  <2> QED
    BY <1>1, <1>4, <2>1, <2>4, WorldIs, PlaceTurn
<1>6. CASE PlacePolicy
  <2>1. (policies' = policies \/ policies' = Append(policies, a)) /\ checks' = checks
    BY <1>2, <1>6 DEF PlacePolicy
  <2>2. policies' \in Seq(Asked) /\ \A i \in DOMAIN policies' : AskedIn(policies'[i], rules)
    <3>1. CASE policies' = policies
      BY <3>1, WorldIs
    <3>2. CASE policies' = Append(policies, a)
      BY <1>3, <3>2, WorldIs, Appended
    <3> QED
      BY <2>1, <3>1, <3>2
  <2> QED
    BY <1>1, <1>4, <2>1, <2>2, WorldIs, PlaceTurn
<1> QED
  BY <1>5, <1>6

LEMMA PlaceFactKeeps ==
  ASSUME ParseIInv, PlaceFact, UNCHANGED hostVars
  PROVE  ParseIInv'
<1>1. pc = "head" /\ pc \in Outside /\ head # <<>>
      /\ UNCHANGED <<poolVars, preds, exprs, rules, checks, policies, statementVars, bodyVars,
                     termVars, exprVars>>
  BY DEF PlaceFact, Outside, TextPlaces, ParseIInv, FormPlaced
<1>2. ReaderHeld' /\ (Ends \/ Goes("end_statement"))
  BY WorldIs, Halted, Stayed DEF PlaceFact
<1>3. PICK f : f = [pred |-> head[1], origin |-> Self]
  OBVIOUS
<1>4. f \in FactOf /\ f.pred.at + f.pred.count <= Len(terms)
  <2>1. head \in Seq(Pred) /\ 1 \in DOMAIN head /\ head[1] \in Pred
    BY <1>1, LenProperties, EmptySeq, ElementOfSeq DEF ParseIInv, StatementHeld
  <2>2. head[1].at + head[1].count <= Len(terms)
    BY <2>1, ClauseIs DEF RangesWithin
  <2>3. Self \in Origins
    BY WorldIs DEF Self, Origins
  <2> QED
    BY <1>3, <2>1, <2>2, <2>3 DEF FactOf
<1>5. facts' = facts \/ facts' = Append(facts, f)
  BY <1>3 DEF PlaceFact
<1>6. /\ facts' \in Seq(FactOf)
      /\ \A i \in DOMAIN facts' : facts'[i].pred.at + facts'[i].pred.count <= Len(terms)
  <2>1. CASE facts' = facts
    BY <2>1, WorldIs
  <2>2. CASE facts' = Append(facts, f)
    BY <1>4, <2>2, WorldIs, Appended
  <2> QED
    BY <1>5, <2>1, <2>2
<1> QED
  BY <1>1, <1>2, <1>6, WorldIs, PlaceTurn

LEMMA StartTextKeeps ==
  ASSUME ParseIInv, StartText, UNCHANGED hostVars
  PROVE  ParseIInv'
<1>1. pc = "first" /\ {pc, "trusting", "statement"} \subseteq Outside
      /\ UNCHANGED <<poolVars, worldVars, termVars, exprVars>>
      /\ UNCHANGED <<default_trust, head, queries_at, body, tests, name, args, trust, rules>>
  BY DEF StartText, Outside, BodyPlaces, TextPlaces, bodyVars, worldVars
<1>2. \/ ReaderHeld' /\ Ends /\ form' = form
      \/ ReaderHeld' /\ Goes("trusting") /\ form' = "block" /\ IsWord("trusting")'
      \/ ReaderHeld' /\ Goes("statement") /\ form' = form
  <2>1. HostHeld /\ ReaderHeld /\ "MALFORMED" \in Codes
    BY WorldIs
  <2>2. CASE Halt("MALFORMED") /\ UNCHANGED form
    BY <2>1, <2>2, Halted
  <2>3. CASE OpensClause /\ form' = "block" /\ Stay("trusting")
    <3>1. ReaderHeld' /\ Goes("trusting") /\ tok' = tok
      BY <2>1, <2>3, Stayed
    <3> QED
      BY <2>3, <3>1 DEF OpensClause, IsWord
  <2>4. CASE Stay("statement") /\ UNCHANGED form
    BY <2>1, <2>4, Stayed
  <2> QED
    BY <2>2, <2>3, <2>4 DEF StartText
<1>3. BodyHeld' /\ StatementHeld'
  BY <1>1, <1>2, ClauseIs DEF BodyHeld, StatementHeld, Forms
<1>4. QueriesHeld'
  <2>1. CASE form' = form
    BY <1>1, <2>1, ClauseIs, QueriesKept
  <2>2. CASE form' = "block"
    BY <2>2 DEF QueriesHeld, Asking, CheckForms, PolicyForms
  <2> QED
    BY <1>2, <2>1, <2>2
<1>5. CASE Ends
  <2>1. ~Goes(pc)
    BY <1>1, <1>5 DEF Ends, Goes, Outside
  <2> QED
    BY <1>1, <1>2, <1>3, <1>4, <1>5, <2>1, ClauseIs, QuietTurn
<1>6. CASE Goes("trusting") /\ form' = "block" /\ IsWord("trusting")'
  <2>1. FormPlaced'
    BY <1>6 DEF FormPlaced, TermPlaces, ExprPlaces, CallPlaces, BodyPlaces, ClausePlaces,
                ArgumentPlaces, Goes
  <2> QED
    BY <1>1, <1>2, <1>3, <1>4, <1>6, <2>1, ClauseIs, QuietTurn
<1>7. CASE Goes("statement")
  <2>1. FormPlaced'
    BY <1>7 DEF FormPlaced, TermPlaces, ExprPlaces, CallPlaces, BodyPlaces, ClausePlaces,
                ArgumentPlaces, Goes
  <2> QED
    BY <1>1, <1>2, <1>3, <1>4, <1>7, <2>1, ClauseIs, QuietTurn
<1> QED
  BY <1>2, <1>5, <1>6, <1>7

LEMMA EndClauseKeeps ==
  ASSUME ParseIInv, EndClause, UNCHANGED hostVars
  PROVE  ParseIInv'
<1>1. pc = "end_clause" /\ {pc, "statement"} \subseteq Outside /\ default_trust' = trust
      /\ UNCHANGED <<poolVars, worldVars, termVars, exprVars>>
      /\ UNCHANGED <<form, head, queries_at, body, tests, name, args, trust, rules>>
  BY DEF EndClause, Outside, TextPlaces, bodyVars, worldVars
<1>2. BodyHeld' /\ StatementHeld' /\ QueriesHeld'
  BY <1>1, ClauseIs, QueriesKept DEF BodyHeld, StatementHeld
<1>3. ReaderHeld' /\ (Ends \/ Goes("statement"))
  BY WorldIs, Halted, FetchedNext DEF EndClause
<1>4. Goes("statement") => FormPlaced'
  BY DEF FormPlaced, TermPlaces, ExprPlaces, CallPlaces, BodyPlaces, ClausePlaces, ArgumentPlaces,
         Goes
<1> QED
  BY <1>1, <1>2, <1>3, <1>4, ClauseIs, QuietTurn

LEMMA CallParseKeeps ==
  ASSUME ParseIInv, CallParse
  PROVE  ParseIInv'
<1>1. /\ pc' = "start" /\ status' = "none" /\ form' = "none" /\ pos' = 1 /\ tok' = tok
      /\ UNCHANGED <<signers, limits, poolVars, worldVars, head, queries_at, bodyVars, termVars,
                     exprVars>>
      /\ UNCHANGED <<terms, ops, params, known, body, tests, args, items, value>>
  BY DEF CallParse, poolVars, bodyVars, termVars
<1>2. calls \in Seq(CallOf) /\ calls # <<>> /\ MaxBlocks \in Nat
  BY ParseAssumption DEF CallParse, ParseIInv, HostHeld
<1>3. calls[1] \in CallOf /\ Tail(calls) \in Seq(CallOf)
  BY <1>2, LenProperties, EmptySeq, ElementOfSeq, HeadTailProperties
<1>4. Held \in [facts : Nat, rules : Nat, checks : Nat, policies : Nat]
  BY LenProperties DEF Held, ParseIInv, WorldHeld
<1>5. HostHeld'
  BY <1>1, <1>3, <1>4 DEF CallParse, ParseIInv, HostHeld, CallOf
<1>6. default_trust' \in Origins
  <2>1. 0 \in 0 .. MaxBlocks /\ MaxBlocks \in 0 .. MaxBlocks /\ calls[1].block \in 0 .. MaxBlocks
    BY <1>2, <1>3 DEF CallOf
  <2> QED
    BY <2>1 DEF CallParse, Authorizer, Origins
<1>7. BodyHeld' /\ StatementHeld'
  BY <1>1, <1>6 DEF ParseIInv, BodyHeld, StatementHeld, Forms, bodyVars
<1>8. ReaderHeld'
  BY <1>1 DEF ParseIInv, ReaderHeld
<1>9. TermsHeld' /\ CodeHeld'
  BY <1>1 DEF ParseIInv, TermsHeld, FramesOrdered, CodeHeld, StackOrdered, StackFits, termVars,
              exprVars
<1>10. PoolsHeld' /\ Grown
  BY <1>1, PoolsKept DEF ParseIInv, PoolsHeld
<1>11. CodePending' /\ TermsPending' /\ ClausePending'
  BY <1>1, <1>10, CodeStillPending, TermsStillPending, ClauseStillPending
  DEF ParseIInv, exprVars, termVars, bodyVars
<1>12. WorldHeld' /\ WorldWithin' /\ AllAsk'
  BY <1>1, <1>10, StillWithin DEF ParseIInv, AllAsk, AsksQueries, worldVars
<1>13. QueriesHeld'
  BY <1>1 DEF QueriesHeld, Asking, CheckForms, PolicyForms
<1>14. ControlHeld' /\ TermPlaced' /\ ExprPlaced' /\ FormPlaced'
  BY <1>1 DEF ControlHeld, Places, TermPlaced, ExprPlaced, ReceiverLast, FormPlaced, TermPlaces,
              ExprPlaces, CallPlaces, BodyPlaces, TextPlaces, ClausePlaces, ArgumentPlaces
<1> QED
  BY <1>5, <1>7, <1>8, <1>9, <1>10, <1>11, <1>12, <1>13, <1>14 DEF ParseIInv

-----------------------------------------------------------------------------
(* The invariant, and what it is for.                                      *)

LEMMA ParseStarts == Init => ParseIInv
<1> SUFFICES ASSUME Init PROVE ParseIInv
  OBVIOUS
<1>1. PICK h \in Hosts : calls = h.calls /\ signers = h.signers /\ limits = h.limits
  BY DEF Init
<1>2. MaxBlocks \in Nat /\ MaxDepth \in Nat \ {0} /\ Scratch \in Nat \ {0} /\ MaxBody \in Nat
  BY ExprParseAssumption, ParseAssumption
<1>3. /\ Len(terms) = 0 /\ Len(ops) = 0 /\ Len(params) = 0 /\ Len(preds) = 0 /\ Len(exprs) = 0
      /\ Len(facts) = 0 /\ Len(rules) = 0 /\ Len(checks) = 0 /\ Len(policies) = 0
      /\ Len(head) = 0 /\ Len(body) = 0 /\ Len(tests) = 0 /\ Len(args) = 0
      /\ Len(items) = 0 /\ Len(frames) = 0 /\ Len(out) = 0 /\ Len(stack) = 0
  BY DEF Init
<1>4. /\ DOMAIN terms = {} /\ DOMAIN ops = {} /\ DOMAIN preds = {} /\ DOMAIN exprs = {}
      /\ DOMAIN facts = {} /\ DOMAIN rules = {} /\ DOMAIN checks = {} /\ DOMAIN policies = {}
      /\ DOMAIN head = {} /\ DOMAIN body = {} /\ DOMAIN tests = {} /\ DOMAIN args = {}
      /\ DOMAIN items = {} /\ DOMAIN frames = {} /\ DOMAIN out = {} /\ DOMAIN stack = {}
  BY DEF Init
<1>5. HostHeld
  <2>1. MaxBlocks \in 0 .. MaxBlocks
    BY <1>2
  <2>2. source \in Seq(Token) /\ begun \in [facts : Nat, rules : Nat, checks : Nat, policies : Nat]
    BY <1>3 DEF Init, Held
  <2> QED
    BY <1>1, <2>1, <2>2, ParseAssumption DEF Init, HostHeld, CallOf, Authorizer
<1>6. ReaderHeld
  BY EofRead DEF Init, ReaderHeld
<1>7. NoTerm \in Term /\ \A n : TermEnds(NoTerm, n)
  BY EofRead DEF NoTerm, Term, Token, ScalarKinds, ContainerKinds, TermEnds
<1>8. TermsHeld
  BY <1>2, <1>3, <1>4, <1>7 DEF Init, TermsHeld, FramesOrdered
<1>9. CodeHeld
  BY <1>2, <1>3, <1>4 DEF Init, CodeHeld, StackOrdered, StackFits, CallFits, NoCall, Call, NoRun,
                          MethodOf, Run, UnaryLevel
<1>10. BodyHeld /\ StatementHeld
  <2>1. {MaxBlocks, 0} \in Origins /\ {} \in Origins
    BY <1>2 DEF Origins
  <2> QED
    BY <1>2, <1>3, <2>1 DEF Init, BodyHeld, StatementHeld, Forms, Authorizer
<1>11. PoolsHeld
  BY <1>4 DEF Init, PoolsHeld, TermsBack, OpsBack
<1>12. TermsPending /\ CodePending /\ ClausePending
  BY <1>3, <1>4, <1>7 DEF Init, TermsPending, CodePending, ClausePending, TermsWithin, OpsWithin,
                          RangesWithin, NoRun
<1>13. WorldHeld /\ WorldWithin /\ AllAsk
  BY <1>3, <1>4 DEF Init, WorldHeld, WorldWithin, AllAsk, RangesWithin
<1>14. ControlHeld /\ TermPlaced /\ ExprPlaced /\ FormPlaced /\ QueriesHeld
  BY DEF Init, ControlHeld, Places, TermPlaced, ExprPlaced, ReceiverLast, FormPlaced, QueriesHeld,
         TermPlaces, ExprPlaces, CallPlaces, BodyPlaces, TextPlaces, ClausePlaces, ArgumentPlaces,
         Asking, CheckForms, PolicyForms
<1> QED
  BY <1>5, <1>6, <1>8, <1>9, <1>10, <1>11, <1>12, <1>13, <1>14 DEF ParseIInv

LEMMA ParseStuttered ==
  ASSUME ParseIInv, UNCHANGED parseVars
  PROVE  ParseIInv'
BY DEF parseVars, hostVars, sourceVars, poolVars, worldVars, statementVars, bodyVars, readerVars,
       tokenVars, termVars, exprVars, controlVars, ParseIInv, HostHeld, ReaderHeld, TermsHeld,
       FramesOrdered, CodeHeld, StackOrdered, StackFits, BodyHeld, StatementHeld, PoolsHeld,
       TermsPending, CodePending, ClausePending, WorldHeld, WorldWithin, AllAsk, AsksQueries,
       ControlHeld, TermPlaced, Innermost, ExprPlaced, ReceiverLast, AtBinary, FormPlaced, IsHead,
       IsWord, QueriesHeld

LEMMA ParseSteps ==
  ASSUME ParseIInv, [Next]_parseVars
  PROVE  ParseIInv'
<1>1. CASE CallParse
  BY <1>1, CallParseKeeps
<1>2. CASE Parse /\ UNCHANGED hostVars
  <2>1. CASE Start \/ StartText \/ EndClause \/ EndText
    BY <1>2, <2>1, OnwardKeeps, StartTextKeeps, EndClauseKeeps
  <2>2. CASE ReadStatement
    BY <1>2, <2>2, StartStatementKeeps, StartQueriesKeeps, OnwardKeeps, PlaceAskingKeeps,
       PlaceFactKeeps DEF ReadStatement
  <2>3. CASE ReadBody
    BY <1>2, <2>3, StartBodyKeeps, StartElementKeeps, TakeExpressionKeeps, NextElementKeeps,
       ReadTrustingKeeps, ReadScopeKeeps, NextScopeKeeps, PlaceRuleKeeps DEF ReadBody
  <2>4. CASE ReadPredicate
    BY <1>2, <2>4, ReadNameKeeps, OpenArgumentsKeeps, StartArgumentKeeps, TakeArgumentKeeps,
       FinishPredicateKeeps DEF ReadPredicate
  <2>5. CASE (ReadTerm \/ ReadExpression) /\ UNCHANGED <<worldVars, statementVars, bodyVars>>
    BY <1>2, <2>5, ReadTermKeeps, ReadExpressionKeeps DEF Elsewhere
  <2> QED
    BY <1>2, <2>1, <2>2, <2>3, <2>4, <2>5 DEF Parse
<1>3. CASE AllRead \/ UNCHANGED parseVars
  BY <1>3, ParseStuttered DEF AllRead
<1> QED
  BY <1>1, <1>2, <1>3 DEF Next

\* The parser's inductive invariant, for every text, room and bound.
THEOREM ParserInvariant == ParseSpec => []ParseIInv
<1> QED
  BY ParseStarts, ParseSteps, PTL DEF ParseSpec

\* What a world is filled with has the types the rest of the library reads
\* it by, wherever a text was given up.
THEOREM ParserTypes == ParseSpec => []ParseTypeOK
<1>1. ParseIInv => ParseTypeOK
  BY DEF ParseIInv, ParseTypeOK, HostHeld, ReaderHeld, TermsHeld, CodeHeld, BodyHeld, StatementHeld,
         PoolsHeld, WorldHeld, ControlHeld, CallOf, FrameOf, EntryOf, MethodOf, FactOf, RuleOf,
         CheckOf, Codes, Places
<1> QED
  BY <1>1, ParserInvariant, PTL

\* The stacks of the parser keep within their arrays and their marks within
\* what has been read, so a closure is cut out of code that is there; and
\* the pools, wherever a text was read to or given up, name only what was
\* placed before: no term holds itself, no closure is its own body, and a
\* check asks queries (140_parse.inc:182-330, 485-563, 570-878, 1110-1184).
THEOREM ParserPlacesHold == ParseSpec => []PlacesHold
<1>1. ASSUME ParseIInv PROVE MarksHold
  BY <1>1 DEF ParseIInv, MarksHold, TermsHeld, CodeHeld, BodyHeld, ExprPlaced
<1>2. ASSUME ParseIInv PROVE RunsPointBack
  <2>1. TermsPointBack
    BY <1>2 DEF ParseIInv, TermsPointBack, PoolsHeld, TermsBack, TermsPending, TermsWithin
  <2>2. OpsPointBack
    BY <1>2 DEF ParseIInv, OpsPointBack, PoolsHeld, OpsBack, CodePending, OpsWithin, OpWithin,
           OpEnds
  <2>3. RulesPointBack
    BY <1>2 DEF ParseIInv, RulesPointBack, WorldWithin, RuleWithin, RangesWithin, PredEnds, RunEnds
  <2> QED
    BY <1>2, <2>1, <2>2, <2>3 DEF ParseIInv, RunsPointBack, AllAsk
<1>3. ParseIInv => PlacesHold
  BY <1>1, <1>2 DEF PlacesHold
<1> QED
  BY <1>3, ParserInvariant, PTL
=============================================================================
