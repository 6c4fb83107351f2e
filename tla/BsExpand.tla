------------------------------ MODULE BsExpand ------------------------------
(***************************************************************************)
(* Nested values and closures off the wire (110_load.inc: bs_terms_expand, *)
(* bs_ops_load_run, bs_ops_expand).  A container or a closure is first     *)
(* placed pending, holding its source; a scan then goes forward over the   *)
(* pool and places what each holds at the end, where the scan will come by *)
(* again.  One action is one turn of a loop.  Positions count from 0.      *)
(*                                                                         *)
(* A symbol is taken as translated; one that names nothing is "bad".       *)
(***************************************************************************)
EXTENDS BsLexicon, SequencesExt

CONSTANTS
  Loads,       \* what a host has and loads: [parsed, block, limits]
  WireValues,  \* the values there are in them, on the wire,
  WireOps,     \*   and the operations
  MaxDepth     \* BS_MAX_DEPTH

\* A value on the wire is a scalar [kind, text], a container [kind, items] or
\* "bad" and refused.  The items of a map are its keys and values in turn.
IsContainer(v) == v.kind \in ContainerKinds
KeysOf(v) == IF v.kind = "map" THEN {k \in DOMAIN v.items : k % 2 = 1} ELSE {}
IsKey(v) == v.kind \in {"integer", "negative", "string"}
Loadable(v) == v.kind # "bad"
Holdable(v) == \A k \in DOMAIN v.items : IF k \in KeysOf(v) THEN IsKey(v.items[k])
                                         ELSE Loadable(v.items[k])

\* A block on the wire is [scopes, facts, rules, checks], a predicate
\* [name, terms], a rule [head, body, tests, scopes] and a check [kind, queries]
\* of rules.  A test is code (BsCode).
AllOf(seq, F(_)) == FlattenSeq([k \in DOMAIN seq |-> F(seq[k])])

\* What a block has the loader place, in turn (bs_world_load_facts,
\* bs_world_load_logic): predicates and expressions.
PlacedPredicate(p) == <<[kind |-> "predicate", terms |-> p.terms]>>
PlacedTest(c) == <<[kind |-> "expression", ops |-> c]>>
PlacedRule(r) == PlacedPredicate(r.head) \o AllOf(r.body, PlacedPredicate)
                 \o AllOf(r.tests, PlacedTest)
PlacedCheck(c) == AllOf(c.queries, PlacedRule)
PlacedBlock(b) == AllOf(b.facts, PlacedPredicate) \o AllOf(b.rules, PlacedRule)
                  \o AllOf(b.checks, PlacedCheck)

ASSUME ExpandAssumption ==
  /\ MaxDepth \in Nat \ {0}
  /\ \A l \in Loads : l.limits \in [terms : Nat, ops : Nat, params : Nat, text : Nat]

\* Values and operations that hold all there is: what is nested in one is
\* again one, and only what has been placed has a position.  The terms of a
\* parsed text are placed.
List == [kind : ContainerKinds, at : Nat, count : Nat]
Stated(values, operations) == [kind : {"predicate"}, terms : Seq(values)] \cup
                              [kind : {"expression"}, ops : Seq(operations)]

HoldAll(values, operations) ==
  /\ \A v \in values :
       /\ v.kind # "pending"
       /\ IF IsContainer(v) THEN v.items \in Seq(values) ELSE "at" \notin DOMAIN v
  /\ \A o \in operations :
       /\ o.op \in {"value", "unary", "binary", "closure"}
       /\ o.op = "value" => o.term \in values
       /\ o.op \in {"unary", "binary"} => "at" \notin DOMAIN o
       /\ o.op = "closure" => o.body \in Seq(operations) /\ o.params \in Seq(STRING)
  /\ \A l \in Loads : /\ PlacedBlock(l.block) \in Seq(Stated(values, operations))
                       /\ l.parsed \in Seq(values \cup List)

ASSUME WireAssumption == HoldAll(WireValues, WireOps)

VARIABLES
  block,      \* the block on the wire
  stated,     \* what of it is loaded: predicates and expressions, in turn
  limits,     \* the room of the pools
  parsed,     \* the terms that were there before: those of a parsed text
  terms,      \* bs_world.terms[0 .. term_count-1]
  ops,        \* bs_world.ops[0 .. op_count-1]
  params,     \* bs_world.syms[0 .. sym_count-1]
  loaded,     \* the runs of what has been loaded
  root,       \*   and of what is being loaded: bs_predicate, bs_expr
  i,          \* bs_terms_expand: the scan
  level_end,  \*   where the level it is on ends
  depth,      \*   and how deep that is
  oi, olevel_end, odepth,  \* bs_ops_expand: the same
  source,     \* bs_ops_load_run: the operations still to place
  run,        \*   the run they are placed in
  slot,       \*   and the next place of it
  pc, status

poolVars == <<terms, ops, params>>
termScan == <<i, level_end, depth>>
opScan == <<oi, olevel_end, odepth, source, run, slot>>
controlVars == <<pc, status>>
hostVars == <<block, stated, limits, parsed>>
runVars == <<loaded, root>>
expandVars == <<hostVars, poolVars, runVars, termScan, opScan, controlVars>>

Current == stated[Len(loaded) + 1]
Left == Len(loaded) < Len(stated)

Goto(place) == pc' = place /\ UNCHANGED status
Refuse(code) == pc' = "stopped" /\ status' = code

-----------------------------------------------------------------------------
(* Values.                                                                 *)

\* bs_term_load_shallow.
Shallow(v) == IF IsContainer(v) THEN [kind |-> "pending", source |-> v] ELSE v

TermRoom(n) == Len(terms) + n <= limits.terms

\* bs_pool_reserve_terms, and n values placed in what it gives.
PlaceValues(values) == terms' = terms \o [k \in DOMAIN values |-> Shallow(values[k])]

\* A slip: the scan begins behind the value it is for.
ScanPast(from, end) == i' = from + 1 /\ level_end' = end /\ depth' = 1

\* A scan from position `from`, of a pool that has come to `end`.
ScanTerms(from, end) == i' = from /\ level_end' = end /\ depth' = 1

\* bs_predicate_load: the terms of a predicate.
LoadPredicate ==
  /\ pc = "next" /\ Left /\ Current.kind = "predicate"
  /\ LET values == Current.terms
     IN  \/ ~TermRoom(Len(values)) /\ Refuse("NOMEM") /\ UNCHANGED <<terms, termScan, root>>
         \/ /\ TermRoom(Len(values)) /\ \E k \in DOMAIN values : ~Loadable(values[k])
            /\ Refuse("MALFORMED") /\ UNCHANGED <<terms, termScan, root>>
         \/ /\ TermRoom(Len(values)) /\ \A k \in DOMAIN values : Loadable(values[k])
            /\ PlaceValues(values)
            /\ ScanTerms(Len(terms), Len(terms) + Len(values))
            /\ root' = [at |-> Len(terms), count |-> Len(values)]
            /\ Goto("terms")
  /\ UNCHANGED <<hostVars, ops, params, loaded, opScan>>

\* The head of a turn: at the end of a level begins the next.
DeeperAt(place, end, level) == IF place >= end THEN level + 1 ELSE level
TurnDepth == DeeperAt(i, level_end, depth)
\* A slip: the next level is never given an end of its own.
LevelStays == level_end
TurnEnd == IF i >= level_end THEN Len(terms) ELSE level_end

Turning == pc = "terms" /\ i < Len(terms) /\ TurnDepth <= MaxDepth
Scanned == i' = i + 1 /\ level_end' = TurnEnd /\ depth' = TurnDepth

TooDeep ==
  /\ pc = "terms" /\ i < Len(terms) /\ TurnDepth > MaxDepth
  /\ Refuse("DEPTH")
  /\ UNCHANGED <<hostVars, poolVars, runVars, termScan, opScan>>

PassTerm ==
  /\ Turning /\ terms[i + 1].kind # "pending"
  /\ Scanned
  /\ UNCHANGED <<hostVars, poolVars, runVars, opScan, controlVars>>

\* A pending container becomes a run at the end of the pool, still pending
\* where it holds another.
ExpandTerm ==
  /\ Turning /\ terms[i + 1].kind = "pending"
  /\ LET v == terms[i + 1].source
         list == [kind |-> v.kind, at |-> Len(terms), count |-> Len(v.items)]
     IN  \/ ~TermRoom(Len(v.items)) /\ Refuse("NOMEM") /\ UNCHANGED <<terms, termScan>>
         \/ /\ TermRoom(Len(v.items)) /\ ~Holdable(v)
            /\ Refuse("MALFORMED") /\ UNCHANGED <<terms, termScan>>
         \/ /\ TermRoom(Len(v.items)) /\ Holdable(v)
            /\ terms' = [terms EXCEPT ![i + 1] = list]
                        \o [k \in DOMAIN v.items |-> Shallow(v.items[k])]
            /\ Scanned /\ UNCHANGED controlVars
  /\ UNCHANGED <<hostVars, ops, params, runVars, opScan>>

\* The scan has come to the end of the pool.  An expression goes on with its
\* next operation.
Loaded == loaded' = Append(loaded, [kind |-> Current.kind, at |-> root.at, count |-> root.count])

EndTerms ==
  /\ pc = "terms" /\ i >= Len(terms)
  /\ \/ Current.kind = "predicate" /\ Loaded /\ Goto("next")
     \/ Current.kind = "expression" /\ Goto("run") /\ UNCHANGED loaded
  /\ UNCHANGED <<hostVars, poolVars, root, termScan, opScan>>

-----------------------------------------------------------------------------
(* Expressions.                                                            *)

OpRoom(n) == Len(ops) + n <= limits.ops

\* bs_ops_load_run: a run of a place for every operation, placed in turn.
Unplaced(n) == [k \in 1..n |-> [op |-> "unplaced"]]
BeginRun(operations) ==
  /\ ops' = ops \o Unplaced(Len(operations))
  /\ source' = operations
  /\ run' = [at |-> Len(ops), count |-> Len(operations)]
  /\ slot' = Len(ops) + 1
  /\ Goto("run")

LoadExpression ==
  /\ pc = "next" /\ Left /\ Current.kind = "expression"
  /\ \/ /\ ~OpRoom(Len(Current.ops))
        /\ Refuse("NOMEM") /\ UNCHANGED <<ops, source, run, slot, root>>
     \/ OpRoom(Len(Current.ops)) /\ BeginRun(Current.ops) /\ root' = run'
  /\ oi' = Len(ops) /\ olevel_end' = Len(ops) /\ odepth' = 0
  /\ UNCHANGED <<hostVars, terms, params, loaded, termScan>>

PutOp(o) == /\ ops' = [ops EXCEPT ![slot] = o]
            /\ slot' = slot + 1 /\ source' = Tail(source)

\* bs_op_load.
PlaceValue ==
  /\ pc = "run" /\ source # <<>> /\ source[1].op = "value"
  /\ \/ ~TermRoom(1) /\ Refuse("NOMEM") /\ UNCHANGED <<terms, ops, slot, source, termScan>>
     \/ /\ TermRoom(1) /\ ~Loadable(source[1].term)
        /\ Refuse("MALFORMED") /\ UNCHANGED <<terms, ops, slot, source, termScan>>
     \/ /\ TermRoom(1) /\ Loadable(source[1].term)
        /\ PlaceValues(<<source[1].term>>)
        /\ ScanTerms(Len(terms), Len(terms) + 1)
        /\ PutOp([op |-> "value", term |-> Len(terms)])
        /\ Goto("terms")
  /\ UNCHANGED <<hostVars, params, runVars, oi, olevel_end, odepth, run>>

PlaceOperator ==
  /\ pc = "run" /\ source # <<>> /\ source[1].op \in {"unary", "binary"}
  /\ PutOp(source[1])
  /\ UNCHANGED <<hostVars, terms, params, runVars, termScan, oi, olevel_end, odepth,
                 run, controlVars>>

PlaceClosure ==
  /\ pc = "run" /\ source # <<>> /\ source[1].op = "closure"
  /\ PutOp([op |-> "pending", source |-> source[1]])
  /\ UNCHANGED <<hostVars, terms, params, runVars, termScan, oi, olevel_end, odepth,
                 run, controlVars>>

\* The run is placed: the expression's own, where the scan over the
\* operations begins, or the body of the closure the scan has come to.
ScansOps == odepth > 0

EndRun ==
  /\ pc = "run" /\ source = <<>>
  /\ Goto("ops")
  /\ \/ /\ ~ScansOps
        /\ oi' = run.at /\ olevel_end' = Len(ops) /\ odepth' = 1
        /\ UNCHANGED ops
     \/ /\ ScansOps
        /\ LET o == ops[oi + 1]
           IN  ops' = [ops EXCEPT ![oi + 1] =
                         [op |-> "closure", at |-> run.at, count |-> run.count,
                          param_at |-> o.param_at, param_count |-> Len(o.source.params)]]
        /\ oi' = oi + 1
        /\ UNCHANGED <<olevel_end, odepth>>
  /\ UNCHANGED <<hostVars, terms, params, runVars, termScan, source, run, slot>>

OpDepth == DeeperAt(oi, olevel_end, odepth)
OpEnd == IF oi >= olevel_end THEN Len(ops) ELSE olevel_end
OpTurning == pc = "ops" /\ oi < Len(ops) /\ OpDepth <= MaxDepth
OpScanned == olevel_end' = OpEnd /\ odepth' = OpDepth

OpTooDeep ==
  /\ pc = "ops" /\ oi < Len(ops) /\ OpDepth > MaxDepth
  /\ Refuse("DEPTH")
  /\ UNCHANGED <<hostVars, poolVars, runVars, termScan, opScan>>

PassOp ==
  /\ OpTurning /\ ops[oi + 1].op # "pending"
  /\ oi' = oi + 1 /\ OpScanned
  /\ UNCHANGED <<hostVars, poolVars, runVars, termScan, source, run, slot, controlVars>>

\* A pending closure: its parameters, then its body as a run at the end.
ParamRoom(n) == Len(params) + n <= limits.params

ExpandOp ==
  /\ OpTurning /\ ops[oi + 1].op = "pending"
  /\ LET c == ops[oi + 1].source
     IN  \/ /\ ~ParamRoom(Len(c.params))
            /\ Refuse("NOMEM") /\ UNCHANGED <<ops, params, source, run, slot>>
         \/ /\ ParamRoom(Len(c.params)) /\ ~OpRoom(Len(c.body))
            /\ params' = params \o c.params
            /\ Refuse("NOMEM") /\ UNCHANGED <<ops, source, run, slot>>
         \/ /\ ParamRoom(Len(c.params)) /\ OpRoom(Len(c.body))
            /\ params' = params \o c.params
            /\ ops' = [ops EXCEPT ![oi + 1] =
                         [op |-> "pending", source |-> c, param_at |-> Len(params)]]
                      \o Unplaced(Len(c.body))
            /\ source' = c.body
            /\ run' = [at |-> Len(ops), count |-> Len(c.body)]
            /\ slot' = Len(ops) + 1
            /\ Goto("run")
  /\ OpScanned
  /\ UNCHANGED <<hostVars, terms, runVars, termScan, oi>>

EndOps ==
  /\ pc = "ops" /\ oi >= Len(ops)
  /\ Loaded /\ odepth' = 0
  /\ Goto("next")
  /\ UNCHANGED <<hostVars, poolVars, root, termScan, oi, olevel_end, source, run, slot>>

-----------------------------------------------------------------------------

AllLoaded ==
  /\ pc = "next" /\ ~Left
  /\ pc' = "stopped" /\ status' = "OK"
  /\ UNCHANGED <<hostVars, poolVars, runVars, termScan, opScan>>

Load == \/ LoadPredicate \/ TooDeep \/ PassTerm \/ ExpandTerm \/ EndTerms
        \/ LoadExpression \/ PlaceValue \/ PlaceOperator \/ PlaceClosure \/ EndRun
        \/ OpTooDeep \/ PassOp \/ ExpandOp \/ EndOps \/ AllLoaded

LoadInit ==
  /\ \E l \in Loads : /\ block = l.block /\ limits = l.limits
                      /\ stated = PlacedBlock(l.block)
                      /\ terms = l.parsed /\ parsed = Len(l.parsed)
  /\ ops = <<>> /\ params = <<>> /\ loaded = <<>> /\ root = [at |-> 0, count |-> 0]
  /\ i = 0 /\ level_end = 0 /\ depth = 0
  /\ oi = 0 /\ olevel_end = 0 /\ odepth = 0
  /\ source = <<>> /\ run = [at |-> 0, count |-> 0] /\ slot = 0
  /\ pc = "next" /\ status = "none"

ExpandSpec == LoadInit /\ [][Load]_expandVars

-----------------------------------------------------------------------------

\* What each level of a scan relies on: the runs are in the order of the
\* containers that hold them, each past its own container, and none reaches
\* into the next.
InOrder(pool, first) ==
  /\ \A k \in first .. Len(pool) : "at" \in DOMAIN pool[k] =>
       pool[k].at >= k /\ pool[k].at + pool[k].count <= Len(pool)
  /\ \A k, l \in first .. Len(pool) :
       k < l /\ "at" \in DOMAIN pool[k] /\ "at" \in DOMAIN pool[l] =>
         pool[k].at + pool[k].count <= pool[l].at

\* A value still pending and a place still empty are ahead of the scan that
\* will come by: none is left behind it, whether by a container, by a closure
\* or by a value loaded between two (110_load.inc:164-277, 483-638).
NoneBehind ==
  /\ InOrder(terms, parsed + 1) /\ InOrder(ops, 1)
  /\ status \in {"none", "OK"} =>
       /\ \A k \in DOMAIN terms : terms[k].kind = "pending" => pc = "terms" /\ k > i
       /\ \A k \in DOMAIN ops :
            /\ ops[k].op = "unplaced" => pc \in {"run", "terms"} /\ source # <<>> /\ k >= slot
            /\ ops[k].op = "pending" => pc # "next" /\ pc # "stopped" /\ k > oi

-----------------------------------------------------------------------------
(* What is stated, and all that is nested in it, level by level.  The way  *)
(* to a value or an operation is the places of those that hold it, from    *)
(* the statement on; a value of an expression is on the way of its         *)
(* operation.                                                              *)

ItemsOf(v) == IF IsContainer(v) THEN v.items ELSE <<>>
BodyOf(o) == IF o.op = "closure" THEN o.body ELSE <<>>
ParamsOf(o) == IF o.op = "closure" THEN o.params ELSE <<>>

Nodes(way, list) == {[way |-> Append(way, n), it |-> list[n]] : n \in DOMAIN list}

CodeAt(k) ==
  LET to[n \in Nat] ==
        IF n = 0 THEN IF stated[k].kind = "expression" THEN Nodes(<<k>>, stated[k].ops) ELSE {}
        ELSE UNION {Nodes(o.way, BodyOf(o.it)) : o \in to[n - 1]}
  IN  to
CodeIn(k) == UNION {CodeAt(k)[n] : n \in 0 .. MaxDepth}
ParamsIn(k) == UNION {Nodes(o.way, ParamsOf(o.it)) : o \in CodeIn(k)}

RootsIn(k) ==
  IF stated[k].kind = "predicate" THEN Nodes(<< <<k>> >>, stated[k].terms)
  ELSE UNION {Nodes(<<o.way>>, <<o.it.term>>) : o \in {c \in CodeIn(k) : c.it.op = "value"}}
ValuesAt(k) ==
  LET to[n \in Nat] == IF n = 0 THEN RootsIn(k)
                       ELSE UNION {Nodes(v.way, ItemsOf(v.it)) : v \in to[n - 1]}
  IN  to
ValuesIn(k) == UNION {ValuesAt(k)[n] : n \in 0 .. MaxDepth}

TooDeepIn(k) == CodeAt(k)[MaxDepth] # {} \/ ValuesAt(k)[MaxDepth] # {}
Refusable(k) ==
  \E v \in ValuesIn(k) : ~Loadable(v.it) \/ (IsContainer(v.it) /\ ~Holdable(v.it))

-----------------------------------------------------------------------------
(* The pools read side by side with what was stated, also level by level:  *)
(* a place and what ought to be there.                                     *)

Beside(r, list) == {[place |-> r.at + n, it |-> list[n]] : n \in DOMAIN list}

IsValue(p) ==
  /\ p.place \in DOMAIN terms
  /\ LET t == terms[p.place]
     IN  IF IsContainer(p.it) THEN t.kind = p.it.kind /\ t.count = Len(p.it.items) ELSE t = p.it

HoldsValues(r, list) ==
  LET to[n \in Nat] ==
        IF n = 0 THEN Beside(r, list)
        ELSE UNION {Beside(terms[p.place], ItemsOf(p.it)) : p \in {q \in to[n - 1] : IsValue(q)}}
  IN  \A n \in 0 .. MaxDepth : \A p \in to[n] : IsValue(p)

IsOp(p) ==
  /\ p.place \in DOMAIN ops
  /\ LET o == ops[p.place]
     IN  CASE p.it.op = "value" ->
                o.op = "value" /\ HoldsValues([at |-> o.term], <<p.it.term>>)
           [] p.it.op = "closure" ->
                /\ o.op = "closure" /\ o.count = Len(p.it.body) /\ o.param_count = Len(p.it.params)
                /\ \A n \in DOMAIN p.it.params :
                     o.param_at + n \in DOMAIN params /\ params[o.param_at + n] = p.it.params[n]
           [] OTHER -> o = p.it

HoldsCode(r, code) ==
  LET to[n \in Nat] ==
        IF n = 0 THEN Beside(r, code)
        ELSE UNION {Beside(ops[p.place], BodyOf(p.it)) : p \in {q \in to[n - 1] : IsOp(q)}}
  IN  \A n \in 0 .. MaxDepth : \A p \in to[n] : IsOp(p)

SaysWhat(r, s) ==
  IF s.kind = "predicate"
  THEN r.kind = s.kind /\ r.count = Len(s.terms) /\ HoldsValues(r, s.terms)
  ELSE r.kind = s.kind /\ r.count = Len(s.ops) /\ HoldsCode(r, s.ops)

-----------------------------------------------------------------------------

Stopped == pc = "stopped"
Begun == 1 .. Len(loaded) + 1
Needed(pool) ==
  CASE pool = "terms" -> parsed + Cardinality(UNION {ValuesIn(k) : k \in Begun})
    [] pool = "ops" -> Cardinality(UNION {CodeIn(k) : k \in Begun})
    [] pool = "params" -> Cardinality(UNION {ParamsIn(k) : k \in Begun})

\* What has been loaded is, read back from the pools, what was stated, element
\* by element and however it was nested; and what is refused has a value or a
\* closure that is too deep, one that is no value, or not the room it needs
\* (110_load.inc:165-341, 436-638).
LoadsWhatIsNested ==
  Stopped =>
    /\ \A k \in DOMAIN loaded : SaysWhat(loaded[k], stated[k]) /\ ~TooDeepIn(k) /\ ~Refusable(k)
    /\ status = "OK" => Len(loaded) = Len(stated)
    /\ status = "DEPTH" => TooDeepIn(Len(loaded) + 1)
    /\ status = "MALFORMED" => Refusable(Len(loaded) + 1)
    /\ status = "NOMEM" => \E pool \in {"terms", "ops", "params"} : Needed(pool) > limits[pool]
=============================================================================
