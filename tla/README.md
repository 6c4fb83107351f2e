# A TLA+ model of biscuits.h

biscuits.h verifies [Biscuit](https://biscuitsec.org) authorization tokens in
C: it parses a token, checks its chain of signatures, loads the Datalog its
blocks state into a *world*, runs the rules to a fixpoint and decides, from
checks and policies, whether a request is allowed.  The library is one header,
put together from `src/src/*.inc`; it allocates nothing, recurses nowhere and
runs in the thread that calls it.

This directory holds TLA+ modules that model the parts of it that decide, TLC
configurations that check them on small instances, and proofs that TLAPS
checks.  `PROJECT.json` maps every definition to the lines it stands for: its
line numbers are those of `src/biscuits.h`, which `tools/amalgamate.py` puts
together, while this text and the comments of the modules cite the fragments
it is made of (`110_load` is `src/src/110_load.inc`).

    tlc -config Engine.cfg MCEngine.tla       # check one instance
    tlapm BsParseProofs.tla                   # check one module of proofs

## 1. The system

What a host does with one token, and where it happens:

    bytes --bs_token_parse--> bs_token --bs_token_verify--> authentic?
                                 |
              bs_tables_build*   |  bs_world_load_facts, bs_world_load_logic
                                 v
    authorizer text --bs_world_parse--> bs_world --bs_authorize--> verdict, report
                                                     |
                          bs_world_run_with: rounds of bs_rule_apply
                          bs_query_any / bs_query_all: checks and policies
                                                     |
                                  bs_solver_next  <--+-->  bs_expr_evaluate

| Part | State it keeps | Operations | What makes it correct |
|---|---|---|---|
| Token envelope (`60_token`) | the spans found by the first pass, the array of decoded blocks | `bs_token_parse` | one reading per message; both passes agree; nothing handed out half-made |
| Signature chain (`47_chain`) | the key and the signature of the block before | `bs_token_verify` | accepts what the issuers made under the root key and nothing else |
| Signature algorithms (`45_ed25519`, `46_verify`) | none | verify, public from secret | (number theory; external here) |
| Token and block tables (`85_block`) | symbol and key tables | `bs_tables_build`, `bs_tables_build_block` | a block is read against the tables its signer wrote it with |
| Symbol tables (`75_symbols`, `105_symtab`) | one interning table | get, intern, translate, seed | one number, one text |
| Block loader (`110_load`) | five pools of the world, the symbol table; two scans over the pools | load facts, load logic, expand terms, expand operations | the world says what the signers wrote, with the trust they asked for, however it is nested |
| World (`100_world`) | pools, limits, what is left of the budget | init, `bs_spend`, `bs_rule_bound` | no pool past its end, no work past the budget |
| Solver (`130_engine`) | one frame per body position, bindings, a mark | init, next, origin, expressions | every match once, sound bindings, exact origin |
| Engine (`130_engine`) | derived facts, rounds, terms in use | `bs_world_run`, `bs_rule_apply` | least fixpoint; a block adds nothing in another's name |
| Authorization (`145_authorize`) | failed checks, the verdict | `bs_authorize` | the verdict is what the world means; attenuation only narrows |
| Expression machine (`120_eval`) | value stack, frames, bindings | `bs_expr_evaluate` | postfix code means what its source says |
| Comparison of values (`120_eval`) | a stack of pending comparisons | `bs_term_eq` | equal means the same value, whatever its layout |
| Regular expressions (`125_regex`) | program, thread lists | `bs_re_match` | agrees with a backtracking matcher, in linear time |
| Lexer and parser (`135_lex`, `140_parse`) | token stream, stacks of containers and of operators, arrays of a body | `bs_world_parse` | an accepted text states what it says; a refused one leaves whole statements |
| Arena (`40_util`) | top, peak, sticky failure | alloc, mark, rewind, reset | no overlap; a rewind frees what came after the mark |
| Protobuf, base64 (`50_pb`, `55_base64`) | a cursor | next field, decode | byte-exact decoding |
| Printers (`70_writer`, `80_term`, `85_block`, `90_expr`, `95_datalog`) | a writer that counts past its end, a stack of containers, nodes of a tree | print | the text reads back as what was written |

Everything is a plain call in one thread.  There is no concurrency, no I/O and
nothing persisted, so no interleaving of actors, no crash and no lost message.
What is hard instead:

* *resumable iteration.*  The solver gives one answer at a time and is asked
  again: marks and frames left from one call steer the next.
* *a set that grows under its reader.*  Rules append facts to the array their
  own walk is iterating over; rounds, the duplicate scan and the memory of
  dropped candidates have to agree.
* *origins.*  Every fact carries the blocks it stems from.  One place that
  compares, unites or filters them wrongly lets an appended block speak for
  the authority, and every test in which facts have one origin still passes.
* *numbers of several tables.*  The same symbol number means different things
  in different blocks, and nearly every number means something in all of them.
* *limits.*  Facts, terms, rounds, steps, bindings, blocks: each ends at its
  own place, in the middle of something, and the host may call again after it.
* *code from the wire.*  An expression arrives as postfix code whose closures
  run many times over one stack, one array of bindings and one budget; nothing
  checks beforehand that it balances its stack, and `try_or` unwinds any
  number of frames from the middle of it.
* *trees without recursion.*  Nothing recurses, so every tree (a container, a
  closure, an expression, a pattern) is walked with stacks, marks and positions
  kept by hand, five times over: to parse, to load, to compare, to evaluate and
  to print it.  All five must agree on what is nested in what.
* *half-read text.*  A text is refused anywhere, with queries, terms and code
  already in the pools, and the next is parsed into the same world.
* *order.*  All checks are asked, the first policy that matches decides;
  blocks are signed in order, each for its place.

## 2. Modules

| Module | Models | Notes |
|---|---|---|
| `BsDatalog` | terms, predicates, facts, rules, checks, policies (`20_api`), `bs_rule_bound`; *reference:* which facts match a body, what follows from them, the least set a world gives a set of blocks, when a check is met | no recursion, so that the proofs can speak of it |
| `BsSolver` | `bs_solver_init`, `bs_unify`, `bs_solver_next` | one action per turn of the three nested loops |
| `BsWalk` | a caller that asks for every answer | `BsSolver` on its own |
| `BsMatches` | *abstract:* every match once, in the order of nested loops, then the end | implemented by `BsWalk` |
| `BsEngine` | `bs_world_run`, `bs_rule_apply`, expressions as tests, `bs_head_instantiate`, the duplicate scan, limits | extends `BsSolver` |
| `BsInference` | *abstract:* add consequences one at a time; closed only when there is none left | implemented by `BsEngine` |
| `BsAuthorize` | `bs_authorize`, `bs_check_holds`, `bs_policy_matches`, `bs_query_any`, `bs_query_all` | extends `BsEngine` |
| `BsMeaning`, `BsDecision` | *abstract:* the same least set computed, and the verdict it calls for | implemented by `BsAuthorize`; TLC only.  `MeaningAssumption` of `MCAuthorize` has TLC compare what is computed with the set `BsDatalog` defines |
| `BsEval` | `bs_expr_eval`: the stack, the frames, the bindings, `bs_enter_closure`, closures that iterate, `try_or`, the budget | one action per turn of its loop |
| `BsOps` | the operators that run no closure, with equality of values and what it costs | pure; TLC only |
| `BsRegex` | the regular expressions of `matches`: tokens, postfix, the program and its threaded holes, the lockstep search | pure; TLC only |
| `BsLanguage` | *reference:* the language a pattern stands for | compared with `BsRegex` |
| `BsCode` | trees of expressions, and the postfix code of one: what the parser emits and the machine runs | pure |
| `BsExpression` | *reference:* what a tree means | compared with `BsEval` |
| `BsMessage` | symbols; a block as its message says it, the tables of a token and of a block | |
| `BsLoad` | `bs_world_load_facts`, `bs_world_load_logic` and all they call but what is nested | one action per turn of a loader's loop |
| `BsReading` | *reference:* what a token says, spelled out as text | compared with `BsLoad` |
| `BsExpand` | `bs_term_load_shallow`, `bs_terms_expand`, `bs_ops_load_run`, `bs_ops_expand`: what is nested, placed breadth-first; *reference:* the nodes of what is stated, level by level, and the pools read beside them | one action per turn |
| `BsTermEq` | `bs_term_eq` over the pool of a world; *reference:* which places hold the same value | extends `BsExpand` |
| `BsPrint` | `bs_block_print` and all below it, as tokens | extends `BsExpand` |
| `BsNesting` | the composition of the three: load, then compare or print; *reference:* what a block says, as a text | uses the readings of `BsSyntax` |
| `BsLexicon` | kinds of token, operators and their precedence, methods | shared by reader, printer and references |
| `BsExprParse` | `bs_p_term`, `bs_p_expression` | one action per turn, up to the next token asked for |
| `BsParse` | `bs_world_parse`: annotations, statements, bodies, predicates | extends `BsExprParse` |
| `BsSyntax` | *reference:* the readings of a run of tokens, by the grammar, with no stack and no lookahead | |
| `BsGrammar` | *reference:* a world spelled out, and what the texts read into it say | compares `BsParse` with `BsSyntax` |
| `BsToken` | `bs_token_parse`: both passes, and the decoders of keys, signatures, blocks and the proof | |
| `BsChain` | `bs_token_verify` and the three payloads | extends `BsToken` |
| `BsIssue` | *external:* issuers, holders and third parties who make tokens; *reference:* which messages are tokens, and which token each is | compared with `BsChain` and `BsToken` |
| `MC*` | instances for TLC | |
| `Bs*Proofs` | theorems and proofs | those of `BsEngine` are in `BsAuthorizeProofs`, which stands on them; those of `BsToken` in `BsChainProofs` |

How state and actions correspond to the code:

* A C struct is a group of variables; an array with a count is a sequence; a
  span or a pool range is the value it points at.  `pc` says where in the
  nested loops a call stands, `status` what it returned.
* An action is one turn of one loop together with everything that turn does:
  the budget it spends, the frame or the binding it writes, the early return
  it takes.  Nothing happens between two actions of a call, since nothing else
  runs; that a call is cut into several actions only lets properties look
  inside it.
* `steps` is `w->limits.max_steps` as `bs_spend` counts it down.  `terms` is
  the part of the term pool that derived facts use.
* An allocation that the arena may or may not satisfy is a choice
  (`NOMEM` or go on); pools of a world have their capacity.

Data is kept as far as a property tells it apart.  A scalar term is a model
value and `bs_term_eq` on it is equality.  An expression in the engine and in
`BsLoad` is one comparison of two scalars, or one that fails, with the steps it
costs; what an expression is otherwise is the business of `BsEval`, and how it
gets into the pools that of `BsExpand`.  In `BsEval` code is a sequence and a
closure holds its body, a container holds its items (a map its keys and values
in turn), a text is a sequence, and the symbol table and the arena always have
room; the term pool ends where it ends.  In `BsExpand`, `BsTermEq`, `BsPrint`
and the parser the pools are what they are in the code: runs are positions and
counts, and what is pending holds its source.  A text is the sequence of its
tokens; only the sign of a number, which the parser gives back to the lexer, is
cut finer.  A message is the sequence of its fields, a string a model value.
In `BsChain` a payload is the tuple of the parts that are hashed: every part
that is not data has a fixed width or a marker of its own, except in version 0.
A signature verifies when it was made, by the key's secret, over the same
tuple: what is assumed of Ed25519.

## 3. What the runs check

| Run | Module, cfg | Shows |
|---|---|---|
| `solver` | MCSolver, Solver | a walk yields every match once, in order, soundly; no turn of it is free |
| `solver_missed` | MCSolver, SolverMissed | *finding* (section 6) |
| `engine` | MCEngine, Engine | a run derives exactly the consequences, each once with its exact origin, whatever the limits |
| `authorize` | MCAuthorize, Authorize | verdict and report are what the world means; appended blocks only narrow |
| `eval` | MCEval, Eval | an expression has the value it has as written, or has run out of budget; closures see what encloses them; nothing overdraws its budget; a pattern matches its language |
| `eval_named` | MCEval, EvalNamed | *finding* |
| `load` | MCLoad, Load | the world says what the signers wrote; a refusal has its cause |
| `terms` | MCTerms, Terms | what is placed is what was nested; equal terms are the same value; what is printed reads back |
| `terms_repeated` | MCTerms, TermsRepeated | *finding* |
| `parse` | MCParse, Parse | an accepted text states what it says; a refused one leaves whole statements, and is refused for a cause |
| `parse_chained` | MCParse, ParseChained | *finding* |
| `token` | MCToken, Token | what was made is accepted and nothing put together from it is |

The properties that say the most:

* `YieldsEveryMatch` (refinement): the resumable walk implements nested loops.
* `WalkKnows`: at every turn the levels below the current one have their facts
  and the bindings those call for, marks nest, every binding was made by a
  level still chosen, and the answers so far are exactly the matches passed.
* `EngineKnows`: every derived fact follows from facts before it by one of the
  rules, has the origin of exactly those facts and that rule, and is new
  (`DerivedOnce`); a round that has added nothing so far has shown that what
  the rules behind it conclude, and the matches behind it of the rule at hand,
  is known already.  That is what a declared fixpoint rests on.
* `NoEscalation`: after a run that ended well, for *every* set of blocks, the
  facts that stem from it are the least fixpoint of that set alone.  This is
  what attenuation rests on.
* `InfersConsequences` (refinement): the rounds declare a fixpoint only when
  there is nothing left to derive, also when a host runs a world twice.
* `AuthKnows`, `RightlyDecided`: no query before the one at hand has settled
  what is asked, no policy before it matches, and the checks so far are
  reported as they came out; an OK comes with the verdict the facts call for,
  and anything else with none.
* `ReportsPlaceTogether`: the block and the number a failed check is reported
  under lead to it, when the checks of a block stand together.
* `Decides` (refinement): the same verdict from the world as it was given,
  fixpoint included; checks of the three kinds, any number of queries, policies
  in order; and every call comes to an end.
* `OnlyNarrows`: what is allowed with an appended block that no other block
  chose to trust is allowed without it.
* `EvaluatesAsWritten`: the machine answers what a recursive evaluation of the
  source, which knows no stack and no frame, gives: a side that need not be
  looked at is not, an iteration stops where it is decided, `try_or` answers
  for its receiver alone and leaves the stack and the variables as they were.
* `EvalInv`: at every turn the bindings in sight are the host's and one for
  every iteration under way, with the element it has come to, and none hides
  another.
* `OperatorsMeanSets`: equality, membership, union and intersection are those
  of sets, whatever the order the elements are laid out in.
* `MatchesMeanLanguage`: the compiled program, run in lockstep over a text,
  finds a match exactly when some stretch of the text is in the language of the
  pattern, and a pattern it refuses for its form has no reading.
* `OneSymbolOneText`, `LoadsWhatIsStated`, `RefusesForCause`: blocks with
  copies of symbols, third parties' tables, every kind of scope and every end
  of room.  What is in the world is a prefix of what the token says, under the
  right names and with the right trust, and all of it when the call says OK.
* `NoneBehind`, `LoadsWhatIsNested`: the breadth-first scans of the loader
  leave nothing pending behind them, and what they have placed is, read back
  level by level, the tree on the wire; depth, room and values that are none are
  the only causes of a refusal.
* `EqualMeansSame`: the comparison without recursion answers whether two
  values are the same, from wherever in the pool they stand, and has a frame
  for whatever a loader or the parser accepts.  What is the same is found in
  rounds (`SameValues`), the places of scalars first, then those that hold what
  is the same already; there are as many rounds as values nest deep.
* `PrintsAsRead`, `PrintsForCause`: a block written from a text prints as a
  text with the same reading, with every bracket its code calls for; what does
  not print has something in it that has no text.
* `ReadsAsWritten`: the parser's operator stack, its marks into the code and
  its lookahead come to one of the readings the grammar gives the text, and so
  does every annotation; `RefusesForCause` (of `BsGrammar`) is the converse: no
  reading is lost.  The grammar says what the repository's comments say, not
  what the parser's loops do: nothing in a fact is a variable, however deep, and
  any name may be a predicate's.  Where the parser does otherwise the
  properties except the text by name, `HoldsHoles` and `UsesWord` (section 6).
* `BreaksOffBetween`: a text that is refused, wherever it is broken off, leaves
  what it says up to the end of a statement, also over several texts.
* `PlacesHold`: nothing in the pools reaches past what was there before it
  (`RunsPointBack`); no closure is cut from behind the end of the code, and the
  receiver of a call lies behind every mark the operator stack holds
  (`MarksHold`).
* `AcceptsExactlyTheMade`: of all arrangements of honest blocks and proofs,
  misplaced third-party statements and one-field alterations, the verifier
  accepts those that were made under its root key, and all of those.
* `ReadsWhatIsWritten`: repeated, reordered, unknown and broken fields; every
  message has one reading, and a token is handed out whole or not at all.

Each property of a passing run was also tried on a wrong program: the
definitions marked "A slip" in the modules are the mistakes that break them.

### Bounds

| Run | Instance | Why it is enough |
|---|---|---|
| solver | two names, two values, two variables; every body of up to two of ten patterns, and joins of three; every base of up to two of seven facts of several origins, one of which states a variable; budgets 3 and 60; three body places, two bindings | three levels are the least at which a mark can be restored from the wrong frame; a budget of 3 ends at each kind of turn |
| engine | pairs of thirteen rules (a copy, a restatement by another block, recursive joins, filters, facts in the form of rules, unbound heads, failing expressions, a query) over bases of up to four facts with three kinds of origin; budgets 1 to 30; bounds of 1, 2 and 5 rounds; eight facts, six derived terms; two runs of a world | the rules feed each other, so that two rules already need several rounds; every pool and budget ends inside some run |
| authorize | an authority block, two appended ones and an authorizer; 2 bases, 4 lists of rules, lists of checks of every kind with up to two queries, 6 lists of policies; budgets 1 to 25; a second call | a block between two others is the least that tells trust in "those before" from trust in all |
| eval | integers of 2 bits, a stack of 3, 4 frames, 3 bindings of which the host takes one; trees of every control operator, nested two deep and under `try_or`, with budgets of 2, 6, 11 and 80; every operator over pairs of eighteen values; every code of up to three of ten operations and more, closures to the fifth frame; pools with room for 0 to 4 terms | two frames above a `try_or` are the least that tells its base from the base of the frame above it; -2 divided by -1 overflows; a parser's code never underflows, so the other codes do |
| eval (patterns) | every pattern of up to three units and some of four, out of signs and characters, in a program of nine tokens, eight instructions and two classes, over nineteen characters and texts of up to three of them | three units are the least in which an alternative, a repetition and a concatenation meet; both arrays of the compiler end inside some pattern |
| terms | containers of all three kinds nested up to one level more than `MaxDepth` (3), in pairs as elements of each other, alone and behind a parsed text; codes of up to three of seven operations, closures four deep, and the code of texts with every operator and method; pools with room for 0 to 6, buffers of 0 to 40 tokens | the scan changes level three times and the level after the last is refused; two containers side by side at each level are the least at which runs can overlap |
| parse | every string of up to three brackets, commas, colons and values in a container; every pair of operators, triples of seven; every string of up to four pieces of expressions; variables in containers, of facts, heads and bodies; statements and predicates named by words of the language; what opens nested two deep, whole and with any one token missing; statements of every kind and annotation, in pairs; a text cut off anywhere and a second text after it; room of 0, 1 and 2 in every pool; `Scratch` 8, `MaxBody` 2, `MaxDepth` 3 | two operators and a bracket already need every decision of the operator stack; each array is met one below, at and above its end |
| load | chains of up to three blocks with every pattern of copied symbols, third-party blocks, every scope; limits from 0 to 20 for one full token; three well-known symbols | every pool ends at every statement of the full token |
| token | eight issued tokens of one to three blocks, open and sealed, both versions, a third party; all sequences of up to three of their blocks with each of their proofs; every one-field edit at every depth of three tokens | a swap, a cut, a splice and a replay each need at most three blocks |

Sets in the trees of `eval` have no repeated elements; those of `terms` do, and
`EqualMeansSame` is about the others (section 6, `terms_repeated`).  `MaxStack`,
`MaxFrames`, `IntBits`, `MaxRuns`, `MaxBody`, `MaxDepth`, `Scratch`, `FactCap`,
`TermCap`, `MaxBindings`, `MaxBlocks`, `MaxTokens`, `MaxInsts`, `MaxClasses`,
`Word` are constants of the modules; the proofs hold for every value of those
that occur in them.

### Fairness

`WF(SolverStep \/ Resume)`, `WF(RunStep)`, `WF(AuthStep)`, `WF(EvalNext)`: a call that has
started goes on, since it is a C function in a thread that nothing blocks.
That a host makes a call (`Run`, `Authorize`) is not assumed.  Under it
`WalkEnds`, `RunReturns`, `EvalReturns` and the liveness of `BsDecision` (in
`Decides`) hold: every call returns, whatever the rules.  `BsMatches` and
`BsInference` are the safety part of what walk and run promise.  Loaders, parsers,
printer, comparison and verifier walk something finite once; nothing is claimed
of their liveness beyond that TLC finds no deadlock in their finite state
graphs, and they have no fairness.

A returned call stutters (`Ran`, `Stopped`, `Finished`, `AllRead`), so that
deadlock is checked; only in `eval` and `eval_named`, where an evaluation ends
the behavior, the check is off, and `EvalReturns` says that no evaluation ends
elsewhere.

## 4. What is proved

All theorems hold for every value of the constants under the named assumptions
of the modules:

* `DatalogAssumption`: a variable is no value.  `SolverAssumption`,
  `EngineAssumption`, `AuthAssumption`, `LoadAssumption`...: capacities are
  naturals, and what worlds, tokens and inputs consist of.
* `WireAssumption`: what is nested in a value or an operation on the wire is
  again one, none of them has a position yet, and the parameters of a closure
  are names.  `ExpandAssumption`: `MaxDepth` is at least 1, and the limits are
  naturals.  `NestedAssumption`: what was
  parsed into the pool before nests at most `MaxDepth` deep, as the parser has
  it (`140_parse.inc`).  `ChainAssumption`: an input is a message whose submessages are messages, of whatever fields.
* `ExprParseAssumption`: of the strings there are, none stands for "no name".

Where a theorem says that nothing is *missed* it has one hypothesis more, that
a rule has a slot for each of its variables (`FewVariables` of the rule,
`Slots` of all rules, `AllSlots` of the queries too): of others the engine says
"no match" (section 6, `solver_missed`, shows it), and only for those is it
not asked.  The type invariants are proved rather than run.

| Theorem | Says |
|---|---|
| `WalkInvariant` | the walk keeps its types and `WalkKnows` |
| `WalkAnswersHold` | every answer: facts trusted whole, bindings that turn the body into them, exact origin |
| `WalkYieldsEveryMatch` | `YieldsEveryMatch`: the walk implements nested loops (with slots) |
| `WalkBudget` | every turn of every loop uses up some of the work the budget pays for |
| `EngineInvariant` | a run keeps its types and `EngineInv` |
| `EngineDerivesOnce` | `DerivedOnce` |
| `EngineKnowsRound` | `EngineKnows` |
| `EngineInfersConsequences` | `InfersConsequences`: a run implements the abstract inference, step by step (with slots) |
| `EngineBoundRules` | a rule that passed the load-time test leaves no term of a fact unbound |
| `EngineAccounts` | `TermsAccounted` |
| `EngineAttenuation` | whatever set `T` of blocks, a run derives from `T` alone nothing outside any set of facts that holds `T`'s facts and is closed under `T`'s rules |
| `EngineFromOwnBlocks` | the same of the facts there are, at every moment and however a run ends |
| `EngineNoEscalation` | `NoEscalation` (with slots) |
| `AuthInvariant` | an authorization stands on a run and on walks that keep their invariants, and says nothing before the last answer |
| `AuthKnowsSoFar` | `AuthKnows` (with slots) |
| `AuthReportsPlace` | `ReportsPlaceTogether` |
| `AuthDecidesRightly` | `RightlyDecided` (with slots) |
| `AuthOnlyNarrows` | `OnlyNarrows` (with slots) |
| `EvalTypeCorrect` | the expression machine stays within its stack, frames and bindings, whatever code it is given |
| `ClosuresInScope` | `EvalInv`, for any code, operators and bounds |
| `Accounts` | `BudgetsHold`, as long as the operators keep their accounts (`OperatorsAccount`, which `eval` checks of those in `BsOps`) |
| `LoadInvariant` | pools within their capacity, cursors on statements there are, canonical numbers only |
| `LoadOneSymbol` | two numbers in the world are equal exactly when they spell the same |
| `LoadsStated` | `LoadsWhatIsStated`, for all tables that go on from the signers' (`TablesGoOn`) |
| `ChainLoadsStated` | `LoadsWhatIsStated`, for the tables `bs_tables_build` and `bs_tables_build_block` make |
| `LoadRefusesForCause` | `RefusesForCause` (of `BsReading`): what is refused is malformed, has an unbound rule or is too large, as the code says, and what is accepted is none of these |
| `ExpandLeavesNoneBehind` | `NoneBehind`, for every block, depth and room |
| `LoadsRightly` | `LoadsWhatIsNested`: whatever is loaded is read back from the pools as it was stated, however deep it is nested, and what is refused is too deep, no value, or asks for more room than there is |
| `EqualityDecides` | `EqualMeansSame`: two values of any world that can be loaded are compared to the end, and answered rightly, wherever no set holds a value twice |
| `ParserPlacesHold` | `PlacesHold`, for every text, accepted or given up anywhere |
| `ParserTypes` | what a text is read into has the types the rest of the library reads it by |
| `ParseInvariant` | the two passes of the container parser agree for every input |
| `ContainerReads` | `ReadsWhatIsWritten`: every message is read as its schema says, whole or not at all, and refused for a cause |
| `ChainInvariant`, `OnlyTheAuthentic` | OK exactly when a token was read that is authentic from end to end, for every token, key and signature predicate |

*The walk.*  `AnswerHolds` is not inductive: that the bindings explain the
facts chosen at all levels holds only because each level's mark says how long
the bindings were before it.  `WalkInv` says so: marks are nested, variables
are bound once, and the facts of every level below the current one agree with
the prefix of the bindings up to the next mark (`BsSolverProofs`, one lemma
per turn).  That no match is missed takes two facts more.  The combinations
the walk has gone past (`AnswersPassed`) are those before the place it stands
at; when it gives a candidate up, no combination that begins this way is a
match, because every binding it holds is forced: it stems from a level still
chosen (`BindsSourced`), so any substitution that explains those levels agrees
with it.  And a variable always finds a slot, by counting: the bound names are
distinct variables of the rule.  `WalkBudget` compares a measure of the work
done, levels and arguments included, with the steps spent.

*The engine* adds what is known at an answer (`Applying`: the rule is one of
the world, and its expressions so far hold) and at the scan (`Candidacy`: the
candidate follows and none of the facts passed over is equal to it).
`EngineAttenuation` then goes by one step at a time: a fact whose origin is
within `T` follows by a rule of a block in `T` from facts whose origins are
within `T`, because origins are united; so it is in every closed set.

`TermsAccounted` sums over the derived facts.  The sum is a recursive function;
that there is one, and what it gives when a fact is appended, is shown by the
least place at which it would fail (`TotalsExist`, `TotalsAgree`), and each turn
then moves what is taken and what the pool has lost together.

The other half is the argument of a round (`RoundSoFar`).  While a round has
added nothing, the facts are those it began with; so every rule behind the one
at hand has been asked of just these, by a walk that missed nothing
(`NoneMissed`), and what each of its answers concludes was found among them by
the scan.  When the last rule ends like this nothing new follows (`Settled`),
which with `EngineAttenuation` is `NoEscalation`.  An induction over the
derivation is needed for "nothing outside a closed set"; the prover cannot
instantiate an induction theorem with a property, so the proof takes the first
fact that lies outside, and refutes it.

*Authorization.*  A query whose walk has run out has been asked of every
match: the substitution of each answer decided its expressions (`QuerySoFar`);
so the queries, checks and policies passed came out as the reference says
(`AskedSoFar`), and the verdict is read off at the end.  `OnlyNarrows`
compares two worlds: without an untrusted block `b` the rules of others match
the same of the facts that do not stem from `b`, so the smaller world means
exactly these, every check that is left is met as before, and the same policy
is the first to match.

*The expression machine.*  `EvalInv` is not inductive: when a frame resumes,
or a `try_or` recovers over several frames at once, the bindings are cut back
to the base of a frame nothing has looked at since.  `EvalIInv` adds that the
bases rise from frame to frame (`Rising`), each above every parameter of the
frames below it, so that a binding written for one frame cannot be one of a
frame beneath.  What a turn may end in (push, recover, enter a closure) has
one lemma each; the turns follow by saying what they leave of the top frame.
`BsOps` is recursive, so what the operators answer is only model-checked.

*The loader's* `LoadInv` ties each place in the code to the pools it has
reserved.  `OneSymbolOneText` needs that every number went through the one
table (`NumbersCanonical`) and that entries are never repeated.

`LoadsWhatIsStated` compares the world with a reader that has no loops, no
numbers and the tables of the signer.  It is not inductive: what a clause turns
into when it is placed was read over many turns.  `ReadInv` adds what has been
read at each place: the world says the blocks before (`FactsRead`, `RulesRead`,
`ChecksRead`), the clause at hand the predicates and tests before the turn
(`ClauseRead`), and the trust in force is that of the block (`TrustRead`).
Interning only appends to the table, so what is spelled stays spelled, and a
turn has one lemma.  Of the tables one fact is needed, `TablesGoOn`: those the
host reads a block against begin with those its signer had, so a number that
names something for the signer names the same for the loader.  It is proved of
the tables the code builds (`ChainTablesGoOn`): leaving out third parties'
blocks keeps the order, and a key keeps its first place.  The theorem is about
tokens a signer can have meant (`Sensible`: what is written resolves in the
signer's own tables); that a message outside these is refused or resolved by
the loader's tables is what `RefusesForCause` is about.

`RefusesForCause` compares where a load ends with the token as a whole: what
each of its pools would need is a sum over all statements (`Needs`), and the
texts its table would need a set (`NewTexts`).  The strengthening is `CauseInv`.
Every pool holds exactly what the statements before the turn take and the turns
of the clause at hand (`Accounted`); everything behind the loops resolves, has
its texts in the table and binds its head (`ReadiedBehind`, `QueriesReadied`);
and the table goes on from its seed by texts the token needs, each once
(`EntriesNeeded`).  A refusal then is a sum that passes the limit before its
end, or one text more than there is room for, and at the last `ChecksDone`
nothing of the token is ahead.  The hard turns are the ones that take or ask in
advance: the run of a predicate's terms is reserved before they are read
(`ReserveTakes`, `OperandTakes`), and the room for a check's queries is asked
for at once, where they come one by one (`QueriesNeeded`, `CheckAccounted`).
The theorem has no hypothesis on the tables or the token.

*What is nested.*  For the terms, `TermsInv` says that whatever has a run lies
behind the scan; a new run begins where the pool ends, which is past all runs
there are, so the runs stay in the order of their containers.  `OpsInv` has to
say more, for the run of a closure is placed over several turns with scans of
the terms in between: while it is (`Placing`), the scan over the operations
waits before it, and the places still empty are exactly as many as there are
operations left in the source (`Place`).  Without the last clause nothing
excludes a place nobody fills.

`LoadsWhatIsNested` compares the pools with a reference without scans: the
nodes of a statement (`CodeIn`, `ValuesIn`, `ParamsIn`), each with the way that
leads to it, found level after level.  It is stated without recursive
operators, so that it can be proved.  It is not inductive, since a pool does
not say for what a place was taken.  `NestingInv` says that there are functions
from the places of the three pools to nodes (`Spread`) such that a place holds
what its node holds, its run the nodes one step further on (`Listed`,
`BodyHeld`, `ParamsHeld`), or still waits and belongs to the statement being
loaded (`ValueHeld`, `OpHeld`).  Every action that places something gives the
new places the nodes below the one it is at (`Grown`), and the others keep
theirs.  Three things more are needed.  That a refusal for depth has a cause
takes the scan's own count: the places ahead are on the level it is on up to
where that ends, and on the next behind it (`ScanHeld`, `OpScanHeld`); this is
also why nothing that has been passed is too deep.  That a refusal for room has
a cause takes that no two places stand for the same node (`Apart`): then those
there are and those asked for are at most as many as there are nodes
(`NodesFit`).  And that the new nodes are not there yet holds because whatever
stands for a node below another has that one behind the scan (`ValuesApart`,
`OpsApart`, `ParamsApart`), so there is none below one that waits
(`NoneBelowWaiting`, `NoneBelowWaitingOp`).  When a load ends, everything
loaded is behind the scans, and reading back meets the node it should at every
place (`LoadedRight`), and every node of it has a place (`ValuesPlaced`,
`CodePlaced`), so it was neither too deep nor to be refused (`LoadedWell`).

*Values compared.*  `EqualityDecides` is proved of a loader and a comparison
after it (`EqSpec`), so of the pools a loader can leave, and not of any pool:
of one that nests too deep, or in a ring, it does not hold.  `LevelsInv` says
that there are levels from 0 to `MaxDepth` for the values of the pool, each
deeper than what holds it; the loader's own depth, counted over scans, is such
a level.  `EqInv` says what the frames know: each stands a level deeper than
the one below it, so that there is always a frame (`FrameAlwaysLeft`); of two
lists the items behind are the same one by one; of two sets each element behind
has its like in the other, and the one at hand has none among those gone by.
Two steps are no consequence of the turns.  Which places hold the same is a
function by recursion over rounds, and that two containers are the same exactly
when their items are holds because the rounds settle by the level
(`SameIsAlike`); the induction this takes is over naturals and is had from the
least number at which it would fail, for a *set* of numbers, which the prover
can be given where a property cannot (`FromZeroOn`, `InRounds`).  And
`bs_term_eq` asks for one inclusion and equal lengths: without repeats the
likes of the elements of one set are as many as there are, so none of the other
is left over (`NoneLeftOver`).

*The parser.*  `PlacesHold` is not inductive: that a closure is cut from code
that is there depends on a mark taken turns ago, and what was emitted since may
have been folded into a call.  `ParseIInv` therefore says how the marks lie.
What a stack holds is in order of where it begins (`FramesOrdered`,
`StackOrdered`); the operand being read begins at the end of the code, and once
it is read, at or before the place its receiver ended (`ReceiverLast`); so what
lies above a mark was put there after it.  What is read and not placed yet
names what is placed already (`TermsPending`, `CodePending`, `ClausePending`),
and pools only grow, so a run keeps its meaning wherever a text is given up.
The other parts say which statement a place belongs to and what there is room
for (`FormPlaced`): the turn that takes a term as an operand or as an argument
relies on a test that was made when the term began.  That a check asks only
queries is `QueriesHeld`: the rules placed since its first word are its
queries.  Each part is about few variables, and each turn has one lemma.

*Envelope and chain.*  `ParseInv` counts: at each field the first pass has
counted, and the second decoded, exactly the blocks among the fields before
it.  `ChainInv` says which key and which signature the verifier holds at each
place and that every block before stands; at the end that is `Authentic`, and
when the walk breaks off, what it broke off at is no part of an authentic
token.  `ReadsWhatIsWritten` compares the two passes with a schema that knows
no passes: the last of each field that does not repeat, and the blocks in
their order.  `ReadingInv` ties each place in the fields to the part of the
message before it: what the first pass holds is what the schema takes from
that part (`FoundIn`), what the second has decoded are the readings of the
blocks in it (`DecodedIn`).  Each decoder has a lemma of its own, that it
answers OK exactly when the schema reads the submessage, and then the same;
the n-th block decoded is the n-th of the message by counting.

Only model-checked:

* liveness: that a walk, a run, an evaluation and an authorization come to an
  end (`WalkEnds`, `RunReturns`, `EvalReturns`, and the part of `Decides` that
  says so);
* comparisons with a reference that is a recursive operator over data (text,
  trees, values, patterns, messages), which the prover cannot reason about:
  `EvaluatesAsWritten`, `OperatorsMeanSets`, `MatchesMeanLanguage`,
  `OperatorsAccount`, `PrintsAsRead`, `PrintsForCause`,
  `ReadsAsWritten`, `BreaksOffBetween`, the `RefusesForCause` of `BsGrammar`,
  and `Decides`, whose fixpoint is computed (`RightlyDecided` with `NoEscalation` is what is proved of it);
* `AcceptsExactlyTheMade`: which tokens were made is given with the instance
  (`OnlyTheAuthentic` is what holds of any).

## 5. What is not modelled

* Field arithmetic, SHA-512 and Ed25519 (`45`, `46`): out of reach of a model
  checker.
* Byte decoding (`50_pb`, `55_base64`): a message is given as its fields,
  "broken" standing for whatever the reader refuses.
* The spelling of a token, read (`135`) or written (`70`): escapes, dates,
  hexadecimal, the width of numbers.  A token that cannot be read is "bad", and
  refuses the text as malformed, where the lexer also says overflow.
* The entry points that print one part of a token or of a world, and the text
  in the report of a failed check.
* Of the expression machine: the functions of the host (external operators),
  the end of the symbol table and of the arena, the comparison of two closures,
  more bindings of the host than the build allows, and the branches of
  `bs_arith` that compilers without overflow builtins take.
* Of regular expressions: the end of the arena.
* Of the parser: the words of a check, kept for its report (`bs_p_since`).  Of
  the printer: the end of the arrays a tree is rebuilt in.
* The arena (`40_util`).  It satisfies or refuses, as a choice, where a module
  needs one; its marks, rewinds and its sticky failure are not modelled, so
  that hazard (`40_util.inc:344`, a rewind that does not clear the failure) has
  no property.
* Loader and authorization are checked apart: no run goes from a message to a
  verdict.

## 6. Findings

1. `solver_missed`: a rule body with more distinct variables than
   `BS_MAX_BINDINGS` matches nothing, in silence (`130_engine.inc:86`), where
   the engine's comment promises every combination.  A `reject if` over such a
   body holds.
2. `terms_repeated`: nothing removes a repeated element from a set, and
   `bs_term_eq` compares the lengths of the lists and asks for one inclusion
   (`120_eval.inc:168`): `{1, 1, 2}` equals `{1, 2, 3}` one way round and not
   the other, and `{1, 1}` does not equal `{1}`.  Its comment (`:102-104`) says
   two encodings of the same set must be equal.  `EqualMeansSame` shows that it
   is right of sets without repeats.
3. `eval_named`: inside brackets a backslash escapes whatever follows
   (`125_regex.inc:166`), so `[\d]` is the letter d; the comment (`:23-26`) says
   a named class is refused as unsupported, never a silent mismatch.
4. `parse_chained`: a comparison is refused only if the operator written just
   before it was one too (`140_parse.inc:821`), so `1 < 1 * 1 < 1` is accepted
   and read as `(1 < 1 * 1) < 1`; the comment (`:819-820`) says that comparisons
   do not chain.

Seen while modelling, and not the subject of a run of its own:

* A fact may hold a variable inside a container.  The parser looks only at the
  terms of the predicate (`140_parse.inc:1318-1322`), so `p({[1]: {$x}});` and
  `p([$x]);` are accepted, where the comment (`:1316`) says "A fact states
  something outright, so nothing in it may be a variable" and a test
  (`tests/unit/test_parse.c:336`) "a fact may not hold a variable".
  `bs_rule_bound` looks no deeper (`100_world.inc:111`): `p([$y]) <- p($x);` is accepted,
  its comment asks for every variable in the head, and the fact it derives has
  `$y` in it.  (No binding reaches into a container: what `p([$x]) <- p($x);`
  derives has `$x` in it as well.)  The run `parse` has these texts.  The
  grammar of `BsSyntax` gives the unbound ones no reading, and `ReadsAsWritten` and
  `BreaksOffBetween` except what the parser makes of them (`HoldsHoles`);
  without the exception both are violated by these texts and no others.
* The loader does not look at all: a fact on the wire may be `p($x)`
  (`110_load.inc:349-404`).  `BsLoad` loads it as stated; the walk compares its
  variable as a value (run `solver`, `AnswerHolds`).
* "The language has no reserved words" (`140_parse.inc:1383-1384`,
  `tests/unit/test_parse.c:319`), but `check(1);`, and a fact or a head named
  `reject`, `allow` or `deny`, is refused as malformed: the word alone makes the
  statement a check or a policy.  In a body a predicate cannot be named `true`,
  `false` or `null` (`:1058`), though a fact can.  The grammar reads all of these;
  `RefusesForCause` allows their refusal (`UsesWord`), which without the
  exception violates it.  `trusting`, `or` and `if` are read as names.
* `failed_check.index` repeats numbers when the checks of a block do not stand
  together in the pool (`145_authorize.inc:190`), as when the authorizer's text
  is parsed in two parts around the load.  `ReportsPlaceTogether` shows that it
  is right otherwise.
* A call of `bs_authorize` that fails has already cleared its output
  (`145_authorize.inc:158`), which the API says stays untouched.
* A parameter that shadows a variable is refused when its closure is entered
  (`120_eval.inc:729`), where the comment says before the evaluation starts.
* Lookaround in a pattern (`(?=`) is refused as malformed, where the comment
  lists it with what is unsupported; `a+?` is read as `(a+)?`.
* A comment (`80_term.inc:32-35`) says that an empty set and an empty map print
  alike; the set prints as `{,}`.  A comment of the API (`20_api.inc:335-341`)
  says that a scope of a whole block does not print; it does
  (`95_datalog.inc:210-242`).
* A string that holds a quote prints as a text that does not read back, as
  documented (`70_writer.inc:132-137`).

## 7. Plan

Done: solver, engine, authorization, expression machine with its regular
expressions, loader with what is nested, text parser, comparison and printers,
envelope and chain.  In order of what a mistake would cost, next:

1. A composition of loader and authorization: from a token to a verdict,
   attenuation end to end.
2. The arena, with marks, rewinds and the sticky failure under the machine.
3. Base64 and the protobuf cursor as pure algorithms; the spelling of tokens,
   lexer against writer.

To prove next: of the comparisons with a reference, what can be said of one
turn; and what the parser and the printer keep of them.
