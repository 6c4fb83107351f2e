------------------------------- MODULE BsEval -------------------------------
(***************************************************************************)
(* The expression machine of 120_eval.inc (bs_expr_eval): postfix code     *)
(* over a stack of values, with a stack of frames of its own so that the   *)
(* bodies of closures run without recursion.  One action is one turn of    *)
(* its loop; what becomes of a failure belongs to the turn that fails.     *)
(*                                                                         *)
(* Code is a sequence of operations and a closure holds its body, where    *)
(* the world has runs of one pool: that every run lies in the pool is the  *)
(* loader's business (BsLoad).  The operators that run no closure are      *)
(* given, BsOps has them.                                                  *)
(***************************************************************************)
EXTENDS Naturals, Sequences, FiniteSetsExt

CONSTANTS
  Cases,                   \* what may be evaluated: [code, binds, steps, room]
  MaxStack,                \* BS_MAX_EVAL_STACK
  MaxFrames,               \* BS_MAX_EVAL_FRAMES
  MaxBindings,             \* BS_MAX_BINDINGS
  UnaryOf(_, _),           \* what an operation answers for its operands, and
  BinaryOf(_, _, _, _)     \* for the room in the pool: [st, value, cost, built]

ASSUME EvalAssumption ==
  /\ MaxStack \in Nat \ {0} /\ MaxFrames \in Nat \ {0} /\ MaxBindings \in Nat
  \* The names the host binds are distinct, and no more than the build allows.
  /\ \A c \in Cases :
       /\ c.steps \in Nat /\ c.room \in Nat
       /\ Len(c.binds) \in 0..MaxBindings
       /\ \A i, j \in 1..Len(c.binds) : c.binds[i].name = c.binds[j].name => i = j

VARIABLES
  given,       \* the case at hand
  stack, sp,   \* e->stack, e->sp: what is above sp stays until overwritten
  frames, depth,       \* m.frames, m.depth
  binds, bind_count,   \* m.binds, m.bind_count
  steps,       \* w->steps
  room,        \* w->term_cap - w->term_count
  status,      \* what was returned, "none" while the call goes on
  result       \* *out

machine == <<stack, sp, frames, depth, binds, bind_count>>
evalVars == <<given, machine, steps, room, status, result>>

-----------------------------------------------------------------------------
(* Frames. *)

\* A frame runs code from pc, or waits for the frame above it.
Frame(code, pc, wait) == [code |-> code, pc |-> pc, wait |-> wait]

Awake == [pending |-> "none"]
Waits(pending) == [pending |-> pending, bind_base |-> bind_count, sp_base |-> sp - 2]
TryWait(fallback) == [pending |-> "try", bind_base |-> bind_count,
                      sp_base |-> sp - 2, fallback |-> fallback]
Iterating(pending, base, height, subject, index, closure) ==
  [pending |-> pending, bind_base |-> base, sp_base |-> height,
   subject |-> subject, index |-> index, closure |-> closure]

Unused == Frame(<<>>, 1, Awake)
NoBinding == [name |-> "none"]
NoValue == [kind |-> "none"]

Top == frames[depth]
Iterates(f) == f.wait.pending \in {"all", "any"}
Waiting(f) == f.wait.pending # "none"

With(wait) == [frames EXCEPT ![depth] = Frame(Top.code, Top.pc, wait)]
Advanced(wait) == [frames EXCEPT ![depth] = Frame(Top.code, Top.pc + 1, wait)]

Bool(b) == [kind |-> "bool", bool |-> b]
IsBool(v) == v.kind = "bool"
IsContainer(v) == v.kind \in {"set", "array", "map"}

\* bs_iter_count and bs_iter_at: a map is walked as its pairs.
IterCount(v) == IF v.kind = "map" THEN Len(v.items) \div 2 ELSE Len(v.items)
IterAt(v, i) == IF v.kind = "map"
                THEN [kind |-> "array", items |-> <<v.items[2 * i - 1], v.items[2 * i]>>]
                ELSE v.items[i]

-----------------------------------------------------------------------------
(* How a turn ends.  fs are the frames as the turn has left them by then,  *)
(* height and scope what it has left of the stack and of the bindings.     *)

Running == status = "none"

\* A slip: a turn may be the one that spends the last step.
TurnOnCredit == Running /\ steps > 0

\* A turn costs a step, and what it compares; one that finds none left fails.
Turn == Running /\ steps > 1

Spends(n) == /\ steps' = IF steps > n THEN steps - n ELSE 0
             /\ UNCHANGED given

\* What an expression built is given back when it returns.
Builds(n) == room' = IF status' = "none" THEN room - n ELSE given.room

Tries(fs) == {d \in 1..depth : fs[d].wait.pending = "try"}

Return(code) == /\ status' = code
                /\ UNCHANGED <<machine, result>>

\* Slips: the bindings of the frames given up stay in sight; the frame goes
\* on waiting; the stack keeps what those frames had pushed.
RecoverBound(fs, d) ==
  LET w == fs[d].wait
  IN  /\ frames' = [fs EXCEPT ![d] = Frame(fs[d].code, fs[d].pc, Awake)]
      /\ depth' = d
      /\ stack' = [stack EXCEPT ![w.sp_base + 1] = w.fallback]
      /\ sp' = w.sp_base + 1
      /\ UNCHANGED <<binds, bind_count, status, result>>
RecoverWaiting(fs, d) ==
  LET w == fs[d].wait
  IN  /\ frames' = fs
      /\ depth' = d
      /\ bind_count' = w.bind_base
      /\ stack' = [stack EXCEPT ![w.sp_base + 1] = w.fallback]
      /\ sp' = w.sp_base + 1
      /\ UNCHANGED <<binds, status, result>>
RecoverAbove(fs, d) ==
  LET w == fs[d].wait
  IN  /\ frames' = [fs EXCEPT ![d] = Frame(fs[d].code, fs[d].pc, Awake)]
      /\ depth' = d
      /\ bind_count' = w.bind_base
      /\ stack' = [stack EXCEPT ![sp + 1] = w.fallback]
      /\ sp' = sp + 1
      /\ UNCHANGED <<binds, status, result>>

\* Frame d, which waits on a try_or, takes the fallback for its value.
Recover(fs, d) ==
  LET w == fs[d].wait
  IN  /\ frames' = [fs EXCEPT ![d] = Frame(fs[d].code, fs[d].pc, Awake)]
      /\ depth' = d
      /\ bind_count' = w.bind_base
      /\ stack' = [stack EXCEPT ![w.sp_base + 1] = w.fallback]
      /\ sp' = w.sp_base + 1
      /\ UNCHANGED <<binds, status, result>>

\* A failure goes to the nearest try_or, or is the answer.
Fail(fs, code) ==
  IF Tries(fs) = {} THEN Return(code)
  ELSE \E d \in Tries(fs) : (\A e \in Tries(fs) : e <= d) /\ Recover(fs, d)

Push(fs, height, scope, v) ==
  IF height >= MaxStack THEN Fail(fs, "LIMIT")
  ELSE /\ stack' = [stack EXCEPT ![height + 1] = v]
       /\ sp' = height + 1
       /\ frames' = fs
       /\ bind_count' = scope
       /\ UNCHANGED <<depth, binds, status, result>>

\* Why a closure is not entered with an argument, and with none.
RefusedWith(closure, scope) ==
  IF depth >= MaxFrames THEN "DEPTH"
  ELSE IF Len(closure.params) # 1 THEN "MALFORMED"
  ELSE IF scope >= MaxBindings THEN "LIMIT"
  ELSE IF \E i \in 1..scope : binds[i].name = closure.params[1] THEN "SHADOWED"
  ELSE "OK"
RefusedBare(closure) ==
  IF depth >= MaxFrames THEN "DEPTH"
  ELSE IF closure.params # <<>> THEN "MALFORMED" ELSE "OK"

Run(fs, height, closure) ==
  /\ frames' = [fs EXCEPT ![depth + 1] = Frame(closure.body, 1, Awake)]
  /\ depth' = depth + 1
  /\ sp' = height
  /\ UNCHANGED <<stack, status, result>>

EnterBare(fs, height, closure) ==
  IF RefusedBare(closure) # "OK" THEN Fail(fs, RefusedBare(closure))
  ELSE Run(fs, height, closure) /\ UNCHANGED <<binds, bind_count>>

EnterWith(fs, height, scope, closure, item) ==
  IF RefusedWith(closure, scope) # "OK" THEN Fail(fs, RefusedWith(closure, scope))
  ELSE /\ Run(fs, height, closure)
       /\ binds' = [binds EXCEPT ![scope + 1] = [name |-> closure.params[1], value |-> item]]
       /\ bind_count' = scope + 1

-----------------------------------------------------------------------------
(* The turns. *)

OutOfSteps == /\ Running /\ steps <= 1
              /\ Fail(frames, "LIMIT")
              /\ Spends(1) /\ Builds(0)

\* The frame above has finished; its value, if it left one, is on the stack.
Resumes == Turn /\ Waiting(Top)

LeavesNothing == /\ Resumes /\ sp = 0
                 /\ Fail(frames, "MALFORMED")
                 /\ Spends(1) /\ Builds(0)

ResumeLazy == /\ Resumes /\ sp > 0 /\ Top.wait.pending = "lazy"
              /\ IF IsBool(stack[sp])
                 THEN Push(With(Awake), sp - 1, Top.wait.bind_base, stack[sp])
                 ELSE Fail(frames, "TYPE")
              /\ Spends(1) /\ Builds(0)

ResumeTry == /\ Resumes /\ sp > 0 /\ Top.wait.pending = "try"
             /\ Push(With(Awake), sp - 1, Top.wait.bind_base, stack[sp])
             /\ Spends(1) /\ Builds(0)

\* An iteration goes on while its answer is open.
Decides(pending, v) == v = Bool(pending = "any")

NextItem ==
  LET w == Top.wait
      next == Iterating(w.pending, w.bind_base, w.sp_base, w.subject, w.index + 1, w.closure)
  IN  IF w.index >= IterCount(w.subject)
      THEN Push(With(Awake), sp - 1, w.bind_base, Bool(w.pending = "all"))
      ELSE EnterWith(With(next), sp - 1, w.bind_base, w.closure,
                     IterAt(w.subject, w.index + 1))

ResumeIteration ==
  /\ Resumes /\ sp > 0 /\ Iterates(Top)
  /\ IF ~IsBool(stack[sp]) THEN Fail(frames, "TYPE")
     ELSE IF Decides(Top.wait.pending, stack[sp])
     THEN Push(With(Awake), sp - 1, Top.wait.bind_base, stack[sp])
     ELSE NextItem
  /\ Spends(1) /\ Builds(0)

\* The frame on top runs.
Dispatches == Turn /\ ~Waiting(Top)
AtEnd == Top.pc > Len(Top.code)
Op == Top.code[Top.pc]
Executes(tag) == Dispatches /\ ~AtEnd /\ Op.op = tag
Arity == [unary |-> 1, binary |-> 2]

FrameDone == /\ Dispatches /\ AtEnd /\ depth > 1
             /\ depth' = depth - 1
             /\ UNCHANGED <<stack, sp, frames, binds, bind_count, status, result>>
             /\ Spends(1) /\ Builds(0)

End == /\ Dispatches /\ AtEnd /\ depth = 1
       /\ status' = IF sp # 1 THEN "MALFORMED" ELSE IF IsBool(stack[1]) THEN "OK" ELSE "TYPE"
       /\ result' = IF status' = "OK" THEN stack[1] ELSE result
       /\ UNCHANGED machine
       /\ Spends(1) /\ Builds(0)

\* bs_resolve, with the bindings in sight.
Bound(name) == {i \in 1..bind_count : binds[i].name = name}

PushValue ==
  /\ Executes("value")
  /\ IF Op.term.kind # "variable" THEN Push(Advanced(Awake), sp, bind_count, Op.term)
     ELSE IF Bound(Op.term.name) = {} THEN Fail(Advanced(Awake), "TYPE")
     ELSE Push(Advanced(Awake), sp, bind_count, binds[Min(Bound(Op.term.name))].value)
  /\ Spends(1) /\ Builds(0)

PushClosure == /\ Executes("closure")
               /\ Push(Advanced(Awake), sp, bind_count,
                       [kind |-> "closure", params |-> Op.params, body |-> Op.body])
               /\ Spends(1) /\ Builds(0)

Underflow == /\ Dispatches /\ ~AtEnd /\ Op.op \in {"unary", "binary"} /\ sp < Arity[Op.op]
             /\ Fail(Advanced(Awake), "MALFORMED")
             /\ Spends(1) /\ Builds(0)

\* An operator that runs no closure answered.
Answers(answer, height) ==
  /\ IF answer.st = "OK" THEN Push(Advanced(Awake), height, bind_count, answer.value)
     ELSE Fail(Advanced(Awake), answer.st)
  /\ Spends(1 + answer.cost) /\ Builds(answer.built)

Unary == /\ Executes("unary") /\ sp >= 1
         /\ Answers(UnaryOf(Op, stack[sp]), sp - 1)

\* The operators that ask for a closure.
Controls == {"lazy_and", "lazy_or", "all", "any", "try_or"}
Left == stack[sp - 1]
Right == stack[sp]
Applies(kinds) == Executes("binary") /\ sp >= 2 /\ Op.kind \in kinds

Binary == /\ Executes("binary") /\ sp >= 2 /\ Op.kind \notin Controls
          /\ Answers(BinaryOf(Op, Left, Right, room), sp - 2)

Lazy == /\ Applies({"lazy_and", "lazy_or"})
        /\ IF ~IsBool(Left) \/ Right.kind # "closure" THEN Fail(Advanced(Awake), "TYPE")
           ELSE IF Left = Bool(Op.kind = "lazy_or")
           THEN Push(Advanced(Awake), sp - 2, bind_count, Left)
           ELSE EnterBare(Advanced(Waits("lazy")), sp - 2, Right)
        /\ Spends(1) /\ Builds(0)

Iterate ==
  /\ Applies({"all", "any"})
  /\ IF Right.kind # "closure" \/ ~IsContainer(Left) THEN Fail(Advanced(Awake), "TYPE")
     ELSE IF IterCount(Left) = 0
     THEN Push(Advanced(Awake), sp - 2, bind_count, Bool(Op.kind = "all"))
     ELSE EnterWith(Advanced(Iterating(Op.kind, bind_count, sp - 2, Left, 1, Right)),
                    sp - 2, bind_count, Right, IterAt(Left, 1))
  /\ Spends(1) /\ Builds(0)

\* The frame waits before the closure is entered: a closure that is refused
\* is a failure the fallback answers.
TryOr == /\ Applies({"try_or"})
         /\ IF Left.kind # "closure" THEN Fail(Advanced(Awake), "TYPE")
            ELSE EnterBare(Advanced(TryWait(Right)), sp - 2, Left)
         /\ Spends(1) /\ Builds(0)

EvalNext ==
  \/ OutOfSteps
  \/ LeavesNothing \/ ResumeLazy \/ ResumeTry \/ ResumeIteration
  \/ FrameDone \/ End
  \/ PushValue \/ PushClosure \/ Underflow
  \/ Unary \/ Binary \/ Lazy \/ Iterate \/ TryOr

EvalInit ==
  /\ given \in Cases
  /\ stack = [i \in 1..MaxStack |-> NoValue] /\ sp = 0
  /\ frames = [d \in 1..MaxFrames |-> IF d = 1 THEN Frame(given.code, 1, Awake) ELSE Unused]
  /\ depth = 1
  /\ binds = [i \in 1..MaxBindings |->
                IF i <= Len(given.binds) THEN given.binds[i] ELSE NoBinding]
  /\ bind_count = Len(given.binds)
  /\ steps = given.steps /\ room = given.room
  /\ status = "none" /\ result = NoValue

EvalSpec == EvalInit /\ [][EvalNext]_evalVars /\ WF_evalVars(EvalNext)

-----------------------------------------------------------------------------
(* Properties. *)

Codes == {"none", "OK", "MALFORMED", "TYPE", "LIMIT", "DEPTH", "SHADOWED",
          "OVERFLOW", "UNSUPPORTED", "NOMEM"}

\* The machine stays within its three arrays, whatever the code it is given:
\* nothing checks that code off the wire balances its stack.
EvalTypeOK == /\ DOMAIN stack = 1..MaxStack /\ sp \in 0..MaxStack
              /\ DOMAIN frames = 1..MaxFrames /\ depth \in 1..MaxFrames
              /\ DOMAIN binds = 1..MaxBindings /\ bind_count \in 0..MaxBindings

\* The bindings a frame may leave to the frame above it: its own, and the
\* parameter of that frame.
Given(f) == f.wait.bind_base + IF Iterates(f) THEN 1 ELSE 0
Floor(d) == IF d = 1 THEN Len(given.binds) ELSE Given(frames[d - 1])

\* A frame waits exactly while another is above it or has just finished; and
\* what it will restore is what it had.
FramesWait ==
  /\ \A d \in 1..(depth - 1) : Waiting(frames[d])
  /\ \A d \in 1..depth : Waiting(frames[d]) =>
       /\ frames[d].wait.pending \in {"lazy", "try", "all", "any"}
       /\ frames[d].wait.bind_base = Floor(d)
       /\ frames[d].wait.sp_base \in 0..(MaxStack - 2)

\* The bindings in sight are those of the frame on top: the host's, then one
\* for every iteration under way, which names the element it has come to; and
\* none hides another.
InScope ==
  /\ bind_count = IF Waiting(Top) THEN Given(Top) ELSE Floor(depth)
  /\ \A i \in 1..Len(given.binds) : binds[i] = given.binds[i]
  /\ \A d \in 1..depth : Iterates(frames[d]) =>
       LET w == frames[d].wait
       IN  binds[w.bind_base + 1] = [name |-> w.closure.params[1],
                                     value |-> IterAt(w.subject, w.index)]
  /\ \A i, j \in 1..bind_count : binds[i].name = binds[j].name => i = j

\* A closure sees the variables of the frames that enclose it, with the
\* values of the elements they have come to, and a failure a try_or answers
\* leaves none of those of the frames it gave up.
EvalInv == FramesWait /\ InScope

\* The budget and the pool are never overdrawn, what an expression built is
\* given back, and an exhausted budget is the answer: no try_or turns that
\* failure into a value, and nothing is answered on credit.
BudgetsHold == /\ steps \in 0..given.steps
               /\ room \in 0..given.room
               /\ status # "none" => room = given.room
               /\ status = "OK" => steps > 0

\* What BudgetsHold rests on: an operator charges a number of steps, and
\* builds no more than the pool has room for.
OperatorsAccount ==
  /\ Executes("unary") /\ sp >= 1 =>
       LET answer == UnaryOf(Op, stack[sp])
       IN  answer.cost \in Nat /\ answer.built = 0
  /\ Executes("binary") /\ sp >= 2 /\ Op.kind \notin Controls =>
       LET answer == BinaryOf(Op, Left, Right, room)
       IN  answer.cost \in Nat /\ answer.built \in 0..room

\* Every evaluation returns, whatever the code: the closures it may enter
\* over and over are paid for out of its budget.
EvalReturns == <>(status # "none")
=============================================================================
