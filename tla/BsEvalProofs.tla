---------------------------- MODULE BsEvalProofs ----------------------------
(***************************************************************************)
(* What holds of the expression machine for any code, any operators and    *)
(* any bounds: it stays within its arrays, and the variables in sight are  *)
(* those of the frames that enclose the one that runs.                     *)
(***************************************************************************)
EXTENDS BsEval, TLAPS

-----------------------------------------------------------------------------
(* The inductive invariant.  A frame that gives up frames above it, or     *)
(* resumes, cuts the bindings back to its base; that this base lies above  *)
(* every binding of the frames below, and no deeper than the host's, is    *)
(* what it needs of the frames it does not look at.                        *)

Rising == \A d \in 1..depth :
            /\ Floor(d) \in Len(given.binds)..MaxBindings
            /\ \A c \in 1..(d - 1) : Given(frames[c]) <= Floor(d)

EvalIInv == EvalTypeOK /\ EvalInv /\ given \in Cases /\ Rising

\* The frames as a turn may leave them before it ends: the top one alone may
\* have changed, and if it waits it will restore what is there now.
Touched(fs) ==
  /\ DOMAIN fs = 1..MaxFrames
  /\ \A d \in 1..(depth - 1) : fs[d] = frames[d]
  /\ Waiting(fs[depth]) =>
       /\ fs[depth].wait.pending \in {"lazy", "try", "all", "any"}
       /\ fs[depth].wait.bind_base = Floor(depth)
       /\ fs[depth].wait.sp_base \in 0..(MaxStack - 2)

LEMMA Bounds ==
  ASSUME EvalIInv
  PROVE  /\ MaxStack \in Nat /\ MaxStack > 0 /\ MaxFrames \in Nat /\ MaxBindings \in Nat
         /\ Len(given.binds) \in 0..MaxBindings
         /\ depth \in 1..MaxFrames /\ sp \in 0..MaxStack /\ bind_count \in 0..MaxBindings
         /\ Floor(depth) \in 0..MaxBindings
  <1>1. Floor(depth) \in Len(given.binds)..MaxBindings
    BY EvalAssumption DEF EvalIInv, Rising, EvalTypeOK
  <1> QED
    BY <1>1, EvalAssumption DEF EvalIInv, EvalTypeOK

\* The base of any frame is in sight.
LEMMA FloorInSight ==
  ASSUME EvalIInv, NEW d \in 1..depth
  PROVE  Floor(d) \in 0..bind_count
  <1> USE Bounds
  <1>1. /\ bind_count = IF Waiting(Top) THEN Given(Top) ELSE Floor(depth)
        /\ \A e \in 1..depth : Waiting(frames[e]) => frames[e].wait.bind_base = Floor(e)
        /\ \A e \in 1..(depth - 1) : Waiting(frames[e])
    BY DEF EvalIInv, EvalInv, InScope, FramesWait
  <1>2. /\ Floor(d) \in 0..MaxBindings /\ Floor(depth) \in 0..MaxBindings
        /\ d < depth => Given(frames[d]) <= Floor(depth)
    BY DEF EvalIInv, Rising
  <1>3. Floor(depth) <= bind_count
    BY <1>1, <1>2 DEF Given, Top
  <1>4. d < depth => Floor(d) <= Given(frames[d])
    BY <1>1, <1>2 DEF Given
  <1> QED
    BY <1>1, <1>2, <1>3, <1>4 DEF Given

-----------------------------------------------------------------------------
(* How a turn ends keeps the invariant.                                    *)

LEMMA RecoverKeeps ==
  ASSUME EvalIInv, NEW fs, Touched(fs), NEW d \in Tries(fs), given' = given, Recover(fs, d)
  PROVE  EvalIInv'
  <1> USE Bounds
  <1> DEFINE w == fs[d].wait
  <1>0. d \in 1..depth /\ w.pending = "try"
    BY DEF Tries
  <1>1. w.bind_base = Floor(d) /\ w.sp_base \in 0..(MaxStack - 2)
    <2>1. CASE d = depth
      BY <1>0, <2>1 DEF Touched, Waiting
    <2>2. CASE d < depth
      BY <1>0, <2>2 DEF Touched, Waiting, EvalIInv, EvalInv, FramesWait
    <2> QED BY <1>0, <2>1, <2>2
  <1>2. Floor(d) \in 0..bind_count
    BY <1>0, FloorInSight
  <1>3. /\ depth' = d /\ bind_count' = Floor(d) /\ sp' = w.sp_base + 1
        /\ frames' = [fs EXCEPT ![d] = Frame(fs[d].code, fs[d].pc, Awake)]
        /\ binds' = binds
        /\ stack' = [stack EXCEPT ![w.sp_base + 1] = w.fallback]
    BY <1>1 DEF Recover
  <1>4. DOMAIN frames' = 1..MaxFrames /\ \A c \in 1..(d - 1) : frames'[c] = frames[c]
    BY <1>0, <1>3 DEF Touched
  <1>5. frames'[d].wait = Awake
    BY <1>0, <1>3 DEF Touched, Frame
  <1>6. \A c \in 1..d : Floor(c)' = Floor(c)
    BY <1>0, <1>4 DEF Floor, Given, Iterates
  <1>7. EvalTypeOK'
    <2>1. DOMAIN stack' = 1..MaxStack /\ DOMAIN binds' = 1..MaxBindings
      BY <1>3 DEF EvalTypeOK, EvalIInv
    <2>2. sp' \in 0..MaxStack
      BY <1>1, <1>3
    <2>3. depth' \in 1..MaxFrames
      BY <1>0, <1>3
    <2>4. bind_count' \in 0..MaxBindings
      BY <1>2, <1>3
    <2> QED BY <1>4, <2>1, <2>2, <2>3, <2>4 DEF EvalTypeOK
  <1>8. FramesWait'
    <2>1. \A c \in 1..(d - 1) : Waiting(frames[c])
      BY <1>0 DEF EvalIInv, EvalInv, FramesWait
    <2>2. \A c \in 1..d : Waiting(frames[c])' => c \in 1..(d - 1)
      BY <1>0, <1>5 DEF Waiting, Awake
    <2>3. \A c \in 1..(d - 1) :
            /\ frames[c].wait.pending \in {"lazy", "try", "all", "any"}
            /\ frames[c].wait.bind_base = Floor(c)
            /\ frames[c].wait.sp_base \in 0..(MaxStack - 2)
      BY <1>0, <2>1 DEF EvalIInv, EvalInv, FramesWait
    <2> QED BY <1>0, <1>3, <1>4, <1>6, <2>1, <2>2, <2>3 DEF FramesWait, Waiting
  <1>9. InScope'
    <2>1. bind_count' = IF Waiting(Top)' THEN Given(Top)' ELSE Floor(depth)'
      BY <1>0, <1>3, <1>5, <1>6 DEF Waiting, Awake, Top
    <2>2. \A i \in 1..Len(given'.binds) : binds'[i] = given'.binds[i]
      BY <1>3 DEF EvalIInv, EvalInv, InScope
    <2>3. ASSUME NEW c \in 1..depth', Iterates(frames[c])'
          PROVE  binds'[frames'[c].wait.bind_base + 1]
                   = [name |-> frames'[c].wait.closure.params[1],
                      value |-> IterAt(frames'[c].wait.subject, frames'[c].wait.index)]
      <3>1. c \in 1..(d - 1)
        BY <1>0, <1>3, <1>5, <2>3 DEF Iterates, Awake
      <3>2. frames'[c] = frames[c] /\ Iterates(frames[c]) /\ c \in 1..depth
        BY <1>0, <1>4, <2>3, <3>1 DEF Iterates
      <3> QED
        BY <1>3, <3>2 DEF EvalIInv, EvalInv, InScope
    <2>4. \A i, j \in 1..bind_count' : binds'[i].name = binds'[j].name => i = j
      BY <1>2, <1>3 DEF EvalIInv, EvalInv, InScope
    <2> QED
      BY <2>1, <2>2, <2>3, <2>4 DEF InScope
  <1>10. Rising'
    <2>1. \A c \in 1..(d - 1) : Given(frames[c])' = Given(frames[c])
      BY <1>4 DEF Given, Iterates
    <2>2. \A c \in 1..d : /\ Floor(c) \in Len(given.binds)..MaxBindings
                           /\ \A e \in 1..(c - 1) : Given(frames[e]) <= Floor(c)
      <3>1. \A c \in 1..d : c \in 1..depth
        BY <1>0
      <3> QED BY <3>1 DEF EvalIInv, Rising
    <2>3. ASSUME NEW c \in 1..d
          PROVE  /\ Floor(c)' \in Len(given.binds)..MaxBindings
                 /\ \A e \in 1..(c - 1) : Given(frames[e])' <= Floor(c)'
      <3>1. Floor(c)' = Floor(c)
        BY <1>6
      <3>2. \A e \in 1..(c - 1) : Given(frames[e])' = Given(frames[e])
        <4>1. c \in Int /\ d \in Int /\ c <= d
          BY <1>0
        <4>2. \A e \in 1..(c - 1) : e \in 1..(d - 1)
          BY <4>1
        <4> QED BY <2>1, <4>2
      <3> QED BY <2>2, <3>1, <3>2
    <2> QED BY <1>3, <2>3 DEF Rising
  <1> QED
    BY <1>7, <1>8, <1>9, <1>10 DEF EvalIInv, EvalInv

LEMMA FailKeeps ==
  ASSUME EvalIInv, NEW fs, Touched(fs), NEW code, given' = given, Fail(fs, code)
  PROVE  EvalIInv'
  <1>1. CASE Tries(fs) = {}
    BY <1>1 DEF Fail, Return, machine, EvalIInv, EvalTypeOK, EvalInv, FramesWait, InScope, Rising,
                Floor, Given, Top
  <1>2. CASE Tries(fs) # {}
    BY <1>2, RecoverKeeps DEF Fail
  <1> QED BY <1>1, <1>2

LEMMA PushKeeps ==
  ASSUME EvalIInv, NEW fs, Touched(fs), fs[depth].wait = Awake,
         NEW height \in 0..MaxStack, NEW v, given' = given,
         Push(fs, height, Floor(depth), v)
  PROVE  EvalIInv'
  <1> USE Bounds
  <1>1. CASE height >= MaxStack
    BY <1>1, FailKeeps DEF Push
  <1>2. CASE ~(height >= MaxStack)
    <2>1. /\ stack' = [stack EXCEPT ![height + 1] = v] /\ sp' = height + 1
          /\ frames' = fs /\ bind_count' = Floor(depth) /\ depth' = depth /\ binds' = binds
      BY <1>2 DEF Push
    <2>2. Floor(depth) \in 0..bind_count
      BY FloorInSight
    <2>3. \A c \in 1..depth : Floor(c)' = Floor(c)
      BY <2>1 DEF Touched, Floor, Given, Iterates
    <2>4. \A c \in 1..depth : Waiting(frames[c])' => c \in 1..(depth - 1)
      BY <2>1 DEF Waiting, Awake
    <2>5. EvalTypeOK'
      BY <1>2, <2>1 DEF EvalTypeOK, EvalIInv, Touched
    <2>6. FramesWait'
      BY <2>1, <2>3, <2>4 DEF Touched, FramesWait, EvalIInv, EvalInv, Waiting
    <2>7. InScope'
      <3>1. bind_count' = IF Waiting(Top)' THEN Given(Top)' ELSE Floor(depth)'
        BY <2>1, <2>3 DEF Waiting, Awake, Top
      <3>2. \A i \in 1..Len(given'.binds) : binds'[i] = given'.binds[i]
        BY <2>1 DEF EvalIInv, EvalInv, InScope
      <3>3. ASSUME NEW c \in 1..depth', Iterates(frames[c])'
            PROVE  binds'[frames'[c].wait.bind_base + 1]
                     = [name |-> frames'[c].wait.closure.params[1],
                        value |-> IterAt(frames'[c].wait.subject, frames'[c].wait.index)]
        <4>1. c \in 1..(depth - 1)
          BY <2>1, <3>3 DEF Iterates, Awake
        <4>2. frames'[c] = frames[c] /\ Iterates(frames[c]) /\ c \in 1..depth
          BY <2>1, <3>3, <4>1 DEF Iterates, Touched
        <4> QED
          BY <2>1, <4>2 DEF EvalIInv, EvalInv, InScope
      <3>4. \A i, j \in 1..bind_count' : binds'[i].name = binds'[j].name => i = j
        BY <2>1, <2>2 DEF EvalIInv, EvalInv, InScope
      <3> QED
        BY <3>1, <3>2, <3>3, <3>4 DEF InScope
    <2>8. Rising'
      BY <2>1, <2>3 DEF Rising, EvalIInv, Touched, Given, Iterates
    <2> QED
      BY <2>5, <2>6, <2>7, <2>8 DEF EvalIInv, EvalInv
  <1> QED BY <1>1, <1>2

\* The frames after a closure has been entered, and what the new one may see.
LEMMA RunKeeps ==
  ASSUME EvalIInv, NEW fs, Touched(fs), Waiting(fs[depth]), depth < MaxFrames,
         NEW height \in 0..MaxStack, NEW closure, given' = given,
         Run(fs, height, closure), DOMAIN binds' = DOMAIN binds,
         bind_count' = Given(fs[depth]), bind_count' \in 0..MaxBindings,
         Given(fs[depth]) >= Floor(depth)
  PROVE  /\ EvalTypeOK' /\ FramesWait' /\ Rising'
         /\ bind_count' = IF Waiting(Top)' THEN Given(Top)' ELSE Floor(depth)'
         /\ \A c \in 1..depth : frames'[c] = fs[c]
         /\ \A c \in 1..depth' : Iterates(frames[c])' => c \in 1..depth
  <1> USE Bounds
  <1>1. /\ depth' = depth + 1 /\ sp' = height /\ stack' = stack
        /\ frames' = [fs EXCEPT ![depth + 1] = Frame(closure.body, 1, Awake)]
    BY DEF Run
  <1>2. /\ DOMAIN frames' = 1..MaxFrames /\ frames'[depth'].wait = Awake
        /\ \A c \in 1..depth : frames'[c] = fs[c]
        /\ \A c \in 1..(depth - 1) : frames'[c] = frames[c]
    BY <1>1 DEF Touched, Frame
  <1>3. \A c \in 1..depth : Floor(c)' = Floor(c)
    BY <1>2 DEF Floor, Given, Iterates
  <1>4. Floor(depth)' = Given(fs[depth])
    BY <1>1, <1>2 DEF Floor, Given, Iterates
  <1>5. EvalTypeOK'
    BY <1>1, <1>2 DEF EvalTypeOK, EvalIInv
  <1>6. FramesWait'
    <2>1. \A c \in 1..depth : Waiting(frames[c])'
      BY <1>2 DEF EvalIInv, EvalInv, FramesWait, Waiting
    <2>2. \A c \in 1..depth' : Waiting(frames[c])' => c \in 1..depth
      BY <1>1, <1>2 DEF Waiting, Awake
    <2>3. \A c \in 1..depth :
            /\ frames'[c].wait.pending \in {"lazy", "try", "all", "any"}
            /\ frames'[c].wait.bind_base = Floor(c)
            /\ frames'[c].wait.sp_base \in 0..(MaxStack - 2)
      <3>1. \A c \in 1..(depth - 1) :
              /\ frames[c].wait.pending \in {"lazy", "try", "all", "any"}
              /\ frames[c].wait.bind_base = Floor(c)
              /\ frames[c].wait.sp_base \in 0..(MaxStack - 2)
        BY DEF EvalIInv, EvalInv, FramesWait
      <3>2. \A c \in 1..depth : c \in 1..(depth - 1) \/ c = depth
        OBVIOUS
      <3> QED
        BY <1>2, <3>1, <3>2 DEF Touched
    <2>4. \A c \in 1..depth' : Waiting(frames[c])' =>
            /\ frames'[c].wait.pending \in {"lazy", "try", "all", "any"}
            /\ frames'[c].wait.bind_base = Floor(c)'
            /\ frames'[c].wait.sp_base \in 0..(MaxStack - 2)
      BY <1>3, <2>2, <2>3
    <2>5. depth' - 1 = depth
      BY <1>1
    <2> QED
      BY <2>1, <2>4, <2>5 DEF FramesWait
  <1>7. Rising'
    <2>1. \A c \in 1..(depth - 1) : Given(frames[c]) <= Floor(depth)
      BY DEF EvalIInv, Rising
    <2>2. /\ \A c \in 1..(depth - 1) : Given(frames[c])' = Given(frames[c])
          /\ \A c \in 1..depth : Given(frames[c])' = Given(fs[c])
      BY <1>2 DEF Given, Iterates
    <2>3. \A c \in 1..(depth - 1) : Given(frames[c]) \in Int
      <3>1. \A c \in 1..(depth - 1) : frames[c].wait.bind_base \in Int
        BY DEF EvalIInv, EvalInv, FramesWait, Rising
      <3> QED
        BY <3>1 DEF Given
    <2>4. \A c \in 1..depth : c \in 1..(depth - 1) \/ c = depth
      OBVIOUS
    <2>5. \A c \in 1..depth : Given(frames[c])' <= Given(fs[depth])
      <3> DEFINE G == Given(fs[depth])
      <3>1. G \in Int /\ Floor(depth) \in Int /\ G >= Floor(depth)
        OBVIOUS
      <3>2. \A c \in 1..depth : c = depth => Given(frames[c])' = G
        BY <2>2
      <3> HIDE DEF G
      <3>3. \A c \in 1..(depth - 1) : Given(frames[c]) <= G
        BY <2>1, <2>3, <3>1
      <3>4. \A c \in 1..(depth - 1) : Given(frames[c])' <= G
        BY <2>2, <3>3
      <3>5. \A c \in 1..depth : Given(frames[c])' <= G
        BY <2>4, <3>1, <3>2, <3>4
      <3> QED BY <3>5 DEF G
    <2>6. \A c \in 1..depth : /\ Floor(c)' \in Len(given.binds)..MaxBindings
                              /\ \A e \in 1..(c - 1) : Given(frames[e])' <= Floor(c)'
      <3>1. \A c \in 1..depth : /\ Floor(c) \in Len(given.binds)..MaxBindings
                                /\ \A e \in 1..(c - 1) : Given(frames[e]) <= Floor(c)
        BY DEF EvalIInv, Rising
      <3>2. \A c \in 1..depth : \A e \in 1..(c - 1) : e \in 1..(depth - 1)
        OBVIOUS
      <3>3. \A c \in 1..depth : \A e \in 1..(c - 1) : Given(frames[e])' <= Floor(c)'
        BY <1>3, <2>2, <3>1, <3>2
      <3> QED
        BY <1>3, <3>1, <3>3
    <2>7. Floor(depth)' \in Len(given.binds)..MaxBindings
      <3>1. Floor(depth) \in Len(given.binds)..MaxBindings
        BY DEF EvalIInv, Rising
      <3> QED
        BY <1>4, <3>1
    <2>8. \A c \in 1..depth' : c \in 1..depth \/ c = depth'
      BY <1>1
    <2>9. \A c \in 1..depth' : /\ Floor(c)' \in Len(given.binds)..MaxBindings
                               /\ \A e \in 1..(c - 1) : Given(frames[e])' <= Floor(c)'
      <3> TAKE c \in 1..depth'
      <3>1. CASE c \in 1..depth
        BY <2>6, <3>1
      <3>2. CASE c = depth'
        <4>1. Floor(c)' = Given(fs[depth])
          BY <1>4, <3>2 DEF Floor
        <4>2. \A e \in 1..(c - 1) : e \in 1..depth
          BY <1>1, <3>2
        <4> QED
          BY <1>4, <2>5, <2>7, <4>1, <4>2
      <3> QED BY <2>8, <3>1, <3>2
    <2> QED
      BY <2>9 DEF Rising
  <1>8. \A c \in 1..depth' : Iterates(frames[c])' => c \in 1..depth
    BY <1>1, <1>2 DEF Iterates, Awake
  <1>9. bind_count' = IF Waiting(Top)' THEN Given(Top)' ELSE Floor(depth)'
    BY <1>2, <1>4 DEF Waiting, Awake, Top
  <1> QED
    BY <1>2, <1>5, <1>6, <1>7, <1>8, <1>9

LEMMA EnterBareKeeps ==
  ASSUME EvalIInv, NEW fs, Touched(fs), bind_count = Floor(depth),
         fs[depth].wait.pending \in {"lazy", "try"},
         NEW height \in 0..MaxStack, NEW closure, given' = given,
         EnterBare(fs, height, closure)
  PROVE  EvalIInv'
  <1> USE Bounds
  <1>1. CASE RefusedBare(closure) # "OK"
    BY <1>1, FailKeeps DEF EnterBare
  <1>2. CASE RefusedBare(closure) = "OK"
    <2>1. /\ depth < MaxFrames /\ Run(fs, height, closure)
          /\ binds' = binds /\ bind_count' = bind_count
      BY <1>2 DEF EnterBare, RefusedBare
    <2>2. Waiting(fs[depth]) /\ ~Iterates(fs[depth]) /\ Given(fs[depth]) = Floor(depth)
      BY DEF Touched, Waiting, Iterates, Given
    <2>3. /\ EvalTypeOK' /\ FramesWait' /\ Rising'
          /\ bind_count' = IF Waiting(Top)' THEN Given(Top)' ELSE Floor(depth)'
          /\ \A c \in 1..depth : frames'[c] = fs[c]
          /\ \A c \in 1..depth' : Iterates(frames[c])' => c \in 1..depth
      BY <2>1, <2>2, RunKeeps
    <2>4. \A c \in 1..depth' : Iterates(frames[c])' =>
             c \in 1..depth /\ Iterates(frames[c]) /\ frames'[c] = frames[c]
      BY <2>2, <2>3 DEF Touched, Iterates
    <2>5. InScope'
      BY <2>1, <2>3, <2>4 DEF InScope, EvalIInv, EvalInv
    <2> QED
      BY <2>3, <2>5 DEF EvalIInv, EvalInv
  <1> QED BY <1>1, <1>2

LEMMA EnterWithKeeps ==
  ASSUME EvalIInv, NEW fs, Touched(fs), Iterates(fs[depth]),
         NEW height \in 0..MaxStack, NEW closure, NEW item, given' = given,
         fs[depth].wait.closure = closure,
         IterAt(fs[depth].wait.subject, fs[depth].wait.index) = item,
         EnterWith(fs, height, Floor(depth), closure, item)
  PROVE  EvalIInv'
  <1> USE Bounds
  <1> DEFINE base == Floor(depth)
             bound == [name |-> closure.params[1], value |-> item]
  <1>1. CASE RefusedWith(closure, base) # "OK"
    BY <1>1, FailKeeps DEF EnterWith
  <1>2. CASE RefusedWith(closure, base) = "OK"
    <2>1. /\ depth < MaxFrames /\ base < MaxBindings
          /\ ~\E i \in 1..base : binds[i].name = closure.params[1]
      BY <1>2 DEF RefusedWith
    <2>2. /\ Run(fs, height, closure)
          /\ binds' = [binds EXCEPT ![base + 1] = bound]
          /\ bind_count' = base + 1
      BY <1>2 DEF EnterWith
    <2>3. Waiting(fs[depth]) /\ Given(fs[depth]) = base + 1 /\ fs[depth].wait.bind_base = base
      BY DEF Touched, Waiting, Iterates, Given
    <2>4. base \in 0..bind_count
      BY FloorInSight
    <2>5. /\ EvalTypeOK' /\ FramesWait' /\ Rising'
          /\ bind_count' = IF Waiting(Top)' THEN Given(Top)' ELSE Floor(depth)'
          /\ \A c \in 1..depth : frames'[c] = fs[c]
          /\ \A c \in 1..depth' : Iterates(frames[c])' => c \in 1..depth
      BY <2>1, <2>2, <2>3, <2>4, RunKeeps
    <2>6. base + 1 \in DOMAIN binds
      BY <2>1 DEF EvalIInv, EvalTypeOK
    <2>7. binds'[base + 1] = bound /\ \A i \in 1..base : binds'[i] = binds[i]
      BY <2>1, <2>2, <2>6 DEF EvalIInv, EvalTypeOK
    <2>8. \A i \in 1..Len(given'.binds) : binds'[i] = given'.binds[i]
      <3>1. Len(given.binds) <= base
        BY DEF EvalIInv, Rising
      <3> QED
        BY <2>7, <3>1 DEF EvalIInv, EvalInv, InScope
    <2>9. ASSUME NEW c \in 1..depth', Iterates(frames[c])'
          PROVE  binds'[frames'[c].wait.bind_base + 1]
                   = [name |-> frames'[c].wait.closure.params[1],
                      value |-> IterAt(frames'[c].wait.subject, frames'[c].wait.index)]
      <3>1. c \in 1..depth /\ frames'[c] = fs[c]
        BY <2>5, <2>9
      <3>2. CASE c = depth
        BY <2>3, <2>7, <3>1, <3>2
      <3>3. CASE c < depth
        <4>1. frames'[c] = frames[c] /\ Iterates(frames[c]) /\ c \in 1..(depth - 1)
          BY <2>9, <3>1, <3>3 DEF Touched, Iterates
        <4>2. Given(frames[c]) <= base /\ frames[c].wait.bind_base = Floor(c) /\ Floor(c) \in Nat
          <5>1. \A d \in 1..depth :
                  /\ Floor(d) \in Len(given.binds)..MaxBindings
                  /\ \A e \in 1..(d - 1) : Given(frames[e]) <= Floor(d)
            BY DEF EvalIInv, Rising
          <5>2. Given(frames[c]) <= base /\ Floor(c) \in Nat
            BY <4>1, <5>1
          <5>3. frames[c].wait.bind_base = Floor(c)
            BY <4>1 DEF EvalIInv, EvalInv, FramesWait
          <5> QED BY <5>2, <5>3
        <4>3. frames[c].wait.bind_base + 1 \in 1..base
          <5>1. Given(frames[c]) = frames[c].wait.bind_base + 1
            BY <4>1 DEF Given
          <5> QED
            BY <4>2, <5>1
        <4>4. binds[frames[c].wait.bind_base + 1]
                = [name |-> frames[c].wait.closure.params[1],
                   value |-> IterAt(frames[c].wait.subject, frames[c].wait.index)]
          BY <4>1 DEF EvalIInv, EvalInv, InScope
        <4>5. binds'[frames[c].wait.bind_base + 1] = binds[frames[c].wait.bind_base + 1]
          BY <2>7, <4>3
        <4> QED
          BY <4>1, <4>4, <4>5
      <3> QED BY <3>1, <3>2, <3>3
    <2>10. \A i, j \in 1..bind_count' : binds'[i].name = binds'[j].name => i = j
      BY <2>1, <2>2, <2>4, <2>7 DEF EvalIInv, EvalInv, InScope
    <2>11. InScope'
      BY <2>5, <2>8, <2>9, <2>10 DEF InScope
    <2> QED
      BY <2>5, <2>11 DEF EvalIInv, EvalInv
  <1> QED BY <1>1, <1>2

-----------------------------------------------------------------------------
(* Every turn keeps the invariant.                                         *)

LEMMA TopTouched ==
  ASSUME EvalIInv, NEW wait,
         \/ wait.pending = "none"
         \/ /\ wait.pending \in {"lazy", "try", "all", "any"}
            /\ wait.bind_base = Floor(depth)
            /\ wait.sp_base \in 0..(MaxStack - 2)
  PROVE  /\ Touched(With(wait)) /\ With(wait)[depth].wait = wait
         /\ Touched(Advanced(wait)) /\ Advanced(wait)[depth].wait = wait
  <1> USE Bounds
  <1>1. /\ DOMAIN With(wait) = 1..MaxFrames /\ With(wait)[depth].wait = wait
        /\ \A d \in 1..(depth - 1) : With(wait)[d] = frames[d]
    BY DEF EvalIInv, EvalTypeOK, With, Frame
  <1>2. /\ DOMAIN Advanced(wait) = 1..MaxFrames /\ Advanced(wait)[depth].wait = wait
        /\ \A d \in 1..(depth - 1) : Advanced(wait)[d] = frames[d]
    BY DEF EvalIInv, EvalTypeOK, Advanced, Frame
  <1> QED
    BY <1>1, <1>2 DEF Touched, Waiting

LEMMA AwakeTouched ==
  ASSUME EvalIInv
  PROVE  /\ Touched(frames)
         /\ Touched(With(Awake)) /\ With(Awake)[depth].wait = Awake
         /\ Touched(Advanced(Awake)) /\ Advanced(Awake)[depth].wait = Awake
  <1>1. Touched(frames)
    BY Bounds DEF EvalIInv, EvalTypeOK, EvalInv, FramesWait, Touched
  <1>2. Awake.pending = "none"
    BY DEF Awake
  <1> QED BY <1>1, <1>2, TopTouched

\* What a frame that waits knows, and one that runs.
LEMMA TopScope ==
  ASSUME EvalIInv
  PROVE  /\ Waiting(Top) => /\ Top.wait.bind_base = Floor(depth)
                            /\ Top.wait.pending \in {"lazy", "try", "all", "any"}
                            /\ Top.wait.sp_base \in 0..(MaxStack - 2)
         /\ ~Waiting(Top) => bind_count = Floor(depth)
  BY Bounds DEF EvalIInv, EvalInv, FramesWait, InScope, Top

LEMMA ResumptionKeeps ==
  ASSUME EvalIInv, given' = given, Resumes,
         LeavesNothing \/ ResumeLazy \/ ResumeTry \/ ResumeIteration
  PROVE  EvalIInv'
  <1> USE Bounds, AwakeTouched, TopScope
  <1>0. Waiting(Top) /\ Top.wait.bind_base = Floor(depth)
    BY DEF Resumes
  <1>1. CASE LeavesNothing
    BY <1>1, FailKeeps DEF LeavesNothing
  <1>2. CASE ResumeLazy
    <2>1. sp - 1 \in 0..MaxStack
      BY <1>2 DEF ResumeLazy
    <2> QED
      BY <1>0, <1>2, <2>1, FailKeeps, PushKeeps DEF ResumeLazy
  <1>3. CASE ResumeTry
    <2>1. sp - 1 \in 0..MaxStack
      BY <1>3 DEF ResumeTry
    <2> QED
      BY <1>0, <1>3, <2>1, PushKeeps DEF ResumeTry
  <1>4. CASE ResumeIteration
    <2>1. sp - 1 \in 0..MaxStack /\ Iterates(Top)
      BY <1>4 DEF ResumeIteration
    <2>2. CASE ~IsBool(stack[sp])
      BY <1>4, <2>2, FailKeeps DEF ResumeIteration
    <2>3. CASE IsBool(stack[sp]) /\ Decides(Top.wait.pending, stack[sp])
      BY <1>0, <1>4, <2>1, <2>3, PushKeeps DEF ResumeIteration
    <2>4. CASE IsBool(stack[sp]) /\ ~Decides(Top.wait.pending, stack[sp])
      <3> DEFINE w == Top.wait
                 next == Iterating(w.pending, w.bind_base, w.sp_base, w.subject,
                                   w.index + 1, w.closure)
      <3>1. NextItem
        BY <1>4, <2>4 DEF ResumeIteration
      <3>2. CASE w.index >= IterCount(w.subject)
        BY <1>0, <2>1, <3>1, <3>2, PushKeeps DEF NextItem
      <3>3. CASE ~(w.index >= IterCount(w.subject))
        <4>1. EnterWith(With(next), sp - 1, Floor(depth), w.closure,
                        IterAt(w.subject, w.index + 1))
          BY <1>0, <3>1, <3>3 DEF NextItem
        <4>2. /\ next.pending = w.pending /\ next.bind_base = Floor(depth)
              /\ next.sp_base = w.sp_base /\ next.closure = w.closure
              /\ next.subject = w.subject /\ next.index = w.index + 1
          BY <1>0 DEF Iterating
        <4> HIDE DEF next
        <4>3. Touched(With(next)) /\ With(next)[depth].wait = next
          BY <1>0, <4>2, TopTouched
        <4>4. Iterates(With(next)[depth])
          BY <2>1, <4>2, <4>3 DEF Iterates
        <4> QED
          BY <2>1, <4>1, <4>2, <4>3, <4>4, EnterWithKeeps
      <3> QED BY <3>2, <3>3
    <2> QED BY <2>2, <2>3, <2>4
  <1> QED BY <1>1, <1>2, <1>3, <1>4

LEMMA DispatchKeeps ==
  ASSUME EvalIInv, given' = given, Dispatches,
         \/ FrameDone \/ End \/ PushValue \/ PushClosure \/ Underflow
         \/ Unary \/ Binary \/ Lazy \/ Iterate \/ TryOr
  PROVE  EvalIInv'
  <1> USE Bounds, AwakeTouched
  <1>0. ~Waiting(Top) /\ bind_count = Floor(depth)
    BY TopScope DEF Dispatches
  <1>1. CASE FrameDone
    <2>1. /\ depth > 1 /\ depth' = depth - 1 /\ stack' = stack /\ sp' = sp /\ frames' = frames
          /\ binds' = binds /\ bind_count' = bind_count
      BY <1>1 DEF FrameDone
    <2>2. Waiting(frames[depth - 1]) /\ Floor(depth) = Given(frames[depth - 1])
      BY <2>1 DEF EvalIInv, EvalInv, FramesWait, Floor
    <2>3. \A d \in 1..depth : Floor(d)' = Floor(d)
      BY <2>1 DEF Floor, Given, Iterates
    <2>4. EvalTypeOK'
      BY <2>1 DEF EvalTypeOK, EvalIInv
    <2>5. FramesWait'
      BY <2>1, <2>3 DEF FramesWait, EvalIInv, EvalInv
    <2>6. InScope'
      BY <1>0, <2>1, <2>2 DEF InScope, EvalIInv, EvalInv, Top, Given, Iterates, Waiting
    <2>7. Rising'
      BY <2>1, <2>3 DEF Rising, EvalIInv, Given, Iterates
    <2> QED
      BY <2>4, <2>5, <2>6, <2>7 DEF EvalIInv, EvalInv
  <1>2. CASE End
    BY <1>2 DEF End, machine, EvalIInv, EvalTypeOK, EvalInv, FramesWait, InScope, Rising, Floor,
                Given, Top
  <1>3. CASE PushValue
    BY <1>0, <1>3, FailKeeps, PushKeeps DEF PushValue
  <1>4. CASE PushClosure
    BY <1>0, <1>4, PushKeeps DEF PushClosure
  <1>5. CASE Underflow
    BY <1>5, FailKeeps DEF Underflow
  <1>6. CASE Unary
    <2>1. sp - 1 \in 0..MaxStack
      BY <1>6 DEF Unary
    <2> QED
      BY <1>0, <1>6, <2>1, FailKeeps, PushKeeps DEF Unary, Answers
  <1>7. ASSUME sp >= 2
        PROVE  sp - 2 \in 0..MaxStack /\ sp - 2 \in 0..(MaxStack - 2)
    BY <1>7
  <1>8. CASE Binary
    <2>1. sp >= 2
      BY <1>8 DEF Binary
    <2> QED
      BY <1>0, <1>7, <1>8, <2>1, FailKeeps, PushKeeps DEF Binary, Answers
  <1>9. CASE Lazy
    <2>1. sp >= 2
      BY <1>9 DEF Lazy, Applies
    <2>2. CASE ~IsBool(Left) \/ Right.kind # "closure"
      BY <1>9, <2>2, FailKeeps DEF Lazy
    <2>3. CASE ~(~IsBool(Left) \/ Right.kind # "closure") /\ Left = Bool(Op.kind = "lazy_or")
      BY <1>0, <1>7, <1>9, <2>1, <2>3, PushKeeps DEF Lazy
    <2>4. CASE ~(~IsBool(Left) \/ Right.kind # "closure") /\ Left # Bool(Op.kind = "lazy_or")
      <3> DEFINE wait == Waits("lazy")
      <3>1. EnterBare(Advanced(wait), sp - 2, Right)
        BY <1>9, <2>4 DEF Lazy
      <3>2. /\ wait.pending = "lazy" /\ wait.bind_base = Floor(depth)
            /\ wait.sp_base \in 0..(MaxStack - 2)
        BY <1>0, <1>7, <2>1 DEF Waits
      <3> HIDE DEF wait
      <3>3. Touched(Advanced(wait)) /\ Advanced(wait)[depth].wait = wait
        BY <3>2, TopTouched
      <3> QED
        BY <1>0, <1>7, <2>1, <3>1, <3>2, <3>3, EnterBareKeeps
    <2> QED BY <2>2, <2>3, <2>4
  <1>10. CASE Iterate
    <2>1. sp >= 2 /\ Op.kind \in {"all", "any"}
      BY <1>10 DEF Iterate, Applies
    <2>2. CASE Right.kind # "closure" \/ ~IsContainer(Left)
      BY <1>10, <2>2, FailKeeps DEF Iterate
    <2>3. CASE ~(Right.kind # "closure" \/ ~IsContainer(Left)) /\ IterCount(Left) = 0
      BY <1>0, <1>7, <1>10, <2>1, <2>3, PushKeeps DEF Iterate
    <2>4. CASE ~(Right.kind # "closure" \/ ~IsContainer(Left)) /\ IterCount(Left) # 0
      <3> DEFINE wait == Iterating(Op.kind, bind_count, sp - 2, Left, 1, Right)
      <3>1. EnterWith(Advanced(wait), sp - 2, Floor(depth), Right, IterAt(Left, 1))
        BY <1>0, <1>10, <2>4 DEF Iterate
      <3>2. /\ wait.pending \in {"all", "any"} /\ wait.bind_base = Floor(depth)
            /\ wait.sp_base \in 0..(MaxStack - 2)
            /\ wait.closure = Right /\ IterAt(wait.subject, wait.index) = IterAt(Left, 1)
        BY <1>0, <1>7, <2>1 DEF Iterating
      <3> HIDE DEF wait
      <3>3. Touched(Advanced(wait)) /\ Advanced(wait)[depth].wait = wait
        BY <3>2, TopTouched
      <3>4. Iterates(Advanced(wait)[depth])
        BY <3>2, <3>3 DEF Iterates
      <3> QED
        BY <1>7, <2>1, <3>1, <3>2, <3>3, <3>4, EnterWithKeeps
    <2> QED BY <2>2, <2>3, <2>4
  <1>11. CASE TryOr
    <2>1. sp >= 2
      BY <1>11 DEF TryOr, Applies
    <2>2. CASE Left.kind # "closure"
      BY <1>11, <2>2, FailKeeps DEF TryOr
    <2>3. CASE Left.kind = "closure"
      <3> DEFINE wait == TryWait(Right)
      <3>1. EnterBare(Advanced(wait), sp - 2, Left)
        BY <1>11, <2>3 DEF TryOr
      <3>2. /\ wait.pending = "try" /\ wait.bind_base = Floor(depth)
            /\ wait.sp_base \in 0..(MaxStack - 2)
        BY <1>0, <1>7, <2>1 DEF TryWait
      <3> HIDE DEF wait
      <3>3. Touched(Advanced(wait)) /\ Advanced(wait)[depth].wait = wait
        BY <3>2, TopTouched
      <3> QED
        BY <1>0, <1>7, <2>1, <3>1, <3>2, <3>3, EnterBareKeeps
    <2> QED BY <2>2, <2>3
  <1> QED
    BY <1>1, <1>2, <1>3, <1>4, <1>5, <1>6, <1>8, <1>9, <1>10, <1>11

-----------------------------------------------------------------------------
(* The theorems. *)

LEMMA InitInv == EvalInit => EvalIInv
  <1> SUFFICES ASSUME EvalInit PROVE EvalIInv
    OBVIOUS
  <1>1. given \in Cases /\ Len(given.binds) \in 0..MaxBindings /\ MaxFrames \in Nat
        /\ MaxStack \in Nat /\ MaxFrames >= 1 /\ MaxBindings \in Nat
    BY EvalAssumption DEF EvalInit
  <1>2. EvalTypeOK
    BY <1>1 DEF EvalInit, EvalTypeOK
  <1>3. depth = 1 /\ frames[1].wait = Awake /\ Floor(1) = Len(given.binds)
    BY <1>1 DEF EvalInit, Frame, Floor
  <1>4. FramesWait
    BY <1>3 DEF FramesWait, Waiting, Awake
  <1>5. InScope
    <2>1. \A i \in 1..Len(given.binds) : binds[i] = given.binds[i]
      BY <1>1 DEF EvalInit
    <2>2. bind_count = Len(given.binds)
      BY DEF EvalInit
    <2>3. \A i, j \in 1..bind_count : binds[i].name = binds[j].name => i = j
      BY <1>1, <2>1, <2>2, EvalAssumption
    <2> QED
      BY <1>3, <2>1, <2>2, <2>3 DEF InScope, Waiting, Iterates, Awake, Top
  <1>6. Rising
    BY <1>1, <1>3 DEF Rising
  <1> QED
    BY <1>1, <1>2, <1>4, <1>5, <1>6 DEF EvalIInv, EvalInv

LEMMA StepInv == EvalIInv /\ [EvalNext]_evalVars => EvalIInv'
  <1> SUFFICES ASSUME EvalIInv, [EvalNext]_evalVars PROVE EvalIInv'
    OBVIOUS
  <1>1. CASE OutOfSteps
    BY <1>1, AwakeTouched, FailKeeps DEF OutOfSteps, Spends
  <1>2. CASE LeavesNothing \/ ResumeLazy \/ ResumeTry \/ ResumeIteration
    BY <1>2, ResumptionKeeps DEF LeavesNothing, ResumeLazy, ResumeTry, ResumeIteration, Spends
  <1>3. CASE \/ FrameDone \/ End \/ PushValue \/ PushClosure \/ Underflow
             \/ Unary \/ Binary \/ Lazy \/ Iterate \/ TryOr
    <2>1. given' = given
      BY <1>3 DEF FrameDone, End, PushValue, PushClosure, Underflow, Unary, Binary, Lazy,
                  Iterate, TryOr, Answers, Spends
    <2>2. Dispatches
      BY <1>3 DEF FrameDone, End, PushValue, PushClosure, Underflow, Unary, Binary, Lazy,
                  Iterate, TryOr, Applies, Executes
    <2> QED
      BY <1>3, <2>1, <2>2, DispatchKeeps
  <1>4. CASE UNCHANGED evalVars
    BY <1>4 DEF evalVars, machine, EvalIInv, EvalTypeOK, EvalInv, FramesWait, InScope, Rising,
                Floor, Given, Top
  <1> QED
    BY <1>1, <1>2, <1>3, <1>4 DEF EvalNext

THEOREM Invariant == EvalSpec => []EvalIInv
  <1> QED BY InitInv, StepInv, PTL DEF EvalSpec

\* Whatever code it is given, the machine of bs_expr_eval stays within its
\* stack, its frames and its bindings.
THEOREM EvalTypeCorrect == EvalSpec => []EvalTypeOK
  <1>1. EvalIInv => EvalTypeOK
    BY DEF EvalIInv
  <1> QED BY Invariant, <1>1, PTL

\* Whatever code it is given, a closure sees the variables of the frames that
\* enclose it, each with the value it has come to, and no others.
THEOREM ClosuresInScope == EvalSpec => []EvalInv
  <1>1. EvalIInv => EvalInv
    BY DEF EvalIInv
  <1> QED BY Invariant, <1>1, PTL

-----------------------------------------------------------------------------
(* The budget and the pool. *)

LEMMA FailNever ==
  ASSUME NEW fs, NEW code, code # "OK", status = "none", Fail(fs, code)
  PROVE  status' # "OK"
  BY DEF Fail, Return, Recover

LEMMA PushNever ==
  ASSUME NEW fs, NEW height, NEW scope, NEW v, status = "none", Push(fs, height, scope, v)
  PROVE  status' # "OK"
  BY FailNever DEF Push

LEMMA EnterBareNever ==
  ASSUME NEW fs, NEW height, NEW closure, status = "none", EnterBare(fs, height, closure)
  PROVE  status' # "OK"
  BY FailNever DEF EnterBare, Run

LEMMA EnterWithNever ==
  ASSUME NEW fs, NEW height, NEW scope, NEW closure, NEW item, status = "none",
         EnterWith(fs, height, scope, closure, item)
  PROVE  status' # "OK"
  BY FailNever DEF EnterWith, Run

\* A turn spends at least a step and builds at most what there is room for.
LEMMA SpendsWithin ==
  ASSUME given \in Cases, BudgetsHold, NEW n \in Nat, NEW k \in 0..room,
         Spends(n), Builds(k), status' = "OK" => steps > n
  PROVE  BudgetsHold'
  <1>1. given.steps \in Nat /\ given.room \in Nat
    BY EvalAssumption
  <1> QED
    BY <1>1 DEF BudgetsHold, Spends, Builds

InBudget == given \in Cases /\ BudgetsHold

LEMMA BudgetStep ==
  OperatorsAccount /\ InBudget /\ [EvalNext]_evalVars => InBudget'
  <1> SUFFICES ASSUME OperatorsAccount, given \in Cases, BudgetsHold, [EvalNext]_evalVars
               PROVE  BudgetsHold' /\ given' \in Cases
    BY DEF InBudget
  <1>0. 0 \in 0..room /\ room \in Nat /\ 1 \in Nat
    BY EvalAssumption DEF BudgetsHold
  <1>1. CASE UNCHANGED evalVars
    BY <1>1 DEF evalVars, BudgetsHold
  <1>2. CASE OutOfSteps
    BY <1>0, <1>2, FailNever, SpendsWithin DEF OutOfSteps, Running, Spends
  <1>3. CASE LeavesNothing \/ ResumeLazy \/ ResumeTry \/ ResumeIteration
    <2>1. status = "none" /\ Spends(1) /\ Builds(0)
      BY <1>3 DEF LeavesNothing, ResumeLazy, ResumeTry, ResumeIteration, Resumes, Turn, Running
    <2>2. status' # "OK"
      BY <1>3, <2>1, FailNever, PushNever, EnterWithNever
         DEF LeavesNothing, ResumeLazy, ResumeTry, ResumeIteration, NextItem
    <2> QED
      BY <1>0, <2>1, <2>2, SpendsWithin DEF Spends
  <1>4. CASE FrameDone
    BY <1>0, <1>4, SpendsWithin DEF FrameDone, Spends, Dispatches, Turn, Running
  <1>5. CASE End
    BY <1>0, <1>5, SpendsWithin DEF End, Spends, Dispatches, Turn
  <1>6. CASE PushValue \/ PushClosure \/ Underflow \/ Lazy \/ Iterate \/ TryOr
    <2>1. status = "none" /\ Spends(1) /\ Builds(0)
      BY <1>6 DEF PushValue, PushClosure, Underflow, Lazy, Iterate, TryOr, Applies, Executes,
                  Dispatches, Turn, Running
    <2>2. status' # "OK"
      BY <1>6, <2>1, FailNever, PushNever, EnterBareNever, EnterWithNever
         DEF PushValue, PushClosure, Underflow, Lazy, Iterate, TryOr
    <2> QED
      BY <1>0, <2>1, <2>2, SpendsWithin DEF Spends
  <1>7. ASSUME NEW answer, NEW height, status = "none", Answers(answer, height),
               answer.cost \in Nat, answer.built \in 0..room
        PROVE  BudgetsHold' /\ given' = given
    <2>1. status' # "OK"
      BY <1>7, FailNever, PushNever DEF Answers
    <2>2. 1 + answer.cost \in Nat
      BY <1>7
    <2> QED
      BY <1>7, <2>1, <2>2, SpendsWithin DEF Answers, Spends
  <1>8. CASE Unary
    <2>1. status = "none" /\ Answers(UnaryOf(Op, stack[sp]), sp - 1)
      BY <1>8 DEF Unary, Executes, Dispatches, Turn, Running
    <2> QED
      BY <1>0, <1>7, <1>8, <2>1 DEF OperatorsAccount, Unary
  <1>9. CASE Binary
    <2>1. status = "none" /\ Answers(BinaryOf(Op, Left, Right, room), sp - 2)
      BY <1>9 DEF Binary, Executes, Dispatches, Turn, Running
    <2> QED
      BY <1>0, <1>7, <1>9, <2>1 DEF OperatorsAccount, Binary
  <1> QED
    BY <1>1, <1>2, <1>3, <1>4, <1>5, <1>6, <1>8, <1>9 DEF EvalNext

\* As long as the operators keep their accounts, so does the machine: no
\* evaluation overdraws its budget or the pool, and none answers on a budget that is
\* spent, whatever the try_or it is wrapped in.
THEOREM Accounts == EvalSpec /\ []OperatorsAccount => []BudgetsHold
  <1>1. EvalInit => InBudget
    BY EvalAssumption DEF EvalInit, BudgetsHold, InBudget
  <1>2. OperatorsAccount /\ InBudget /\ [EvalNext]_evalVars => InBudget'
    BY BudgetStep
  <1>3. InBudget => BudgetsHold
    BY DEF InBudget
  <1> QED BY <1>1, <1>2, <1>3, PTL DEF EvalSpec
=============================================================================
