--------------------------- MODULE BsExpandProofs ---------------------------
(***************************************************************************)
(* Nested values and closures, proved for every block, every room and      *)
(* every depth: a scan leaves nothing pending behind it, and the runs it   *)
(* places are in the order of what holds them.                             *)
(*                                                                         *)
(* The argument: whatever has a run lies behind its scan, and a new run    *)
(* begins where the pool ends, past all those before.  The operations need *)
(* more, for a run of them is placed over several turns, with scans of the *)
(* terms in between: while it is, the scan over the operations waits       *)
(* before it, and every place of it that is still empty has its operation  *)
(* in what is left of the source.                                          *)
(*                                                                         *)
(* And the comparison of two values, proved of every pool that can be      *)
(* loaded: the values are on levels, MaxDepth of them at most, and each    *)
(* frame is for a pair on a level below that of the frame before it.  What *)
(* is the same is settled level by level, from the innermost on.           *)
(*                                                                         *)
(* And that what is loaded is what was stated, proved of every block: each *)
(* place of a pool stands for one node of what is stated, by the way to    *)
(* it, and no two for the same; what is placed holds what its node holds,  *)
(* or waits for the scan, which is on the level the node is on.            *)
(***************************************************************************)
EXTENDS BsTermEq, SequenceTheorems, FiniteSetTheorems, WellFoundedInduction, TLAPS

-----------------------------------------------------------------------------
(* The invariant.                                                          *)

AnySeq(s) == s \in Seq(Range(s))

Shapes ==
  /\ AnySeq(terms) /\ AnySeq(ops) /\ AnySeq(loaded)
  /\ parsed \in Nat /\ parsed <= Len(terms)
  /\ i \in Nat /\ oi \in Nat /\ odepth \in Nat /\ slot \in Nat
  /\ source \in Seq(WireOps)
  /\ run \in [at : Nat, count : Nat]
  /\ stated \in Seq(Stated(WireValues, WireOps))
  /\ pc \in {"next", "terms", "run", "ops", "stopped"}
  /\ status = "none" <=> pc # "stopped"

Sound == status \in {"none", "OK"}

\* What has a run has it in the pool.
HasRun(x) == "at" \in DOMAIN x
Runs(pool, first) ==
  \A k \in first .. Len(pool) : HasRun(pool[k]) => pool[k].at \in Nat /\ pool[k].count \in Nat

TermsInv ==
  /\ InOrder(terms, parsed + 1) /\ Runs(terms, parsed + 1)
  /\ pc = "terms" => \A k \in parsed + 1 .. Len(terms) : HasRun(terms[k]) => k <= i
  /\ \A k \in DOMAIN terms : terms[k].kind = "pending" =>
       k > parsed /\ terms[k].source \in WireValues /\ IsContainer(terms[k].source)
  /\ Sound => \A k \in DOMAIN terms : terms[k].kind = "pending" => pc = "terms" /\ k > i

\* A run of operations is being placed; an expression is being loaded.
Placing == pc = "run" \/ (pc = "terms" /\ Current.kind = "expression")
Expanding == Placing \/ pc = "ops"

Place ==
  /\ run.at + run.count = Len(ops)
  /\ slot > run.at /\ slot + Len(source) = Len(ops) + 1
  /\ odepth = 0 => oi = run.at
  /\ odepth # 0 => /\ oi < run.at
                   /\ \A k \in DOMAIN ops : HasRun(ops[k]) => ops[k].at + ops[k].count <= run.at

OpsInv ==
  /\ InOrder(ops, 1) /\ Runs(ops, 1)
  /\ \A k \in DOMAIN ops : HasRun(ops[k]) => k <= oi
  /\ \A k \in DOMAIN ops : ops[k].op = "pending" =>
       ops[k].source \in WireOps /\ ops[k].source.op = "closure"
  /\ pc \in {"run", "ops"} => Current.kind = "expression"
  /\ pc = "ops" => odepth # 0
  /\ pc \in {"next", "terms"} /\ ~Placing => odepth = 0
  /\ Placing => Place
  /\ Sound => \A k \in DOMAIN ops : /\ ops[k].op = "unplaced" => Placing /\ k >= slot
                                    /\ ops[k].op = "pending" => Expanding /\ k > oi

ExpandInv == Shapes /\ TermsInv /\ OpsInv

-----------------------------------------------------------------------------
(* Sequences of anything.                                                  *)

LEMMA SeqShape ==
  ASSUME NEW s, AnySeq(s)
  PROVE  Len(s) \in Nat /\ DOMAIN s = 1 .. Len(s)
BY LenProperties DEF AnySeq

LEMMA MadeSeq ==
  ASSUME NEW n \in Nat, NEW f, f = [k \in 1 .. n |-> f[k]]
  PROVE  AnySeq(f) /\ Len(f) = n
<1>1. DOMAIN f = 1 .. n
  OBVIOUS
<1>2. \A k \in 1 .. n : f[k] \in Range(f)
  BY <1>1 DEF Range
<1>3. f \in [1 .. n -> Range(f)]
  BY <1>2
<1>4. f \in Seq(Range(f))
  BY <1>3, SeqDef
<1>5. Len(f) \in Nat /\ DOMAIN f = 1 .. Len(f)
  BY <1>4, LenProperties
<1>6. QED
  BY <1>1, <1>4, <1>5 DEF AnySeq

LEMMA SomeSeq ==
  ASSUME NEW S, NEW s \in Seq(S)
  PROVE  AnySeq(s)
<1>1. Len(s) \in Nat /\ s = [k \in 1 .. Len(s) |-> s[k]]
  BY LenProperties
<1>2. QED
  BY <1>1, MadeSeq

LEMMA JoinedSeq ==
  ASSUME NEW s, NEW t, AnySeq(s), AnySeq(t)
  PROVE  /\ AnySeq(s \o t) /\ Len(s \o t) = Len(s) + Len(t)
         /\ \A k \in 1 .. Len(s) + Len(t) : (s \o t)[k] = IF k <= Len(s) THEN s[k] ELSE t[k - Len(s)]
<1> DEFINE S == Range(s) \cup Range(t)
<1>1. s \in Seq(S) /\ t \in Seq(S)
  BY SeqMonotonic DEF AnySeq
<1> HIDE DEF S
<1>2. QED
  BY <1>1, ConcatProperties, SomeSeq

Changed(s, k, v) == [s EXCEPT ![k] = v]

LEMMA ChangedSeq ==
  ASSUME NEW s, AnySeq(s), NEW k \in DOMAIN s, NEW v
  PROVE  /\ AnySeq(Changed(s, k, v)) /\ Len(Changed(s, k, v)) = Len(s)
         /\ \A j \in 1 .. Len(s) : Changed(s, k, v)[j] = IF j = k THEN v ELSE s[j]
<1> DEFINE f == Changed(s, k, v)
<1>1. Len(s) \in Nat /\ DOMAIN s = 1 .. Len(s)
  BY SeqShape
<1>2. f = [j \in 1 .. Len(s) |-> f[j]]
  BY <1>1 DEF Changed
<1>3. \A j \in 1 .. Len(s) : f[j] = IF j = k THEN v ELSE s[j]
  BY <1>1 DEF Changed
<1> HIDE DEF f
<1>4. AnySeq(f) /\ Len(f) = Len(s)
  BY <1>1, <1>2, MadeSeq
<1>5. QED
  BY <1>3, <1>4 DEF f

-----------------------------------------------------------------------------
(* Runs in order.                                                          *)

\* A pool stays in order while it grows, and gets no new run.
LEMMA StaysInOrder ==
  ASSUME NEW s, NEW p, NEW first \in Nat, Len(s) \in Nat, Len(p) \in Nat, Len(s) <= Len(p),
         InOrder(s, first), Runs(s, first),
         \A j \in first .. Len(p) : HasRun(p[j]) => j <= Len(s) /\ p[j] = s[j]
  PROVE  InOrder(p, first) /\ Runs(p, first)
<1>1. \A j \in first .. Len(p) : HasRun(p[j]) => /\ j \in first .. Len(s) /\ p[j] = s[j] /\ HasRun(s[j])
                                                 /\ s[j].at \in Nat /\ s[j].count \in Nat
  BY DEF Runs
<1>2. Runs(p, first)
  BY <1>1 DEF Runs
<1>3. \A k \in first .. Len(p) : HasRun(p[k]) => p[k].at >= k /\ p[k].at + p[k].count <= Len(p)
  BY <1>1 DEF InOrder, HasRun
<1>4. \A k, l \in first .. Len(p) : k < l /\ HasRun(p[k]) /\ HasRun(p[l]) => p[k].at + p[k].count <= p[l].at
  BY <1>1 DEF InOrder, HasRun
<1>5. QED
  BY <1>2, <1>3, <1>4 DEF InOrder, HasRun

\* And when what comes behind all that have one gets a run, behind all runs.
LEMMA OneMoreInOrder ==
  ASSUME NEW s, NEW p, NEW first \in Nat, Len(s) \in Nat, Len(p) \in Nat, Len(s) <= Len(p),
         InOrder(s, first), Runs(s, first), NEW n \in first .. Len(p),
         p[n].at \in Nat, p[n].count \in Nat, p[n].at >= n, p[n].at + p[n].count <= Len(p),
         \A j \in first .. Len(p) : HasRun(p[j]) /\ j # n => j < n /\ j <= Len(s) /\ p[j] = s[j],
         \A j \in first .. Len(s) : HasRun(s[j]) => s[j].at + s[j].count <= p[n].at
  PROVE  InOrder(p, first) /\ Runs(p, first)
<1>1. \A j \in first .. Len(p) : HasRun(p[j]) /\ j # n =>
        /\ j < n /\ j \in first .. Len(s) /\ p[j] = s[j] /\ HasRun(s[j])
        /\ s[j].at \in Nat /\ s[j].count \in Nat /\ s[j].at + s[j].count <= p[n].at
  BY DEF Runs
<1>2. Runs(p, first)
  BY <1>1 DEF Runs
<1>3. \A k \in first .. Len(p) : HasRun(p[k]) => p[k].at >= k /\ p[k].at + p[k].count <= Len(p)
  BY <1>1 DEF InOrder, HasRun
<1>4. \A k, l \in first .. Len(p) : k < l /\ HasRun(p[k]) /\ HasRun(p[l]) => p[k].at + p[k].count <= p[l].at
  BY <1>1 DEF InOrder, HasRun
<1>5. QED
  BY <1>2, <1>3, <1>4 DEF InOrder, HasRun

-----------------------------------------------------------------------------
(* The scan over the terms.                                                *)

LEMMA Pools ==
  ASSUME Shapes
  PROVE  /\ Len(terms) \in Nat /\ DOMAIN terms = 1 .. Len(terms)
         /\ Len(ops) \in Nat /\ DOMAIN ops = 1 .. Len(ops)
         /\ Len(loaded) \in Nat
BY SeqShape DEF Shapes

\* A value as it is placed.
LEMMA ShallowValue ==
  ASSUME NEW v \in WireValues
  PROVE  /\ ~HasRun(Shallow(v))
         /\ Shallow(v).kind = "pending" => Shallow(v).source = v /\ IsContainer(v)
<1>1. CASE IsContainer(v)
  <2>1. Shallow(v) = [kind |-> "pending", source |-> v]
    BY <1>1 DEF Shallow
  <2>2. QED
    BY <1>1, <2>1 DEF HasRun
<1>2. CASE ~IsContainer(v)
  BY <1>2, WireAssumption DEF HoldAll, Shallow, HasRun
<1>3. QED
  BY <1>1, <1>2

\* Values as they are placed, at the end of the pool.
ShallowAll(values) == [k \in DOMAIN values |-> Shallow(values[k])]

LEMMA ShallowValues ==
  ASSUME NEW values \in Seq(WireValues), NEW pool, AnySeq(pool),
         NEW p, p = pool \o ShallowAll(values)
  PROVE  /\ AnySeq(p) /\ Len(p) = Len(pool) + Len(values) /\ Len(values) \in Nat
         /\ Len(pool) \in Nat /\ DOMAIN p = 1 .. Len(p)
         /\ \A k \in 1 .. Len(pool) : p[k] = pool[k]
         /\ \A k \in Len(pool) + 1 .. Len(p) :
              /\ ~HasRun(p[k])
              /\ p[k].kind = "pending" => p[k].source \in WireValues /\ IsContainer(p[k].source)
<1> DEFINE new == ShallowAll(values)
<1>1. Len(values) \in Nat /\ DOMAIN values = 1 .. Len(values)
  BY LenProperties
<1>2. \A k \in 1 .. Len(values) : values[k] \in WireValues
  BY ElementOfSeq
<1>3. \A k \in 1 .. Len(values) : new[k] = Shallow(values[k])
  BY <1>1 DEF ShallowAll
<1>4. new = [k \in 1 .. Len(values) |-> new[k]]
  BY <1>1 DEF ShallowAll
<1> HIDE DEF new
<1>5. AnySeq(new) /\ Len(new) = Len(values)
  BY <1>1, <1>4, MadeSeq
<1>6. Len(pool) \in Nat
  BY SeqShape
<1>7. p = pool \o new
  BY DEF new
<1>8. /\ AnySeq(p) /\ Len(p) = Len(pool) + Len(values)
      /\ \A k \in 1 .. Len(pool) + Len(values) : p[k] = IF k <= Len(pool) THEN pool[k] ELSE new[k - Len(pool)]
  <2>1. /\ AnySeq(pool \o new) /\ Len(pool \o new) = Len(pool) + Len(new)
        /\ \A k \in 1 .. Len(pool) + Len(new) :
             (pool \o new)[k] = IF k <= Len(pool) THEN pool[k] ELSE new[k - Len(pool)]
    BY <1>5, JoinedSeq
  <2>2. QED
    BY <1>5, <1>7, <2>1
<1>9. ASSUME NEW k \in Len(pool) + 1 .. Len(p)
      PROVE  /\ ~HasRun(p[k])
             /\ p[k].kind = "pending" => p[k].source \in WireValues /\ IsContainer(p[k].source)
  <2>1. k - Len(pool) \in 1 .. Len(values) /\ p[k] = new[k - Len(pool)]
    BY <1>1, <1>6, <1>8
  <2>2. p[k] = Shallow(values[k - Len(pool)]) /\ values[k - Len(pool)] \in WireValues
    BY <1>2, <1>3, <2>1
  <2>3. QED
    BY <2>2, ShallowValue
<1>10. DOMAIN p = 1 .. Len(p)
  BY <1>8, SeqShape
<1>11. QED
  BY <1>1, <1>6, <1>8, <1>9, <1>10

\* What is done elsewhere, and what stops it.
LEMMA TermsElsewhere ==
  ASSUME Shapes, TermsInv, UNCHANGED <<terms, parsed>>, pc' # "terms",
         Sound' => pc # "terms" /\ Sound
  PROVE  TermsInv'
BY DEF TermsInv, InOrder, Runs, HasRun

\* Values are placed, and the scan over them begins.
LEMMA ScanBegins ==
  ASSUME Shapes, TermsInv, pc # "terms", Sound, pc' = "terms", UNCHANGED parsed,
         NEW values \in Seq(WireValues), PlaceValues(values), i' = Len(terms)
  PROVE  TermsInv' /\ AnySeq(terms') /\ Len(terms) <= Len(terms')
<1>1. /\ AnySeq(terms') /\ Len(terms') = Len(terms) + Len(values) /\ Len(values) \in Nat
      /\ Len(terms) \in Nat /\ DOMAIN terms' = 1 .. Len(terms')
      /\ \A k \in 1 .. Len(terms) : terms'[k] = terms[k]
      /\ \A k \in Len(terms) + 1 .. Len(terms') :
              /\ ~HasRun(terms'[k])
              /\ terms'[k].kind = "pending" => terms'[k].source \in WireValues /\ IsContainer(terms'[k].source)
  <2>1. terms' = terms \o ShallowAll(values) /\ AnySeq(terms)
    BY DEF PlaceValues, ShallowAll, Shapes
  <2>2. QED
    BY <2>1, ShallowValues
<1>2. parsed \in Nat /\ parsed <= Len(terms) /\ DOMAIN terms = 1 .. Len(terms)
  BY Pools DEF Shapes
<1>3. \A k \in parsed + 1 .. Len(terms') : HasRun(terms'[k]) => k <= Len(terms) /\ terms'[k] = terms[k]
  BY <1>1, <1>2
<1>4. InOrder(terms', parsed + 1) /\ Runs(terms', parsed + 1)
  BY <1>1, <1>2, <1>3, StaysInOrder DEF TermsInv
<1>5. \A k \in DOMAIN terms : terms[k].kind # "pending"
  BY DEF TermsInv
<1>6. \A k \in DOMAIN terms' : terms'[k].kind = "pending" => k > Len(terms)
  BY <1>1, <1>2, <1>5
<1>7. QED
  BY <1>1, <1>2, <1>3, <1>4, <1>6 DEF TermsInv

LEMMA TermsPassed ==
  ASSUME Shapes, TermsInv, PassTerm
  PROVE  TermsInv'
BY Pools DEF PassTerm, Turning, Scanned, TermsInv, InOrder, Runs, HasRun, Shapes, Sound,
             hostVars, poolVars, runVars, opScan, controlVars

\* A container gets its run, at the end of the pool.
LEMMA TermsExpanded ==
  ASSUME Shapes, TermsInv, ExpandTerm
  PROVE  TermsInv' /\ AnySeq(terms') /\ Len(terms) <= Len(terms')
<1>1. PICK v, n, first : v = terms[i + 1].source /\ n = i + 1 /\ first = parsed + 1
  OBVIOUS
<1>2. PICK list : list = [kind |-> v.kind, at |-> Len(terms), count |-> Len(v.items)]
  OBVIOUS
<1>3. PICK pool : pool = Changed(terms, n, list)
  OBVIOUS
<1>4. /\ Len(terms) \in Nat /\ DOMAIN terms = 1 .. Len(terms) /\ AnySeq(terms)
      /\ i \in Nat /\ parsed \in Nat /\ parsed <= Len(terms)
  BY Pools DEF Shapes
<1>5. /\ pc = "terms" /\ n \in DOMAIN terms /\ terms[n].kind = "pending" /\ Sound
      /\ n >= first /\ n \in Nat /\ first \in Nat \ {0} /\ v \in WireValues /\ IsContainer(v)
      /\ UNCHANGED parsed
  <2>1. pc = "terms" /\ n \in DOMAIN terms /\ terms[n].kind = "pending" /\ UNCHANGED parsed
    BY <1>1, <1>4 DEF ExpandTerm, Turning, hostVars
  <2>2. n > parsed /\ terms[n].source \in WireValues /\ IsContainer(terms[n].source)
    BY <2>1 DEF TermsInv
  <2>3. QED
    BY <1>1, <1>4, <2>1, <2>2 DEF Sound, Shapes
<1>6. v.items \in Seq(WireValues)
  BY <1>5, WireAssumption DEF HoldAll
<1>7. CASE UNCHANGED terms /\ (Refuse("NOMEM") \/ Refuse("MALFORMED"))
  BY <1>4, <1>5, <1>7, TermsElsewhere DEF Refuse, Sound
<1>8. CASE /\ terms' = pool \o ShallowAll(v.items)
           /\ i' = n /\ UNCHANGED controlVars
  <2>1. /\ AnySeq(pool) /\ Len(pool) = Len(terms)
        /\ \A k \in 1 .. Len(terms) : pool[k] = IF k = n THEN list ELSE terms[k]
    <3>1. /\ AnySeq(Changed(terms, n, list)) /\ Len(Changed(terms, n, list)) = Len(terms)
          /\ \A k \in 1 .. Len(terms) : Changed(terms, n, list)[k] = IF k = n THEN list ELSE terms[k]
      <4>1. AnySeq(terms) /\ n \in DOMAIN terms
        BY <1>4, <1>5
      <4>2. QED
        BY ONLY <4>1, ChangedSeq
    <3>2. QED
      BY <1>3, <3>1
  <2>2. /\ AnySeq(terms') /\ Len(terms') = Len(pool) + Len(v.items) /\ Len(v.items) \in Nat
        /\ DOMAIN terms' = 1 .. Len(terms')
        /\ \A k \in 1 .. Len(pool) : terms'[k] = pool[k]
        /\ \A k \in Len(pool) + 1 .. Len(terms') :
             /\ ~HasRun(terms'[k])
             /\ terms'[k].kind = "pending" => terms'[k].source \in WireValues /\ IsContainer(terms'[k].source)
    <3>1. AnySeq(pool) /\ terms' = pool \o ShallowAll(v.items)
      BY <1>8, <2>1
    <3>2. QED
      BY <1>6, <3>1, ShallowValues
  <2>3. /\ terms'[n] = list
        /\ \A k \in 1 .. Len(terms) : k # n => terms'[k] = terms[k]
    BY <1>4, <1>5, <2>1, <2>2
  <2>4. /\ terms'[n].at = Len(terms) /\ terms'[n].count = Len(v.items)
        /\ terms'[n].kind # "pending"
    BY <1>2, <1>5, <2>3 DEF IsContainer, ContainerKinds
  <2>5. \A k \in first .. Len(terms) : HasRun(terms[k]) =>
          k < n /\ terms[k].at + terms[k].count <= Len(terms)
    BY <1>1, <1>4, <1>5 DEF TermsInv, InOrder, HasRun
  <2>6. \A k \in first .. Len(terms') : HasRun(terms'[k]) /\ k # n =>
          k < n /\ k <= Len(terms) /\ terms'[k] = terms[k]
    <3>1. SUFFICES ASSUME NEW k \in first .. Len(terms'), HasRun(terms'[k]), k # n
                   PROVE  k < n /\ k <= Len(terms) /\ terms'[k] = terms[k]
      OBVIOUS
    <3>2. k \notin Len(pool) + 1 .. Len(terms')
      BY <2>2, <3>1
    <3>3. k \in 1 .. Len(terms)
      BY <1>4, <1>5, <2>1, <2>2, <3>1, <3>2
    <3>4. terms'[k] = terms[k] /\ HasRun(terms[k])
      BY <2>3, <3>1, <3>3
    <3>5. QED
      BY <1>4, <1>5, <2>5, <3>1, <3>3, <3>4
  <2>7. InOrder(terms', first) /\ Runs(terms', first)
    <3>1. InOrder(terms, first) /\ Runs(terms, first)
      BY <1>1 DEF TermsInv
    <3>2. n \in first .. Len(terms') /\ Len(terms') \in Nat /\ Len(terms) <= Len(terms')
      BY <1>4, <1>5, <2>1, <2>2
    <3>3. /\ terms'[n].at \in Nat /\ terms'[n].count \in Nat /\ terms'[n].at >= n
          /\ terms'[n].at + terms'[n].count <= Len(terms')
      BY <1>4, <1>5, <2>1, <2>2, <2>4
    <3>4. \A j \in first .. Len(terms) : HasRun(terms[j]) =>
            terms[j].at + terms[j].count <= terms'[n].at
      BY <2>4, <2>5
    <3>5. QED
      BY <1>4, <1>5, <2>6, <3>1, <3>2, <3>3, <3>4, OneMoreInOrder
  <2>8. \A k \in DOMAIN terms' : terms'[k].kind = "pending" =>
          /\ k > n /\ k > parsed /\ terms'[k].source \in WireValues /\ IsContainer(terms'[k].source)
    <3>1. TAKE k \in DOMAIN terms'
    <3>2. HAVE terms'[k].kind = "pending"
    <3>3. CASE k \in 1 .. Len(terms)
      BY <1>1, <1>4, <1>5, <2>3, <2>4, <3>2, <3>3 DEF TermsInv
    <3>4. CASE k \in Len(pool) + 1 .. Len(terms')
      BY <1>1, <1>4, <1>5, <2>1, <2>2, <3>2, <3>4
    <3>5. QED
      BY <1>4, <2>1, <2>2, <3>3, <3>4
  <2>9. \A k \in first .. Len(terms') : HasRun(terms'[k]) => k <= n
    BY <1>4, <1>5, <2>2, <2>6
  <2>10. pc' = "terms" /\ i' = n /\ parsed' = parsed
    BY <1>5, <1>8 DEF controlVars
  <2>11. QED
    BY <1>1, <1>4, <2>1, <2>2, <2>7, <2>8, <2>9, <2>10 DEF TermsInv
<1>9. QED
  BY <1>1, <1>2, <1>3, <1>7, <1>8 DEF ExpandTerm, Scanned, ShallowAll, Changed

LEMMA TermsScanned ==
  ASSUME Shapes, TermsInv, EndTerms
  PROVE  TermsInv'
<1>1. /\ Len(terms) \in Nat /\ DOMAIN terms = 1 .. Len(terms) /\ i \in Nat
  BY Pools DEF Shapes
<1>2. /\ pc = "terms" /\ i >= Len(terms) /\ UNCHANGED <<terms, parsed>> /\ pc' # "terms"
  BY DEF EndTerms, Goto, hostVars, poolVars
<1>3. Sound
  BY <1>2 DEF Sound, Shapes
<1>4. \A k \in DOMAIN terms : terms[k].kind # "pending"
  BY <1>1, <1>2, <1>3 DEF TermsInv
<1>5. QED
  BY <1>2, <1>4 DEF TermsInv, InOrder, Runs, HasRun

\* A part of what is stated.
LEMMA CurrentPart ==
  ASSUME Shapes, Left
  PROVE  /\ Current.kind = "predicate" => Current.terms \in Seq(WireValues)
         /\ Current.kind = "expression" => Current.ops \in Seq(WireOps)
<1>1. Len(loaded) + 1 \in 1 .. Len(stated)
  BY Pools, LenProperties DEF Shapes, Left
<1>2. Current \in Stated(WireValues, WireOps)
  BY <1>1, ElementOfSeq DEF Shapes, Current
<1>3. QED
  BY <1>2 DEF Stated

-----------------------------------------------------------------------------
(* The scan over the operations.                                           *)

LEMMA WireOp ==
  ASSUME NEW o \in WireOps
  PROVE  /\ o.op \in {"value", "unary", "binary", "closure"}
         /\ o.op = "value" => o.term \in WireValues
         /\ o.op \in {"unary", "binary"} => ~HasRun(o)
         /\ o.op = "closure" => o.body \in Seq(WireOps) /\ o.params \in Seq(STRING)
BY WireAssumption DEF HoldAll, HasRun

\* Places for a run, at the end of the pool.
LEMMA UnplacedRun ==
  ASSUME NEW n \in Nat, NEW pool, AnySeq(pool)
  PROVE  /\ AnySeq(pool \o Unplaced(n)) /\ Len(pool \o Unplaced(n)) = Len(pool) + n
         /\ \A k \in 1 .. Len(pool) : (pool \o Unplaced(n))[k] = pool[k]
         /\ \A k \in Len(pool) + 1 .. Len(pool) + n :
              /\ (pool \o Unplaced(n))[k].op = "unplaced"
              /\ ~HasRun((pool \o Unplaced(n))[k])
<1> DEFINE p == pool \o Unplaced(n)
<1>1. Unplaced(n) = [k \in 1 .. n |-> Unplaced(n)[k]]
  BY DEF Unplaced
<1>2. \A k \in 1 .. n : Unplaced(n)[k] = [op |-> "unplaced"]
  BY DEF Unplaced
<1>3. AnySeq(Unplaced(n)) /\ Len(Unplaced(n)) = n
  BY ONLY <1>1, n \in Nat, MadeSeq
<1>4. Len(pool) \in Nat
  BY SeqShape
<1>5. /\ AnySeq(p) /\ Len(p) = Len(pool) + n
      /\ \A k \in 1 .. Len(pool) + n : p[k] = IF k <= Len(pool) THEN pool[k] ELSE Unplaced(n)[k - Len(pool)]
  BY <1>3, JoinedSeq
<1> HIDE DEF p
<1>6. \A k \in 1 .. Len(pool) : p[k] = pool[k]
  BY <1>4, <1>5
<1>7. ASSUME NEW k \in Len(pool) + 1 .. Len(pool) + n
      PROVE  p[k].op = "unplaced" /\ ~HasRun(p[k])
  <2>1. k - Len(pool) \in 1 .. n /\ p[k] = Unplaced(n)[k - Len(pool)]
    BY <1>4, <1>5
  <2>2. p[k] = [op |-> "unplaced"]
    BY <1>2, <2>1
  <2>3. QED
    BY <2>2 DEF HasRun
<1>8. QED
  BY <1>5, <1>6, <1>7 DEF p

\* A refusal: nothing is asked of what is left pending.
LEMMA OpsStopped ==
  ASSUME Shapes, OpsInv, UNCHANGED ops, pc' = "stopped", ~Sound',
         oi' = oi \/ oi' = Len(ops)
  PROVE  OpsInv'
<1>1. DOMAIN ops = 1 .. Len(ops) /\ Len(ops) \in Nat /\ oi \in Nat
  BY Pools DEF Shapes
<1>2. \A k \in DOMAIN ops : HasRun(ops[k]) => k <= oi'
  BY <1>1 DEF OpsInv
<1>3. QED
  BY <1>2 DEF OpsInv, InOrder, Runs, HasRun, Placing

\* Nothing of the operations changes, and whether they are being placed.
LEMMA OpsElsewhere ==
  ASSUME Shapes, OpsInv, UNCHANGED <<ops, opScan, stated, loaded, status>>,
         pc' = pc
  PROVE  OpsInv'
BY DEF OpsInv, InOrder, Runs, HasRun, Placing, Expanding, Place, Sound, Current, opScan

\* An operation is placed, in the next place of the run.
LEMMA OpPlaced ==
  ASSUME Shapes, OpsInv, pc = "run", source # <<>>, NEW o, PutOp(o),
         ~HasRun(o), o.op # "unplaced",
         o.op = "pending" => o.source \in WireOps /\ o.source.op = "closure",
         UNCHANGED <<oi, odepth, run, stated, loaded>>, pc' \in {"run", "terms"}
  PROVE  OpsInv' /\ AnySeq(ops') /\ slot' \in Nat /\ source' \in Seq(WireOps)
<1>1. /\ Len(ops) \in Nat /\ DOMAIN ops = 1 .. Len(ops) /\ AnySeq(ops)
      /\ oi \in Nat /\ odepth \in Nat /\ slot \in Nat
      /\ run.at \in Nat /\ run.count \in Nat /\ source \in Seq(WireOps) /\ Sound
  BY Pools DEF Shapes, Sound
<1>2. Place /\ Current.kind = "expression"
  BY DEF OpsInv, Placing
<1>3. Len(source) \in Nat \ {0}
  BY <1>1, EmptySeq, LenProperties
<1>4. /\ source' \in Seq(WireOps) /\ Len(source') = Len(source) - 1 /\ slot' = slot + 1
      /\ ops' = Changed(ops, slot, o)
  BY <1>1, HeadTailProperties DEF PutOp, Changed
<1>5. slot \in DOMAIN ops
  BY <1>1, <1>2, <1>3 DEF Place
<1>6. /\ AnySeq(ops') /\ Len(ops') = Len(ops)
      /\ \A k \in 1 .. Len(ops) : ops'[k] = IF k = slot THEN o ELSE ops[k]
  <2>1. /\ AnySeq(Changed(ops, slot, o)) /\ Len(Changed(ops, slot, o)) = Len(ops)
        /\ \A k \in 1 .. Len(ops) : Changed(ops, slot, o)[k] = IF k = slot THEN o ELSE ops[k]
    <3>1. AnySeq(ops) /\ slot \in DOMAIN ops
      BY <1>1, <1>5
    <3>2. QED
      BY ONLY <3>1, ChangedSeq
  <2>2. QED
    BY <1>4, <2>1
<1>7. DOMAIN ops' = DOMAIN ops /\ DOMAIN ops = 1 .. Len(ops)
  BY <1>1, <1>6, SeqShape
<1>8. \A k \in DOMAIN ops : HasRun(ops'[k]) => k # slot /\ ops'[k] = ops[k] /\ HasRun(ops[k])
  BY <1>1, <1>6
<1>9. InOrder(ops', 1) /\ Runs(ops', 1)
  <2>1. InOrder(ops, 1) /\ Runs(ops, 1)
    BY DEF OpsInv
  <2>2. \A k \in 1 .. Len(ops') : HasRun(ops'[k]) => k <= Len(ops) /\ ops'[k] = ops[k]
    BY <1>1, <1>6, <1>8
  <2>3. QED
    BY <1>1, <1>6, <2>1, <2>2, StaysInOrder
<1>10. \A k \in DOMAIN ops' : HasRun(ops'[k]) => k <= oi'
  BY <1>7, <1>8 DEF OpsInv
<1>11. \A k \in DOMAIN ops' : ops'[k].op = "pending" =>
         /\ ops'[k].source \in WireOps /\ ops'[k].source.op = "closure" /\ k > oi'
  <2>1. slot > oi
    BY <1>1, <1>2 DEF Place
  <2>2. QED
    BY <1>1, <1>6, <1>7, <2>1 DEF OpsInv
<1>12. \A k \in DOMAIN ops' : ops'[k].op = "unplaced" => k >= slot'
  <2>1. \A k \in DOMAIN ops : ops[k].op = "unplaced" => k >= slot
    BY <1>1 DEF OpsInv
  <2>2. \A k \in DOMAIN ops' : ops'[k].op = "unplaced" => k # slot /\ ops'[k] = ops[k]
    BY <1>1, <1>6, <1>7
  <2>3. QED
    BY <1>1, <1>4, <1>7, <2>1, <2>2
<1>13. Place'
  <2>1. /\ run'.at + run'.count = Len(ops')
        /\ slot' > run'.at /\ slot' + Len(source') = Len(ops') + 1
        /\ odepth' = 0 => oi' = run'.at
        /\ odepth' # 0 => oi' < run'.at
    BY <1>1, <1>2, <1>3, <1>4, <1>6 DEF Place
  <2>2. odepth' # 0 => \A k \in DOMAIN ops' : HasRun(ops'[k]) => ops'[k].at + ops'[k].count <= run'.at
    BY <1>2, <1>7, <1>8 DEF Place
  <2>3. QED
    BY <2>1, <2>2 DEF Place
<1>14. Placing' /\ Current'.kind = "expression"
  BY <1>2 DEF Placing, Current
<1>15. QED
  BY <1>1, <1>4, <1>6, <1>9, <1>10, <1>11, <1>12, <1>13, <1>14 DEF OpsInv, Expanding

\* The run of an expression begins, where the pool ends.
LEMMA OpsBegun ==
  ASSUME Shapes, OpsInv, LoadExpression
  PROVE  OpsInv' /\ AnySeq(ops') /\ run' \in [at : Nat, count : Nat]
         /\ slot' \in Nat /\ source' \in Seq(WireOps)
<1>1. /\ Len(ops) \in Nat /\ DOMAIN ops = 1 .. Len(ops) /\ AnySeq(ops) /\ oi \in Nat
      /\ Sound /\ pc = "next" /\ ~Placing /\ ~Expanding
  BY Pools DEF LoadExpression, Shapes, Sound, Placing, Expanding
<1>2. CASE Refuse("NOMEM") /\ UNCHANGED <<ops, source, run, slot>>
  BY <1>1, <1>2, OpsStopped DEF LoadExpression, Refuse, Sound, Shapes
<1>3. CASE BeginRun(Current.ops)
  <2>1. PICK n : n = Len(Current.ops)
    OBVIOUS
  <2>2. /\ Current.ops \in Seq(WireOps) /\ n \in Nat
        /\ Current.kind = "expression"
    BY <2>1, CurrentPart, LenProperties DEF LoadExpression
  <2>3. /\ ops' = ops \o Unplaced(n) /\ source' = Current.ops /\ slot' = Len(ops) + 1
        /\ run' = [at |-> Len(ops), count |-> n] /\ pc' = "run" /\ UNCHANGED status
        /\ oi' = Len(ops) /\ odepth' = 0 /\ UNCHANGED <<stated, loaded>>
    BY <1>3, <2>1 DEF BeginRun, Goto, LoadExpression, hostVars
  <2>4. /\ AnySeq(ops') /\ Len(ops') = Len(ops) + n
        /\ \A k \in 1 .. Len(ops) : ops'[k] = ops[k]
        /\ \A k \in Len(ops) + 1 .. Len(ops) + n : ops'[k].op = "unplaced" /\ ~HasRun(ops'[k])
    <3>1. AnySeq(ops) /\ n \in Nat /\ ops' = ops \o Unplaced(n)
      BY <1>1, <2>2, <2>3
    <3>2. QED
      BY ONLY <3>1, UnplacedRun
  <2>5. DOMAIN ops' = 1 .. Len(ops')
    BY <2>4, SeqShape
  <2>6. \A k \in 1 .. Len(ops') : HasRun(ops'[k]) => k <= Len(ops) /\ ops'[k] = ops[k]
    BY <1>1, <2>2, <2>4, <2>5
  <2>7. InOrder(ops', 1) /\ Runs(ops', 1)
    <3>1. InOrder(ops, 1) /\ Runs(ops, 1)
      BY DEF OpsInv
    <3>2. QED
      BY <1>1, <2>2, <2>4, <2>6, <3>1, StaysInOrder
  <2>8. \A k \in DOMAIN ops : ops[k].op # "unplaced" /\ ops[k].op # "pending"
    BY <1>1 DEF OpsInv
  <2>9. \A k \in DOMAIN ops' : ops'[k].op # "pending" /\ (ops'[k].op = "unplaced" => k >= slot')
    <3>1. TAKE k \in DOMAIN ops'
    <3>2. k \in 1 .. Len(ops) \/ k \in Len(ops) + 1 .. Len(ops) + n
      BY <1>1, <2>2, <2>4, <2>5
    <3>3. QED
      BY <1>1, <2>2, <2>3, <2>4, <2>8, <3>2
  <2>10. Place'
    <3>1. /\ run'.at = Len(ops) /\ run'.count = n /\ Len(source') = n /\ odepth' = 0
          /\ oi' = Len(ops) /\ slot' = Len(ops) + 1 /\ Len(ops') = Len(ops) + n
      BY <2>1, <2>3, <2>4
    <3>2. /\ run'.at + run'.count = Len(ops')
          /\ slot' > run'.at /\ slot' + Len(source') = Len(ops') + 1
          /\ oi' = run'.at /\ odepth' = 0
      BY <1>1, <2>2, <3>1
    <3>3. QED
      BY <3>2 DEF Place
  <2>11. Placing' /\ Current'.kind = "expression"
    BY <2>2, <2>3 DEF Placing, Current
  <2>12. OpsInv'
    BY <1>1, <2>3, <2>4, <2>5, <2>6, <2>7, <2>9, <2>10, <2>11 DEF OpsInv, Expanding
  <2>13. QED
    BY <1>1, <2>2, <2>3, <2>4, <2>12
<1>4. QED
  BY <1>1, <1>2, <1>3 DEF LoadExpression, Shapes

\* A run is placed: of the expression, or of the closure the scan waits at.
LEMMA OpsRunEnds ==
  ASSUME Shapes, OpsInv, EndRun
  PROVE  OpsInv' /\ AnySeq(ops') /\ oi' \in Nat /\ odepth' \in Nat
<1>1. /\ Len(ops) \in Nat /\ DOMAIN ops = 1 .. Len(ops) /\ AnySeq(ops)
      /\ oi \in Nat /\ odepth \in Nat /\ slot \in Nat /\ run.at \in Nat /\ run.count \in Nat
      /\ Sound /\ pc = "run"
  BY Pools DEF EndRun, Shapes, Sound
<1>2. Place /\ Placing /\ Current.kind = "expression"
  BY <1>1 DEF OpsInv, Placing
<1>3. /\ pc' = "ops" /\ status' = status /\ Current' = Current /\ ~Placing' /\ Expanding'
      /\ UNCHANGED run
  BY DEF EndRun, Goto, Placing, Expanding, Current, hostVars, runVars
<1>4. \A k \in DOMAIN ops : ops[k].op # "unplaced"
  <2>1. slot = Len(ops) + 1
    BY <1>1, <1>2, EmptySeq DEF EndRun, Place
  <2>2. QED
    BY <1>1, <2>1 DEF OpsInv
<1>5. CASE /\ odepth = 0 /\ oi' = run.at /\ odepth' = 1 /\ UNCHANGED ops
  <2>1. oi' = oi
    BY <1>2, <1>5 DEF Place
  <2>2. QED
    BY <1>1, <1>2, <1>3, <1>4, <1>5, <2>1 DEF OpsInv, InOrder, Runs, HasRun, Sound, Expanding
<1>6. CASE odepth # 0
  <2>1. PICK n, c : n = oi + 1 /\ c = [op |-> "closure", at |-> run.at, count |-> run.count,
                                       param_at |-> ops[oi + 1].param_at,
                                       param_count |-> Len(ops[oi + 1].source.params)]
    OBVIOUS
  <2>2. ops' = Changed(ops, n, c) /\ oi' = n /\ odepth' = odepth
    BY <1>1, <1>6, <2>1 DEF EndRun, ScansOps, Changed
  <2>3. n \in 1 .. Len(ops) /\ n <= run.at /\ run.at + run.count = Len(ops)
    BY <1>1, <1>2, <1>6, <2>1 DEF Place
  <2>4. /\ AnySeq(ops') /\ Len(ops') = Len(ops)
        /\ \A k \in 1 .. Len(ops) : ops'[k] = IF k = n THEN c ELSE ops[k]
    <3>1. AnySeq(ops) /\ n \in DOMAIN ops
      BY <1>1, <2>3
    <3>2. /\ AnySeq(Changed(ops, n, c)) /\ Len(Changed(ops, n, c)) = Len(ops)
          /\ \A k \in 1 .. Len(ops) : Changed(ops, n, c)[k] = IF k = n THEN c ELSE ops[k]
      BY ONLY <3>1, ChangedSeq
    <3>3. QED
      BY <2>2, <3>2
  <2>5. DOMAIN ops' = 1 .. Len(ops)
    BY <2>4, SeqShape
  <2>6. /\ ops'[n] = c /\ c.at = run.at /\ c.count = run.count /\ c.op = "closure"
        /\ \A k \in 1 .. Len(ops) : k # n => ops'[k] = ops[k]
    BY <2>1, <2>3, <2>4
  <2>7. \A k \in 1 .. Len(ops) : HasRun(ops[k]) => k < n /\ ops[k].at + ops[k].count <= run.at
    BY <1>1, <1>2, <1>6, <2>1 DEF OpsInv, Place
  <2>8. InOrder(ops', 1) /\ Runs(ops', 1)
    <3>1. InOrder(ops, 1) /\ Runs(ops, 1)
      BY DEF OpsInv
    <3>2. /\ n \in 1 .. Len(ops') /\ ops'[n].at \in Nat /\ ops'[n].count \in Nat /\ ops'[n].at >= n
          /\ ops'[n].at + ops'[n].count <= Len(ops')
      BY <1>1, <2>3, <2>4, <2>6
    <3>3. \A j \in 1 .. Len(ops') : HasRun(ops'[j]) /\ j # n => j < n /\ j <= Len(ops) /\ ops'[j] = ops[j]
      BY <2>4, <2>6, <2>7
    <3>4. \A j \in 1 .. Len(ops) : HasRun(ops[j]) => ops[j].at + ops[j].count <= ops'[n].at
      BY <2>6, <2>7
    <3>5. Len(ops) \in Nat /\ Len(ops') \in Nat /\ Len(ops) <= Len(ops') /\ 1 \in Nat
      BY <1>1, <2>4
    <3>6. QED
      BY ONLY <3>1, <3>2, <3>3, <3>4, <3>5, OneMoreInOrder
  <2>9. \A k \in DOMAIN ops' : HasRun(ops'[k]) => k <= oi'
    BY <1>1, <2>2, <2>3, <2>5, <2>6, <2>7
  <2>10. \A k \in DOMAIN ops' :
           /\ ops'[k].op # "unplaced"
           /\ ops'[k].op = "pending" => /\ ops'[k].source \in WireOps /\ ops'[k].source.op = "closure"
                                        /\ k > oi'
    <3>1. TAKE k \in DOMAIN ops'
    <3>2. CASE k = n
      BY <2>6, <3>2
    <3>3. CASE k # n
      <4>1. ops'[k] = ops[k] /\ k \in DOMAIN ops
        BY <1>1, <2>5, <2>6, <3>3
      <4>2. ops[k].op = "pending" =>
              ops[k].source \in WireOps /\ ops[k].source.op = "closure" /\ k > oi
        BY <1>1, <4>1 DEF OpsInv
      <4>3. QED
        BY <1>1, <1>4, <2>1, <2>2, <2>5, <3>3, <4>1, <4>2
    <3>4. QED
      BY <3>2, <3>3
  <2>11. /\ pc' = "ops" /\ odepth' # 0 /\ ~Placing' /\ Expanding' /\ Current'.kind = "expression"
    BY <1>2, <1>3, <1>6, <2>2
  <2>12. OpsInv'
    BY <2>8, <2>9, <2>10, <2>11 DEF OpsInv
  <2>13. QED
    BY <1>1, <1>6, <2>1, <2>2, <2>4, <2>12
<1>7. QED
  BY <1>1, <1>5, <1>6 DEF EndRun, ScansOps

LEMMA OpsPassed ==
  ASSUME Shapes, OpsInv, PassOp
  PROVE  OpsInv' /\ oi' \in Nat /\ odepth' \in Nat
<1>1. /\ Len(ops) \in Nat /\ DOMAIN ops = 1 .. Len(ops) /\ oi \in Nat /\ odepth \in Nat
      /\ Sound /\ pc = "ops" /\ odepth # 0 /\ ~Placing
  BY Pools DEF PassOp, OpTurning, Shapes, Sound, OpsInv, Placing
<1>2. /\ oi' = oi + 1 /\ ops' = ops /\ odepth' \in {odepth, odepth + 1}
      /\ UNCHANGED <<stated, loaded, pc, status>>
  BY DEF PassOp, OpScanned, OpDepth, DeeperAt, hostVars, poolVars, runVars, controlVars
<1>3. /\ ops[oi + 1].op # "pending" /\ oi' \in Nat /\ odepth' \in Nat /\ odepth' # 0
  BY <1>1, <1>2 DEF PassOp
<1>4. \A k \in DOMAIN ops : HasRun(ops[k]) => k <= oi'
  BY <1>1, <1>2 DEF OpsInv
<1>5. \A k \in DOMAIN ops : ops[k].op # "unplaced" /\ (ops[k].op = "pending" => k > oi')
  BY <1>1, <1>2, <1>3 DEF OpsInv
<1>6. Current' = Current /\ ~Placing' /\ Expanding'
  BY <1>1, <1>2 DEF Current, Placing, Expanding
<1>7. InOrder(ops', 1) /\ Runs(ops', 1)
  BY <1>2 DEF OpsInv
<1>8. QED
  BY <1>1, <1>2, <1>3, <1>4, <1>5, <1>6, <1>7 DEF OpsInv

\* A closure's body becomes the run that is placed next, behind all others.
LEMMA OpsExpanded ==
  ASSUME Shapes, OpsInv, ExpandOp
  PROVE  /\ OpsInv' /\ AnySeq(ops') /\ run' \in [at : Nat, count : Nat]
         /\ slot' \in Nat /\ source' \in Seq(WireOps) /\ odepth' \in Nat
<1>1. /\ Len(ops) \in Nat /\ DOMAIN ops = 1 .. Len(ops) /\ AnySeq(ops) /\ oi \in Nat
      /\ odepth \in Nat /\ Sound /\ pc = "ops" /\ odepth # 0 /\ ~Placing
      /\ oi + 1 \in DOMAIN ops /\ ops[oi + 1].op = "pending"
      /\ slot \in Nat /\ source \in Seq(WireOps) /\ run \in [at : Nat, count : Nat]
  BY Pools DEF ExpandOp, OpTurning, Shapes, Sound, OpsInv, Placing
<1>2. /\ oi' = oi /\ odepth' \in {odepth, odepth + 1} /\ UNCHANGED <<stated, loaded>>
  BY DEF ExpandOp, OpScanned, OpDepth, DeeperAt, hostVars, runVars
<1>3. Current' = Current /\ Current.kind = "expression" /\ odepth' \in Nat /\ odepth' # 0
  BY <1>1, <1>2 DEF Current, OpsInv
<1>4. PICK n, c : n = oi + 1 /\ c = ops[oi + 1].source
  OBVIOUS
<1>5. c \in WireOps /\ c.op = "closure"
  BY <1>1, <1>4 DEF OpsInv
<1>6. c.body \in Seq(WireOps)
  BY <1>5, WireOp
<1>7. CASE Refuse("NOMEM") /\ UNCHANGED <<ops, source, run, slot>>
  <2>1. pc' = "stopped" /\ ~Sound' /\ UNCHANGED ops /\ oi' = oi
    BY <1>2, <1>7 DEF Refuse, Sound
  <2>2. OpsInv'
    BY <2>1, OpsStopped
  <2>3. QED
    BY <1>1, <1>3, <1>7, <2>2
<1>8. CASE /\ ops' = Changed(ops, n, [op |-> "pending", source |-> c, param_at |-> Len(params)])
                     \o Unplaced(Len(c.body))
           /\ source' = c.body /\ run' = [at |-> Len(ops), count |-> Len(c.body)]
           /\ slot' = Len(ops) + 1 /\ Goto("run")
  <2>1. PICK m, held : m = Len(c.body)
                       /\ held = [op |-> "pending", source |-> c, param_at |-> Len(params)]
    OBVIOUS
  <2>2. PICK pool : pool = Changed(ops, n, held)
    OBVIOUS
  <2>3. m \in Nat /\ n \in 1 .. Len(ops) /\ n = oi + 1
    BY <1>1, <1>4, <1>6, <2>1, LenProperties
  <2>4. /\ held.op = "pending" /\ held.source = c /\ ~HasRun(held)
    BY <2>1 DEF HasRun
  <2>5. /\ AnySeq(pool) /\ Len(pool) = Len(ops)
        /\ \A k \in 1 .. Len(ops) : pool[k] = IF k = n THEN held ELSE ops[k]
    <3>1. AnySeq(ops) /\ n \in DOMAIN ops
      BY <1>1, <2>3
    <3>2. /\ AnySeq(Changed(ops, n, held)) /\ Len(Changed(ops, n, held)) = Len(ops)
          /\ \A k \in 1 .. Len(ops) : Changed(ops, n, held)[k] = IF k = n THEN held ELSE ops[k]
      BY ONLY <3>1, ChangedSeq
    <3>3. QED
      BY <2>2, <3>2
  <2>6. /\ AnySeq(ops') /\ Len(ops') = Len(ops) + m
        /\ \A k \in 1 .. Len(ops) : ops'[k] = pool[k]
        /\ \A k \in Len(ops) + 1 .. Len(ops) + m : ops'[k].op = "unplaced" /\ ~HasRun(ops'[k])
    <3>1. AnySeq(pool) /\ m \in Nat
      BY <2>3, <2>5
    <3>2. /\ AnySeq(pool \o Unplaced(m)) /\ Len(pool \o Unplaced(m)) = Len(pool) + m
          /\ \A k \in 1 .. Len(pool) : (pool \o Unplaced(m))[k] = pool[k]
          /\ \A k \in Len(pool) + 1 .. Len(pool) + m :
               /\ (pool \o Unplaced(m))[k].op = "unplaced"
               /\ ~HasRun((pool \o Unplaced(m))[k])
      BY ONLY <3>1, UnplacedRun
    <3>3. ops' = pool \o Unplaced(m)
      BY <1>8, <2>1, <2>2
    <3>4. QED
      BY <2>5, <3>2, <3>3
  <2>7. DOMAIN ops' = 1 .. Len(ops) + m
    BY <2>6, SeqShape
  <2>8. /\ ops'[n] = held
        /\ \A k \in 1 .. Len(ops) : k # n => ops'[k] = ops[k]
    BY <2>3, <2>5, <2>6
  <2>9. \A k \in DOMAIN ops' : HasRun(ops'[k]) => k \in 1 .. Len(ops) /\ k # n /\ ops'[k] = ops[k]
    <3>1. TAKE k \in DOMAIN ops'
    <3>2. HAVE HasRun(ops'[k])
    <3>3. k \in 1 .. Len(ops) \/ k \in Len(ops) + 1 .. Len(ops) + m
      BY <1>1, <2>3, <2>7
    <3>4. k \in 1 .. Len(ops)
      BY <2>6, <3>2, <3>3
    <3>5. QED
      BY <2>4, <2>8, <3>2, <3>4
  <2>10. InOrder(ops', 1) /\ Runs(ops', 1)
    <3>1. InOrder(ops, 1) /\ Runs(ops, 1)
      BY DEF OpsInv
    <3>2. \A k \in 1 .. Len(ops') : HasRun(ops'[k]) => k <= Len(ops) /\ ops'[k] = ops[k]
      BY <1>1, <2>3, <2>6, <2>7, <2>9
    <3>3. Len(ops) \in Nat /\ Len(ops') \in Nat /\ Len(ops) <= Len(ops') /\ 1 \in Nat
      BY <1>1, <2>3, <2>6
    <3>4. QED
      BY ONLY <3>1, <3>2, <3>3, StaysInOrder
  <2>11. \A k \in DOMAIN ops' : HasRun(ops'[k]) =>
           k <= oi' /\ ops'[k].at + ops'[k].count <= Len(ops)
    BY <1>1, <1>2, <2>9 DEF OpsInv, InOrder, HasRun
  <2>12. \A k \in DOMAIN ops' :
           /\ ops'[k].op = "pending" => /\ ops'[k].source \in WireOps
                                        /\ ops'[k].source.op = "closure" /\ k > oi'
           /\ ops'[k].op = "unplaced" => k > Len(ops)
    <3>1. TAKE k \in DOMAIN ops'
    <3>2. CASE k = n
      BY <1>1, <1>2, <1>5, <2>3, <2>4, <2>8, <3>2
    <3>3. CASE k # n /\ k \in 1 .. Len(ops)
      BY <1>1, <1>2, <2>8, <3>3 DEF OpsInv
    <3>4. CASE k \in Len(ops) + 1 .. Len(ops) + m
      BY <1>1, <2>3, <2>6, <3>4
    <3>5. QED
      BY <1>1, <2>3, <2>7, <3>2, <3>3, <3>4
  <2>13. Place'
    <3>1. /\ run'.at = Len(ops) /\ run'.count = m /\ Len(source') = m
          /\ oi' = oi /\ oi < Len(ops) /\ slot' = Len(ops) + 1 /\ Len(ops') = Len(ops) + m
      <4>1. run'.at = Len(ops) /\ run'.count = m /\ Len(source') = m /\ slot' = Len(ops) + 1
        BY <1>8, <2>1
      <4>2. oi' = oi /\ oi < Len(ops)
        BY <1>1, <1>2
      <4>3. QED
        BY <2>6, <4>1, <4>2
    <3>2. /\ run'.at + run'.count = Len(ops')
          /\ slot' > run'.at /\ slot' + Len(source') = Len(ops') + 1
          /\ oi' < run'.at /\ odepth' # 0
      BY <1>1, <1>3, <2>3, <3>1
    <3>3. \A k \in DOMAIN ops' : HasRun(ops'[k]) => ops'[k].at + ops'[k].count <= run'.at
      BY <2>11, <3>1
    <3>4. QED
      BY <3>2, <3>3 DEF Place
  <2>14. pc' = "run" /\ Placing' /\ Expanding' /\ Current'.kind = "expression"
    BY <1>3, <1>8 DEF Goto, Placing, Expanding
  <2>15. \A k \in DOMAIN ops' : ops'[k].op = "unplaced" => k >= slot'
    <3>1. slot' = Len(ops) + 1
      BY <1>8
    <3>2. \A k \in DOMAIN ops' : k \in Nat
      BY <1>1, <2>3, <2>7
    <3>3. QED
      BY <1>1, <2>12, <3>1, <3>2
  <2>16. OpsInv'
    BY <2>10, <2>11, <2>12, <2>13, <2>14, <2>15 DEF OpsInv
  <2>17. run' \in [at : Nat, count : Nat]
    BY <1>1, <1>8, <2>1, <2>3
  <2>18. QED
    BY <1>1, <1>3, <1>6, <1>8, <2>6, <2>16, <2>17
<1>9. QED
  BY <1>4, <1>7, <1>8 DEF ExpandOp, Changed

\* Between two parts, and before a predicate's terms: no operation is pending.
LEMMA OpsAtRest ==
  ASSUME OpsInv, UNCHANGED <<ops, oi>>, pc' \in {"next", "terms", "stopped"}, ~Placing',
         odepth' = 0 \/ pc' = "stopped",
         \A k \in DOMAIN ops : ops[k].op # "unplaced" /\ ops[k].op # "pending"
  PROVE  OpsInv'
BY DEF OpsInv, InOrder, Runs, HasRun

LEMMA NothingPending ==
  ASSUME Shapes, OpsInv, Sound,
         ~Expanding \/ (pc = "ops" /\ oi >= Len(ops))
  PROVE  \A k \in DOMAIN ops : ops[k].op # "unplaced" /\ ops[k].op # "pending"
<1>1. DOMAIN ops = 1 .. Len(ops) /\ Len(ops) \in Nat /\ oi \in Nat /\ ~Placing
  BY Pools DEF Shapes, Expanding, Placing
<1>2. QED
  BY <1>1 DEF OpsInv

LEMMA AppendedSeq ==
  ASSUME NEW s, AnySeq(s), NEW x
  PROVE  AnySeq(Append(s, x))
<1>1. s \in Seq(Range(s) \cup {x})
  BY SeqMonotonic DEF AnySeq
<1>2. Append(s, x) \in Seq(Range(s) \cup {x})
  BY <1>1, AppendProperties
<1>3. QED
  BY <1>2, SomeSeq

-----------------------------------------------------------------------------
(* Every step.                                                             *)

LEMMA PredicateLoads ==
  ASSUME Shapes, TermsInv, OpsInv, LoadPredicate
  PROVE  Shapes' /\ TermsInv' /\ OpsInv'
<1>1. /\ pc = "next" /\ Left /\ Current.kind = "predicate" /\ Sound /\ ~Expanding /\ odepth = 0
      /\ Current' = Current
      /\ UNCHANGED <<stated, parsed, loaded, ops, oi, odepth, source, run, slot>>
  BY DEF LoadPredicate, Shapes, Sound, Expanding, Placing, OpsInv, Current, hostVars, opScan
<1>2. \A k \in DOMAIN ops : ops[k].op # "unplaced" /\ ops[k].op # "pending"
  BY <1>1, NothingPending
<1>3. CASE ~Sound' /\ pc' = "stopped" /\ UNCHANGED <<terms, i>>
  <2>1. TermsInv'
    BY <1>1, <1>3, TermsElsewhere
  <2>2. OpsInv'
    <3>1. ~Placing' /\ odepth' = 0
      BY <1>1, <1>3 DEF Placing
    <3>2. QED
      BY <1>1, <1>2, <1>3, <3>1, OpsAtRest
  <2>3. Shapes'
    BY <1>1, <1>3 DEF Shapes, Sound
  <2>4. QED
    BY <2>1, <2>2, <2>3
<1>4. CASE /\ PlaceValues(Current.terms) /\ i' = Len(terms) /\ pc' = "terms" /\ UNCHANGED status
  <2>1. Current.terms \in Seq(WireValues)
    BY <1>1, CurrentPart
  <2>2. TermsInv' /\ AnySeq(terms') /\ Len(terms) <= Len(terms')
    BY <1>1, <1>4, <2>1, ScanBegins
  <2>3. OpsInv'
    <3>1. ~Placing' /\ odepth' = 0
      BY <1>1, <1>4 DEF Placing
    <3>2. QED
      BY <1>1, <1>2, <1>4, <3>1, OpsAtRest
  <2>4. Len(terms) \in Nat /\ Len(terms') \in Nat
    BY <2>2, Pools, SeqShape
  <2>5. Shapes'
    BY <1>1, <1>4, <2>2, <2>4 DEF Shapes
  <2>6. QED
    BY <2>2, <2>3, <2>5
<1>5. QED
  BY <1>3, <1>4 DEF LoadPredicate, Refuse, Sound, Goto, ScanTerms, termScan

LEMMA TermsEnd ==
  ASSUME Shapes, TermsInv, OpsInv, EndTerms
  PROVE  Shapes' /\ TermsInv' /\ OpsInv'
<1>1. TermsInv'
  BY TermsScanned
<1>2. /\ pc = "terms" /\ Sound
      /\ UNCHANGED <<stated, parsed, terms, ops, i, oi, odepth, source, run, slot, status>>
  BY DEF EndTerms, Shapes, Sound, Goto, Loaded, hostVars, poolVars, termScan, opScan
<1>3. CASE Current.kind = "predicate" /\ Loaded /\ pc' = "next"
  <2>1. ~Placing /\ ~Expanding /\ odepth = 0 /\ ~Placing' /\ odepth' = 0
    BY <1>2, <1>3 DEF Placing, Expanding, OpsInv
  <2>2. OpsInv'
    BY <1>2, <1>3, <2>1, NothingPending, OpsAtRest
  <2>3. AnySeq(loaded')
    BY AppendedSeq, <1>3 DEF Loaded, Shapes
  <2>4. Shapes'
    BY <1>2, <1>3, <2>3 DEF Shapes
  <2>5. QED
    BY <1>1, <2>2, <2>4
<1>4. CASE Current.kind = "expression" /\ pc' = "run" /\ UNCHANGED loaded
  <2>1. Placing /\ Expanding /\ Placing' /\ Expanding' /\ Current' = Current
    BY <1>2, <1>4 DEF Placing, Expanding, Current
  <2>2. Place'
    BY <1>2, <2>1 DEF OpsInv, Place, HasRun
  <2>3. OpsInv'
    BY <1>2, <1>4, <2>1, <2>2 DEF OpsInv, InOrder, Runs, HasRun, Sound
  <2>4. Shapes'
    BY <1>2, <1>4 DEF Shapes
  <2>5. QED
    BY <1>1, <2>3, <2>4
<1>5. QED
  BY <1>3, <1>4 DEF EndTerms, Goto

LEMMA ExpressionEnds ==
  ASSUME Shapes, TermsInv, OpsInv, EndOps
  PROVE  Shapes' /\ TermsInv' /\ OpsInv'
<1>1. /\ pc = "ops" /\ Sound /\ oi >= Len(ops) /\ pc' = "next" /\ odepth' = 0 /\ Loaded
      /\ UNCHANGED <<stated, parsed, terms, ops, i, oi, source, run, slot, status>>
  BY DEF EndOps, Shapes, Sound, Goto, hostVars, poolVars, termScan
<1>2. TermsInv'
  BY <1>1, TermsElsewhere DEF Sound
<1>3. OpsInv'
  BY <1>1, NothingPending, OpsAtRest DEF Placing
<1>4. AnySeq(loaded')
  BY <1>1, AppendedSeq DEF Loaded, Shapes
<1>5. Shapes'
  BY <1>1, <1>4 DEF Shapes
<1>6. QED
  BY <1>2, <1>3, <1>5

\* A step that refuses, or finds that all is loaded.
LEMMA Stops ==
  ASSUME Shapes, TermsInv, OpsInv, TooDeep \/ OpTooDeep \/ AllLoaded
  PROVE  Shapes' /\ TermsInv' /\ OpsInv'
<1>1. /\ pc' = "stopped" /\ UNCHANGED <<hostVars, poolVars, runVars, termScan, opScan>>
      /\ status' # "none"
  BY DEF TooDeep, OpTooDeep, AllLoaded, Refuse
<1>2. UNCHANGED <<stated, parsed, terms, ops, loaded, i, oi, odepth, source, run, slot>>
  BY <1>1 DEF hostVars, poolVars, runVars, termScan, opScan
<1>3. Shapes'
  BY <1>1, <1>2 DEF Shapes
<1>4. CASE TooDeep \/ OpTooDeep
  <2>1. ~Sound'
    BY <1>4 DEF TooDeep, OpTooDeep, Refuse, Sound
  <2>2. TermsInv' /\ OpsInv'
    BY <1>1, <1>2, <2>1, TermsElsewhere, OpsStopped
  <2>3. QED
    BY <1>3, <2>2
<1>5. CASE AllLoaded
  <2>1. pc = "next" /\ Sound /\ ~Expanding /\ ~Placing' /\ status' = "OK"
    BY <1>1, <1>5 DEF AllLoaded, Shapes, Sound, Expanding, Placing
  <2>2. TermsInv' /\ OpsInv'
    BY <1>1, <1>2, <2>1, TermsElsewhere, NothingPending, OpsAtRest DEF Sound
  <2>3. QED
    BY <1>3, <2>2
<1>6. QED
  BY <1>4, <1>5

LEMMA TermScans ==
  ASSUME Shapes, TermsInv, OpsInv, PassTerm \/ ExpandTerm
  PROVE  Shapes' /\ TermsInv' /\ OpsInv'
<1>1. UNCHANGED <<stated, parsed, ops, opScan, loaded>> /\ Sound /\ pc = "terms"
  BY DEF PassTerm, ExpandTerm, Turning, Shapes, Sound, hostVars, poolVars, runVars
<1>2. UNCHANGED <<oi, odepth, source, run, slot>>
  BY <1>1 DEF opScan
<1>3. Len(terms) \in Nat
  BY Pools
<1>4. CASE PassTerm
  <2>1. UNCHANGED <<pc, status, terms>> /\ i' = i + 1
    BY <1>4 DEF PassTerm, Scanned, controlVars, poolVars
  <2>2. TermsInv' /\ OpsInv'
    BY <1>1, <1>4, <2>1, TermsPassed, OpsElsewhere
  <2>3. Shapes'
    BY <1>1, <1>2, <2>1 DEF Shapes
  <2>4. QED
    BY <2>2, <2>3
<1>5. CASE ExpandTerm
  <2>1. TermsInv' /\ AnySeq(terms') /\ Len(terms) <= Len(terms')
    BY <1>5, TermsExpanded
  <2>2. \/ ~Sound' /\ pc' = "stopped" /\ i' = i
        \/ UNCHANGED <<pc, status>> /\ i' = i + 1
    BY <1>5 DEF ExpandTerm, Refuse, Sound, Scanned, termScan, controlVars
  <2>3. OpsInv'
    BY <1>1, <1>2, <2>2, OpsStopped, OpsElsewhere
  <2>4. Len(terms') \in Nat
    BY <2>1, SeqShape
  <2>5. Shapes'
    BY <1>1, <1>2, <1>3, <2>1, <2>2, <2>4 DEF Shapes, Sound
  <2>6. QED
    BY <2>1, <2>3, <2>5
<1>6. QED
  BY <1>4, <1>5

LEMMA ExpressionLoads ==
  ASSUME Shapes, TermsInv, OpsInv, LoadExpression
  PROVE  Shapes' /\ TermsInv' /\ OpsInv'
<1>1. /\ OpsInv' /\ AnySeq(ops') /\ run' \in [at : Nat, count : Nat]
      /\ slot' \in Nat /\ source' \in Seq(WireOps)
  BY OpsBegun
<1>2. /\ pc = "next" /\ Sound /\ UNCHANGED <<stated, parsed, terms, loaded, i>>
      /\ oi' \in Nat /\ odepth' = 0
  BY Pools DEF LoadExpression, Shapes, Sound, hostVars, termScan
<1>3. (pc' = "stopped" /\ status' = "NOMEM") \/ (pc' = "run" /\ UNCHANGED status)
  BY DEF LoadExpression, Refuse, BeginRun, Goto
<1>4. TermsInv'
  BY <1>2, <1>3, TermsElsewhere DEF Sound
<1>5. Shapes'
  BY <1>1, <1>2, <1>3 DEF Shapes, Sound
<1>6. QED
  BY <1>1, <1>4, <1>5

LEMMA OpScans ==
  ASSUME Shapes, TermsInv, OpsInv, PassOp \/ ExpandOp \/ EndRun
  PROVE  Shapes' /\ TermsInv' /\ OpsInv'
<1>1. /\ pc \in {"run", "ops"} /\ Sound /\ UNCHANGED <<stated, parsed, terms, loaded, i>>
  BY DEF PassOp, ExpandOp, EndRun, OpTurning, Shapes, Sound, hostVars, poolVars, runVars, termScan
<1>2. \/ pc' = "stopped" /\ status' = "NOMEM"
      \/ pc' \in {"run", "ops"} /\ UNCHANGED status
  BY <1>1 DEF PassOp, ExpandOp, EndRun, OpTurning, Refuse, Goto, controlVars
<1>3. TermsInv'
  BY <1>1, <1>2, TermsElsewhere DEF Sound
<1>4. /\ OpsInv' /\ AnySeq(ops') /\ run' \in [at : Nat, count : Nat]
      /\ slot' \in Nat /\ source' \in Seq(WireOps) /\ oi' \in Nat /\ odepth' \in Nat
  <2>1. CASE PassOp
    <3>1. UNCHANGED <<ops, source, run, slot>>
      BY <2>1 DEF PassOp, poolVars
    <3>2. QED
      BY <2>1, <3>1, OpsPassed DEF Shapes
  <2>2. CASE ExpandOp
    <3>1. UNCHANGED oi
      BY <2>2 DEF ExpandOp
    <3>2. QED
      BY <2>2, <3>1, OpsExpanded DEF Shapes
  <2>3. CASE EndRun
    <3>1. UNCHANGED <<source, run, slot>>
      BY <2>3 DEF EndRun
    <3>2. QED
      BY <2>3, <3>1, OpsRunEnds DEF Shapes
  <2>4. QED
    BY <2>1, <2>2, <2>3
<1>5. Shapes'
  BY <1>1, <1>2, <1>4 DEF Shapes, Sound
<1>6. QED
  BY <1>3, <1>4, <1>5

LEMMA OpsPlaced ==
  ASSUME Shapes, TermsInv, OpsInv, PlaceValue \/ PlaceOperator \/ PlaceClosure
  PROVE  Shapes' /\ TermsInv' /\ OpsInv'
<1>1. /\ pc = "run" /\ source # <<>> /\ Sound
      /\ UNCHANGED <<stated, parsed, loaded, oi, odepth, run>>
  BY DEF PlaceValue, PlaceOperator, PlaceClosure, Shapes, Sound, hostVars, runVars
<1>2. PICK o : o = source[1]
  OBVIOUS
<1>3. o \in WireOps
  <2>1. source \in Seq(WireOps) /\ Len(source) \in Nat \ {0}
    BY <1>1, EmptySeq, LenProperties DEF Shapes
  <2>2. QED
    BY <1>2, <2>1, ElementOfSeq
<1>4. CASE PlaceOperator \/ PlaceClosure
  <2>1. UNCHANGED <<terms, i, pc, status>>
    BY <1>4 DEF PlaceOperator, PlaceClosure, termScan, controlVars
  <2>2. OpsInv' /\ AnySeq(ops') /\ slot' \in Nat /\ source' \in Seq(WireOps)
    <3>1. PICK p : /\ PutOp(p) /\ ~HasRun(p) /\ p.op # "unplaced"
                   /\ p.op = "pending" => p.source \in WireOps /\ p.source.op = "closure"
      <4>1. CASE PlaceOperator
        <5>1. o.op \in {"unary", "binary"} /\ PutOp(o)
          BY <1>2, <4>1 DEF PlaceOperator
        <5>2. ~HasRun(o) /\ o.op # "unplaced" /\ o.op # "pending"
          BY <1>3, <5>1, WireOp
        <5>3. QED
          BY <5>1, <5>2
      <4>2. CASE PlaceClosure
        <5>1. PICK p : p = [op |-> "pending", source |-> o]
          OBVIOUS
        <5>2. o.op = "closure" /\ PutOp(p)
          BY <1>2, <4>2, <5>1 DEF PlaceClosure
        <5>3. ~HasRun(p) /\ p.op = "pending" /\ p.source = o
          BY <5>1 DEF HasRun
        <5>4. QED
          BY <1>3, <5>2, <5>3
      <4>3. QED
        BY <1>4, <4>1, <4>2
    <3>2. QED
      BY <1>1, <2>1, <3>1, OpPlaced
  <2>3. TermsInv'
    BY <1>1, <2>1, TermsElsewhere DEF Sound
  <2>4. Shapes'
    BY <1>1, <2>1, <2>2 DEF Shapes
  <2>5. QED
    BY <2>2, <2>3, <2>4
<1>5. CASE PlaceValue
  <2>1. o.op = "value" /\ o.term \in WireValues
    BY <1>2, <1>3, <1>5, WireOp DEF PlaceValue
  <2>2. CASE ~Sound' /\ pc' = "stopped" /\ UNCHANGED <<terms, ops, slot, source, i>>
    <3>1. TermsInv' /\ OpsInv'
      BY <1>1, <2>2, TermsElsewhere, OpsStopped
    <3>2. Shapes'
      BY <1>1, <2>2 DEF Shapes, Sound
    <3>3. QED
      BY <3>1, <3>2
  <2>3. CASE /\ PlaceValues(<<o.term>>) /\ i' = Len(terms) /\ pc' = "terms" /\ UNCHANGED status
             /\ PutOp([op |-> "value", term |-> Len(terms)])
    <3>1. <<o.term>> \in Seq(WireValues)
      BY <2>1
    <3>2. TermsInv' /\ AnySeq(terms') /\ Len(terms) <= Len(terms')
      BY <1>1, <2>3, <3>1, ScanBegins
    <3>3. OpsInv' /\ AnySeq(ops') /\ slot' \in Nat /\ source' \in Seq(WireOps)
      <4>1. PICK p : p = [op |-> "value", term |-> Len(terms)]
        OBVIOUS
      <4>2. PutOp(p) /\ ~HasRun(p) /\ p.op = "value"
        BY <2>3, <4>1 DEF HasRun
      <4>3. QED
        BY <1>1, <2>3, <4>2, OpPlaced
    <3>4. Len(terms) \in Nat /\ Len(terms') \in Nat
      BY <3>2, Pools, SeqShape
    <3>5. Shapes'
      BY <1>1, <2>3, <3>2, <3>3, <3>4 DEF Shapes
    <3>6. QED
      BY <3>2, <3>3, <3>5
  <2>4. QED
    BY <1>2, <1>5, <2>2, <2>3 DEF PlaceValue, Refuse, Sound, Goto, ScanTerms, termScan
<1>6. QED
  BY <1>4, <1>5

-----------------------------------------------------------------------------
(* The theorem.                                                            *)

LEMMA ExpandBegins ==
  ASSUME LoadInit
  PROVE  ExpandInv
<1>1. PICK l \in Loads : /\ stated = PlacedBlock(l.block)
                         /\ terms = l.parsed /\ parsed = Len(l.parsed)
  BY DEF LoadInit
<1>2. /\ terms \in Seq(WireValues \cup List) /\ stated \in Seq(Stated(WireValues, WireOps))
  BY <1>1, WireAssumption DEF HoldAll
<1>3. AnySeq(terms) /\ parsed \in Nat /\ parsed = Len(terms) /\ DOMAIN terms = 1 .. Len(terms)
  BY <1>1, <1>2, SomeSeq, LenProperties
<1>4. /\ ops = <<>> /\ loaded = <<>> /\ i = 0 /\ oi = 0 /\ odepth = 0 /\ slot = 0
      /\ source = <<>> /\ run = [at |-> 0, count |-> 0] /\ pc = "next" /\ status = "none"
  BY DEF LoadInit
<1>5. /\ AnySeq(ops) /\ AnySeq(loaded) /\ source \in Seq(WireOps)
      /\ Len(ops) = 0 /\ DOMAIN ops = {}
  <2>1. <<>> \in Seq({}) /\ <<>> \in Seq(WireOps) /\ Len(<<>>) = 0
    BY EmptySeq
  <2>2. AnySeq(<<>>)
    BY <2>1, SomeSeq
  <2>3. QED
    BY <1>4, <2>1, <2>2, SeqShape
<1>6. Shapes
  BY <1>2, <1>3, <1>4, <1>5 DEF Shapes
<1>7. \A k \in DOMAIN terms : terms[k].kind # "pending"
  <2>1. \A k \in DOMAIN terms : terms[k] \in WireValues \cup List
    BY <1>2, <1>3, ElementOfSeq
  <2>2. QED
    BY <2>1, WireAssumption DEF HoldAll, List, ContainerKinds
<1>8. TermsInv
  BY <1>3, <1>4, <1>7 DEF TermsInv, InOrder, Runs
<1>9. OpsInv
  BY <1>4, <1>5 DEF OpsInv, InOrder, Runs, Placing
<1>10. QED
  BY <1>6, <1>8, <1>9 DEF ExpandInv

LEMMA ExpandGoesOn ==
  ASSUME ExpandInv, [Load]_expandVars
  PROVE  ExpandInv'
<1> USE DEF ExpandInv
<1>1. CASE Load
  BY <1>1, PredicateLoads, TermsEnd, ExpressionEnds, Stops, TermScans, ExpressionLoads,
     OpScans, OpsPlaced DEF Load
<1>2. CASE UNCHANGED expandVars
  <2>1. UNCHANGED <<stated, parsed, terms, ops, loaded, i, oi, odepth, source, run, slot, pc, status>>
    BY <1>2 DEF expandVars, hostVars, poolVars, runVars, termScan, opScan, controlVars
  <2>2. Shapes'
    BY <2>1 DEF Shapes
  <2>3. TermsInv'
    BY <2>1 DEF TermsInv, InOrder, Runs, HasRun, Sound
  <2>4. OpsInv'
    BY <2>1 DEF OpsInv, InOrder, Runs, HasRun, Placing, Expanding, Place, Sound, Current
  <2>5. QED
    BY <2>2, <2>3, <2>4
<1>3. QED
  BY <1>1, <1>2

LEMMA InvariantOrders ==
  ASSUME ExpandInv
  PROVE  NoneBehind
<1>1. /\ DOMAIN ops = 1 .. Len(ops) /\ Len(ops) \in Nat /\ slot \in Nat /\ oi \in Nat
      /\ source \in Seq(WireOps)
  BY Pools DEF ExpandInv, Shapes
<1>2. ASSUME Sound
      PROVE  /\ \A k \in DOMAIN terms : terms[k].kind = "pending" => pc = "terms" /\ k > i
             /\ \A k \in DOMAIN ops :
                  /\ ops[k].op = "unplaced" => pc \in {"run", "terms"} /\ source # <<>> /\ k >= slot
                  /\ ops[k].op = "pending" => pc # "next" /\ pc # "stopped" /\ k > oi
  <2>1. \A k \in DOMAIN terms : terms[k].kind = "pending" => pc = "terms" /\ k > i
    BY <1>2 DEF ExpandInv, TermsInv
  <2>2. \A k \in DOMAIN ops : /\ ops[k].op = "unplaced" => Placing /\ k >= slot
                              /\ ops[k].op = "pending" => Expanding /\ k > oi
    BY <1>2 DEF ExpandInv, OpsInv
  <2>3. \A k \in DOMAIN ops : ops[k].op = "unplaced" => source # <<>>
    <3>1. TAKE k \in DOMAIN ops
    <3>2. HAVE ops[k].op = "unplaced"
    <3>3. slot + Len(source) = Len(ops) + 1 /\ k >= slot
      BY <2>2, <3>2 DEF ExpandInv, OpsInv, Place
    <3>4. Len(source) # 0
      BY <1>1, <3>3
    <3>5. QED
      BY <1>1, <3>4, EmptySeq
  <2>4. QED
    BY <2>1, <2>2, <2>3 DEF Placing, Expanding
<1>3. InOrder(terms, parsed + 1) /\ InOrder(ops, 1)
  BY DEF ExpandInv, TermsInv, OpsInv
<1>4. QED
  BY <1>2, <1>3 DEF NoneBehind, Sound

\* A value still pending, and a place for an operation still empty, are ahead
\* of the scan that will come by, and the runs are in the order of what holds
\* them: for every block, however deep and however little room there is
\* (110_load.inc:164-277, 483-638).
THEOREM ExpandLeavesNoneBehind == ExpandSpec => []NoneBehind
<1>1. LoadInit => ExpandInv
  BY ExpandBegins
<1>2. ExpandInv /\ [Load]_expandVars => ExpandInv'
  BY ExpandGoesOn
<1>3. ExpandInv => NoneBehind
  BY InvariantOrders
<1>4. QED
  BY <1>1, <1>2, <1>3, PTL DEF ExpandSpec

-----------------------------------------------------------------------------
(* Induction, and functions defined by recursion on the naturals.          *)

\* A set of numbers that holds 0 and with each the next holds all.
LEMMA FromZeroOn ==
  ASSUME NEW T \in SUBSET Nat, 0 \in T, \A n \in T : n + 1 \in T
  PROVE  \A n \in Nat : n \in T
<1> DEFINE R == {ss \in Nat \X Nat : ss[1] < ss[2]}
<1>1. IsWellFoundedOn(R, Nat)
  BY NatLessThanWellFounded DEF OpToRel
<1>2. SUFFICES ASSUME Nat \ T # {} PROVE FALSE
  OBVIOUS
<1>3. PICK n \in Nat \ T : \A m \in Nat \ T : <<m, n>> \notin R
  <2> HIDE DEF R
  <2>. QED BY <1>1, <1>2, WFMin
<1>4. n # 0 /\ n - 1 \in Nat /\ n - 1 < n
  BY <1>3
<1>5. n - 1 \in T
  BY <1>3, <1>4
<1>. QED
  BY <1>3, <1>4, <1>5

LEMMA InRounds ==
  ASSUME NEW X, NEW first \in X, NEW next \in [X -> X]
  PROVE  \E f : /\ f = [n \in Nat |-> IF n = 0 THEN first ELSE next[f[n - 1]]]
                /\ f \in [Nat -> X]
<1> DEFINE Starts(n) == {a \in [0 .. n -> X] : a[0] = first /\ \A k \in 1 .. n : a[k] = next[a[k - 1]]}
<1>1. \A n \in Nat : Starts(n) # {}
  <2> DEFINE T == {n \in Nat : Starts(n) # {}}
  <2>1. 0 \in T
    <3> DEFINE a == [k \in 0 .. 0 |-> first]
    <3>1. a \in Starts(0)
      OBVIOUS
    <3>. QED BY <3>1
  <2>2. ASSUME NEW n \in T PROVE n + 1 \in T
    <3>1. PICK a : a \in Starts(n)
      OBVIOUS
    <3> DEFINE c == [k \in 0 .. n + 1 |-> IF k <= n THEN a[k] ELSE next[a[n]]]
    <3>2. c \in [0 .. n + 1 -> X]
      BY <3>1
    <3>3. \A k \in 1 .. n + 1 : c[k] = next[c[k - 1]]
      BY <3>1
    <3>4. c \in Starts(n + 1)
      BY <3>1, <3>2, <3>3
    <3>. QED BY <3>4
  <2>3. T \in SUBSET Nat
    OBVIOUS
  <2> HIDE DEF T
  <2>4. \A n \in Nat : n \in T
    BY <2>1, <2>2, <2>3, FromZeroOn
  <2>. QED BY <2>4 DEF T
<1>2. ASSUME NEW n \in Nat, NEW m \in Nat, NEW a \in Starts(n), NEW c \in Starts(m)
      PROVE  \A k \in Nat : k <= n /\ k <= m => a[k] = c[k]
  <2> DEFINE T == {k \in Nat : k <= n /\ k <= m => a[k] = c[k]}
  <2>1. 0 \in T
    OBVIOUS
  <2>2. ASSUME NEW k \in T PROVE k + 1 \in T
    <3>1. SUFFICES ASSUME k + 1 <= n, k + 1 <= m PROVE a[k + 1] = c[k + 1]
      OBVIOUS
    <3>2. a[k] = c[k] /\ k + 1 \in 1 .. n /\ k + 1 \in 1 .. m /\ (k + 1) - 1 = k
      BY <3>1
    <3>3. a[k + 1] = next[a[(k + 1) - 1]] /\ c[k + 1] = next[c[(k + 1) - 1]]
      BY <3>2
    <3>. QED BY <3>2, <3>3
  <2>3. T \in SUBSET Nat
    OBVIOUS
  <2> HIDE DEF T
  <2>4. \A k \in Nat : k \in T
    BY <2>1, <2>2, <2>3, FromZeroOn
  <2>. QED BY <2>4 DEF T
<1> DEFINE pick == [n \in Nat |-> CHOOSE a : a \in Starts(n)]
           f == [n \in Nat |-> pick[n][n]]
<1>3. ASSUME NEW n \in Nat PROVE pick[n] \in Starts(n)
  <2> HIDE DEF Starts
  <2>. QED BY <1>1
<1>4. \A n \in Nat : f[n] \in X
  <2> SUFFICES ASSUME NEW n \in Nat PROVE pick[n][n] \in X
    OBVIOUS
  <2>1. pick[n] \in Starts(n) BY <1>3
  <2> HIDE DEF pick
  <2>. QED BY <2>1
<1>5. ASSUME NEW n \in Nat PROVE f[n] = IF n = 0 THEN first ELSE next[f[n - 1]]
  <2>1. pick[n] \in Starts(n) BY <1>3
  <2>2. f[n] = pick[n][n] OBVIOUS
  <2>3. CASE n = 0
    <3> HIDE DEF pick
    <3>. QED BY <2>1, <2>2, <2>3
  <2>4. CASE n # 0
    <3>1. n - 1 \in Nat /\ n - 1 <= n BY <2>4
    <3>2. pick[n - 1] \in Starts(n - 1) BY <1>3, <3>1
    <3>3. f[n - 1] = pick[n - 1][n - 1] BY <3>1
    <3> HIDE DEF pick, f
    <3>4. pick[n][n] = next[pick[n][n - 1]] BY <2>1, <2>4
    <3> HIDE DEF Starts
    <3>5. pick[n][n - 1] = pick[n - 1][n - 1]
      BY <1>2, <2>1, <3>1, <3>2
    <3>. QED BY <2>2, <2>4, <3>3, <3>4, <3>5
  <2>. QED BY <2>3, <2>4
<1>6. f = [n \in Nat |-> IF n = 0 THEN first ELSE next[f[n - 1]]]
  <2>1. f = [n \in Nat |-> f[n]]
    OBVIOUS
  <2> HIDE DEF f
  <2>. QED BY <1>5, <2>1
<1>7. f \in [Nat -> X]
  <2>1. f = [n \in Nat |-> f[n]]
    OBVIOUS
  <2> HIDE DEF f
  <2>. QED BY <1>4, <2>1
<1> HIDE DEF f
<1>. QED
  BY <1>6, <1>7

-----------------------------------------------------------------------------
(* Which places of a pool hold the same value.                             *)

Pairs(pool) == (DOMAIN pool) \X (DOMAIN pool)
AlikePairs(pool, same) == {p \in Pairs(pool) : Alike(pool, same, p[1], p[2])}

LEMMA SameInRounds ==
  ASSUME NEW pool
  PROVE  \E to \in [Nat -> SUBSET Pairs(pool)] :
           /\ SameValues(pool) = to[MaxDepth]
           /\ to[0] = AlikePairs(pool, {})
           /\ \A n \in Nat : to[n + 1] = AlikePairs(pool, to[n])
<1> DEFINE X == SUBSET Pairs(pool)
           first == AlikePairs(pool, {})
           next == [same \in X |-> AlikePairs(pool, same)]
           Def(f) == f = [n \in Nat |-> LET same == IF n = 0 THEN {} ELSE f[n - 1]
                                        IN  {p \in (DOMAIN pool) \X (DOMAIN pool) : Alike(pool, same, p[1], p[2])}]
           to == CHOOSE f : Def(f)
<1>1. \A same : AlikePairs(pool, same) \in X
  BY DEF AlikePairs
<1>2. first \in X /\ next \in [X -> X]
  BY <1>1
<1>3. PICK f \in [Nat -> X] : f = [n \in Nat |-> IF n = 0 THEN first ELSE next[f[n - 1]]]
  <2> HIDE DEF X, first, next
  <2>. QED BY <1>2, InRounds
<1>4. \A n \in Nat : f[n] = AlikePairs(pool, IF n = 0 THEN {} ELSE f[n - 1])
  <2> SUFFICES ASSUME NEW n \in Nat PROVE f[n] = AlikePairs(pool, IF n = 0 THEN {} ELSE f[n - 1])
    OBVIOUS
  <2>1. CASE n = 0
    BY <1>3, <2>1
  <2>2. CASE n # 0
    <3>1. n - 1 \in Nat BY <2>2
    <3>2. f[n - 1] \in X BY <3>1, <1>3
    <3>3. next[f[n - 1]] = AlikePairs(pool, f[n - 1]) BY <3>2
    <3> HIDE DEF X, first, next
    <3>4. f[n] = next[f[n - 1]] BY <1>3, <2>2
    <3>. QED BY <3>3, <3>4, <2>2
  <2>. QED BY <2>1, <2>2
<1>5. Def(f)
  <2>1. f = [n \in Nat |-> f[n]] BY <1>3
  <2>. QED BY <1>4, <2>1, Zenon DEF AlikePairs, Pairs
<1>6. Def(to)
  <2> HIDE DEF Def
  <2>. QED BY <1>5
<1>7. \A n \in Nat : to[n] = AlikePairs(pool, IF n = 0 THEN {} ELSE to[n - 1])
  <2> HIDE DEF to
  <2>. QED BY <1>6, Zenon DEF AlikePairs, Pairs
<1>8. SameValues(pool) = to[MaxDepth]
  BY DEF SameValues
<1> HIDE DEF to
<1>9. to[0] = AlikePairs(pool, {})
  BY <1>7
<1>10. \A n \in Nat : to[n + 1] = AlikePairs(pool, to[n])
  BY <1>7
<1>11. to \in [Nat -> X]
  <2>1. to = [n \in Nat |-> to[n]]
    BY <1>6
  <2> HIDE DEF Def, X
  <2>2. \A n \in Nat : to[n] \in X
    BY <1>1, <1>7
  <2>. QED BY <2>1, <2>2
<1>. QED
  BY <1>8, <1>9, <1>10, <1>11

Pool(pool) == Len(pool) \in Nat /\ DOMAIN pool = 1 .. Len(pool)

\* A pool whose values are nested on levels.
Levelled(pool, level) ==
  /\ Pool(pool)
  /\ level \in [DOMAIN pool -> 0 .. MaxDepth]
  /\ Nests(pool, level)

LEMMA ItemsBelow ==
  ASSUME NEW pool, NEW level, Levelled(pool, level), NEW x \in DOMAIN pool
  PROVE  /\ PlacesOf(pool, x) \subseteq DOMAIN pool
         /\ \A p \in PlacesOf(pool, x) : level[p] \in 0 .. MaxDepth /\ level[p] > level[x]
         /\ level[x] \in 0 .. MaxDepth
<1>1. CASE IsContainer(pool[x])
  BY <1>1 DEF Levelled, Nests, PlacesOf, Pool
<1>2. CASE ~IsContainer(pool[x])
  BY <1>2 DEF Levelled, PlacesOf, Pool
<1>. QED
  BY <1>1, <1>2

\* Which places hold the same depends only on what the places below do.
LEMMA AlikeAgrees ==
  ASSUME NEW pool, NEW level, Levelled(pool, level), NEW x \in DOMAIN pool, NEW y \in DOMAIN pool,
         NEW R, NEW S,
         \A p \in PlacesOf(pool, x), q \in PlacesOf(pool, y) : <<p, q>> \in R <=> <<p, q>> \in S
  PROVE  Alike(pool, R, x, y) <=> Alike(pool, S, x, y)
<1>1. CASE pool[x].kind = "set"
  BY <1>1 DEF Alike
<1>2. CASE pool[x].kind \in ContainerKinds \ {"set"}
  <2>1. ASSUME pool[x].kind = pool[y].kind, pool[x].count = pool[y].count, NEW k \in 1 .. pool[x].count
        PROVE  pool[x].at + k \in PlacesOf(pool, x) /\ pool[y].at + k \in PlacesOf(pool, y)
    <3>1. IsContainer(pool[x]) /\ IsContainer(pool[y])
      BY <1>2, <2>1 DEF IsContainer
    <3>. QED BY <2>1, <3>1 DEF PlacesOf, Levelled, Nests
  <2>. QED BY <1>2, <2>1 DEF Alike
<1>3. CASE pool[x].kind \notin ContainerKinds
  BY <1>3 DEF Alike, ContainerKinds
<1>. QED
  BY <1>1, <1>2, <1>3

\* Past the level of a value, no round changes what it is the same as.
LEMMA SameSettles ==
  ASSUME NEW pool, NEW level, Levelled(pool, level),
         NEW to \in [Nat -> SUBSET Pairs(pool)],
         to[0] = AlikePairs(pool, {}), \A n \in Nat : to[n + 1] = AlikePairs(pool, to[n])
  PROVE  \A n \in Nat : \A x, y \in DOMAIN pool : level[x] >= MaxDepth - n =>
           \A m \in Nat : m >= n => (<<x, y>> \in to[m] <=> <<x, y>> \in to[n])
<1> DEFINE Settled(n) == \A x, y \in DOMAIN pool : level[x] >= MaxDepth - n =>
                           \A m \in Nat : m >= n => (<<x, y>> \in to[m] <=> <<x, y>> \in to[n])
           Before(n) == IF n = 0 THEN {} ELSE to[n - 1]
           T == {n \in Nat : Settled(n)}
<1>0. MaxDepth \in Nat
  BY ExpandAssumption
<1>1. ASSUME NEW n \in Nat
      PROVE  \A x, y \in DOMAIN pool : <<x, y>> \in to[n] <=> Alike(pool, Before(n), x, y)
  <2>1. to[n] = AlikePairs(pool, Before(n))
    <3>1. CASE n = 0 BY <3>1
    <3>2. CASE n # 0
      <4>1. n - 1 \in Nat /\ (n - 1) + 1 = n BY <3>2
      <4>. QED BY <3>2, <4>1
    <3>. QED BY <3>1, <3>2
  <2>. QED BY <2>1 DEF AlikePairs, Pairs
<1>2. ASSUME NEW n \in Nat, n = 0 \/ Settled(n - 1)
      PROVE  Settled(n)
  <2> SUFFICES ASSUME NEW x \in DOMAIN pool, NEW y \in DOMAIN pool, level[x] >= MaxDepth - n,
                      NEW m \in Nat, m >= n
               PROVE  <<x, y>> \in to[m] <=> <<x, y>> \in to[n]
    OBVIOUS
  <2>1. ASSUME NEW p \in PlacesOf(pool, x), NEW q \in PlacesOf(pool, y)
        PROVE  <<p, q>> \in Before(m) <=> <<p, q>> \in Before(n)
    <3>1. level[p] \in 0 .. MaxDepth /\ level[p] > level[x] /\ level[x] \in 0 .. MaxDepth
      BY ItemsBelow
    <3>2. p \in DOMAIN pool /\ q \in DOMAIN pool
      BY ItemsBelow
    <3>3. n # 0
      BY <1>0, <3>1
    <3>4. level[p] >= MaxDepth - (n - 1) /\ n - 1 \in Nat /\ m - 1 \in Nat /\ m - 1 >= n - 1 /\ m # 0
      BY <1>0, <3>1, <3>3
    <3>5. <<p, q>> \in to[m - 1] <=> <<p, q>> \in to[n - 1]
      BY <1>2, <3>2, <3>3, <3>4
    <3>. QED BY <3>3, <3>4, <3>5
  <2> HIDE DEF Before
  <2>2. Alike(pool, Before(m), x, y) <=> Alike(pool, Before(n), x, y)
    BY <2>1, AlikeAgrees
  <2>. QED BY <1>1, <2>2
<1>3. T \in SUBSET Nat /\ 0 \in T
  BY <1>2
<1>4. ASSUME NEW n \in T PROVE n + 1 \in T
  <2>1. n + 1 \in Nat /\ (n + 1) - 1 = n /\ Settled(n) OBVIOUS
  <2> HIDE DEF Settled
  <2>. QED BY <1>2, <2>1
<1> HIDE DEF T
<1>5. \A n \in Nat : n \in T
  BY <1>3, <1>4, FromZeroOn
<1>. QED
  BY <1>5 DEF T

\* Two places hold the same value exactly where they are alike.
LEMMA SameIsAlike ==
  ASSUME NEW pool, NEW level, Levelled(pool, level), NEW x \in DOMAIN pool, NEW y \in DOMAIN pool
  PROVE  <<x, y>> \in SameValues(pool) <=> Alike(pool, SameValues(pool), x, y)
<1>0. MaxDepth \in Nat
  BY ExpandAssumption
<1>1. PICK to \in [Nat -> SUBSET Pairs(pool)] :
        /\ SameValues(pool) = to[MaxDepth]
        /\ to[0] = AlikePairs(pool, {})
        /\ \A n \in Nat : to[n + 1] = AlikePairs(pool, to[n])
  BY SameInRounds
<1>2. level[x] >= MaxDepth - MaxDepth
  BY <1>0 DEF Levelled
<1>3. <<x, y>> \in to[MaxDepth + 1] <=> <<x, y>> \in to[MaxDepth]
  <2>1. \A m \in Nat : m >= MaxDepth => (<<x, y>> \in to[m] <=> <<x, y>> \in to[MaxDepth])
    BY <1>0, <1>1, <1>2, SameSettles
  <2>. QED BY <1>0, <2>1
<1>4. to[MaxDepth + 1] = AlikePairs(pool, SameValues(pool))
  BY <1>0, <1>1
<1>. QED
  BY <1>1, <1>3, <1>4 DEF AlikePairs, Pairs

\* What holds of a place if it holds of the places in it holds of all.
LEMMA FromWithin ==
  ASSUME NEW pool, NEW level, Levelled(pool, level), NEW T,
         \A x \in DOMAIN pool : PlacesOf(pool, x) \subseteq T => x \in T
  PROVE  DOMAIN pool \subseteq T
<1> DEFINE N == {n \in Nat : \A x \in DOMAIN pool : level[x] >= MaxDepth - n => x \in T}
<1>0. MaxDepth \in Nat
  BY ExpandAssumption
<1>1. ASSUME NEW x \in DOMAIN pool
      PROVE  level[x] \in 0 .. MaxDepth /\ \A p \in PlacesOf(pool, x) :
               p \in DOMAIN pool /\ level[p] \in 0 .. MaxDepth /\ level[p] > level[x]
  BY ItemsBelow
<1>2. 0 \in N
  <2> SUFFICES ASSUME NEW x \in DOMAIN pool, level[x] >= MaxDepth PROVE x \in T
    BY <1>0
  <2>1. PlacesOf(pool, x) = {} BY <1>0, <1>1
  <2>. QED BY <2>1
<1>3. ASSUME NEW n \in N PROVE n + 1 \in N
  <2> SUFFICES ASSUME NEW x \in DOMAIN pool, level[x] >= MaxDepth - (n + 1) PROVE x \in T
    BY <1>0
  <2>1. \A p \in PlacesOf(pool, x) : p \in DOMAIN pool /\ level[p] >= MaxDepth - n
    BY <1>0, <1>1
  <2>2. PlacesOf(pool, x) \subseteq T
    BY <2>1
  <2>. QED BY <2>2
<1>4. N \in SUBSET Nat
  OBVIOUS
<1> HIDE DEF N
<1>5. MaxDepth \in N
  BY <1>0, <1>2, <1>3, <1>4, FromZeroOn
<1>. QED
  <2> SUFFICES ASSUME NEW x \in DOMAIN pool PROVE x \in T
    OBVIOUS
  <2>1. level[x] >= MaxDepth - MaxDepth
    BY <1>0, <1>1
  <2>. QED BY <1>5, <2>1 DEF N

\* Equal lists have their items in pairs.
LEMMA InPairs ==
  ASSUME NEW pool, NEW level, Levelled(pool, level), NEW x \in DOMAIN pool,
         pool[x].kind \in ContainerKinds, NEW k \in 1 .. pool[x].count
  PROVE  pool[x].at + k \in PlacesOf(pool, x)
BY DEF Levelled, Nests, PlacesOf, IsContainer

\* Every value is the same as itself, and two values that are both the same as
\* a third are the same.
LEMMA SameReflexive ==
  ASSUME NEW pool, NEW level, Levelled(pool, level)
  PROVE  \A x \in DOMAIN pool : <<x, x>> \in SameValues(pool)
<1> DEFINE T == {x \in DOMAIN pool : <<x, x>> \in SameValues(pool)}
<1>1. ASSUME NEW x \in DOMAIN pool, PlacesOf(pool, x) \subseteq T
      PROVE  <<x, x>> \in SameValues(pool)
  <2>1. Alike(pool, SameValues(pool), x, x)
    <3>1. CASE pool[x].kind = "set"
      BY <1>1, <3>1 DEF Alike
    <3>2. CASE pool[x].kind \in ContainerKinds \ {"set"}
      BY <1>1, <3>2, InPairs DEF Alike
    <3>3. CASE pool[x].kind \notin ContainerKinds
      BY <3>3 DEF Alike, ContainerKinds
    <3>. QED BY <3>1, <3>2, <3>3
  <2>. QED BY <2>1, SameIsAlike
<1> HIDE DEF T
<1>2. DOMAIN pool \subseteq T
  <2>1. \A x \in DOMAIN pool : PlacesOf(pool, x) \subseteq T => x \in T
    BY <1>1 DEF T
  <2>. QED BY <2>1, FromWithin
<1>. QED
  BY <1>2 DEF T

LEMMA SameEuclidean ==
  ASSUME NEW pool, NEW level, Levelled(pool, level)
  PROVE  \A x, y, z \in DOMAIN pool :
           <<x, z>> \in SameValues(pool) /\ <<y, z>> \in SameValues(pool) => <<x, y>> \in SameValues(pool)
<1> DEFINE same == SameValues(pool)
           T == {x \in DOMAIN pool : \A y, z \in DOMAIN pool :
                   <<x, z>> \in same /\ <<y, z>> \in same => <<x, y>> \in same}
<1>1. ASSUME NEW x \in DOMAIN pool, PlacesOf(pool, x) \subseteq T, NEW y \in DOMAIN pool, NEW z \in DOMAIN pool,
             <<x, z>> \in same, <<y, z>> \in same
      PROVE  <<x, y>> \in same
  <2>1. Alike(pool, same, x, z) /\ Alike(pool, same, y, z)
    BY <1>1, SameIsAlike
  <2>2. /\ PlacesOf(pool, x) \subseteq DOMAIN pool /\ PlacesOf(pool, y) \subseteq DOMAIN pool
        /\ PlacesOf(pool, z) \subseteq DOMAIN pool
    BY ItemsBelow
  <2>3. \A p \in PlacesOf(pool, x), q \in PlacesOf(pool, y), r \in PlacesOf(pool, z) :
          <<p, r>> \in same /\ <<q, r>> \in same => <<p, q>> \in same
    BY <1>1, <2>2
  <2>4. pool[x].kind = pool[z].kind /\ pool[y].kind = pool[z].kind
    BY <2>1 DEF Alike
  <2> HIDE DEF same
  <2>5. Alike(pool, same, x, y)
    <3>1. CASE pool[x].kind = "set"
      BY <2>1, <2>3, <2>4, <3>1, Zenon DEF Alike
    <3>2. CASE pool[x].kind \in ContainerKinds \ {"set"}
      <4>1. pool[x].count = pool[z].count /\ pool[y].count = pool[z].count
        BY <2>1, <2>4, <3>2 DEF Alike
      <4>2. ASSUME NEW k \in 1 .. pool[x].count
            PROVE  <<pool[x].at + k, pool[y].at + k>> \in same
        <5>1. /\ pool[x].at + k \in PlacesOf(pool, x) /\ pool[y].at + k \in PlacesOf(pool, y)
              /\ pool[z].at + k \in PlacesOf(pool, z)
          BY <2>4, <3>2, <4>1, InPairs
        <5>2. <<pool[x].at + k, pool[z].at + k>> \in same /\ <<pool[y].at + k, pool[z].at + k>> \in same
          BY <2>1, <2>4, <3>2, <4>1 DEF Alike
        <5>. QED BY <2>3, <5>1, <5>2
      <4>. QED BY <2>4, <3>2, <4>1, <4>2 DEF Alike
    <3>3. CASE pool[x].kind \notin ContainerKinds
      BY <2>1, <2>4, <3>3 DEF Alike, ContainerKinds
    <3>. QED BY <3>1, <3>2, <3>3
  <2>. QED BY <2>5, SameIsAlike DEF same
<1> HIDE DEF T
<1>2. DOMAIN pool \subseteq T
  <2>1. \A x \in DOMAIN pool : PlacesOf(pool, x) \subseteq T => x \in T
    BY <1>1 DEF T
  <2>. QED BY <2>1, FromWithin
<1>. QED
  BY <1>2 DEF T

LEMMA SameSymmetric ==
  ASSUME NEW pool, NEW level, Levelled(pool, level), NEW x \in DOMAIN pool, NEW y \in DOMAIN pool,
         <<x, y>> \in SameValues(pool)
  PROVE  <<y, x>> \in SameValues(pool)
BY SameReflexive, SameEuclidean

-----------------------------------------------------------------------------

LEMMA FreeInRounds ==
  ASSUME NEW pool
  PROVE  \E to \in [Nat -> SUBSET DOMAIN pool] :
           /\ WithoutRepeats(pool) = to[MaxDepth]
           /\ to[0] = {x \in DOMAIN pool : PlacesOf(pool, x) \subseteq {} /\ DistinctItems(pool, x)}
           /\ \A n \in Nat : to[n + 1] = {x \in DOMAIN pool : PlacesOf(pool, x) \subseteq to[n] /\ DistinctItems(pool, x)}
<1> DEFINE X == SUBSET DOMAIN pool
           Free(free) == {x \in DOMAIN pool : PlacesOf(pool, x) \subseteq free /\ DistinctItems(pool, x)}
           first == Free({})
           next == [free \in X |-> Free(free)]
           Def(f) == f = [n \in Nat |-> LET free == IF n = 0 THEN {} ELSE f[n - 1]
                                        IN  {x \in DOMAIN pool : PlacesOf(pool, x) \subseteq free /\ DistinctItems(pool, x)}]
           to == CHOOSE f : Def(f)
<1>1. \A free : Free(free) \in X
  OBVIOUS
<1>2. first \in X /\ next \in [X -> X]
  BY <1>1
<1>3. PICK f \in [Nat -> X] : f = [n \in Nat |-> IF n = 0 THEN first ELSE next[f[n - 1]]]
  <2> HIDE DEF X, first, next
  <2>. QED BY <1>2, InRounds
<1>4. \A n \in Nat : f[n] = Free(IF n = 0 THEN {} ELSE f[n - 1])
  <2> SUFFICES ASSUME NEW n \in Nat PROVE f[n] = Free(IF n = 0 THEN {} ELSE f[n - 1])
    OBVIOUS
  <2> HIDE DEF Free
  <2>1. CASE n = 0
    BY <1>3, <2>1
  <2>2. CASE n # 0
    <3>1. n - 1 \in Nat BY <2>2
    <3>2. f[n - 1] \in X BY <3>1, <1>3
    <3>3. next[f[n - 1]] = Free(f[n - 1]) BY <3>2
    <3> HIDE DEF X, first, next
    <3>4. f[n] = next[f[n - 1]] BY <1>3, <2>2
    <3>. QED BY <3>3, <3>4, <2>2
  <2>. QED BY <2>1, <2>2
<1>5. Def(f)
  <2>1. f = [n \in Nat |-> f[n]] BY <1>3
  <2>. QED BY <1>4, <2>1, Zenon
<1>6. Def(to)
  <2> HIDE DEF Def
  <2>. QED BY <1>5
<1>7. \A n \in Nat : to[n] = Free(IF n = 0 THEN {} ELSE to[n - 1])
  <2> HIDE DEF to
  <2>. QED BY <1>6, Zenon
<1>8. WithoutRepeats(pool) = to[MaxDepth]
  BY DEF WithoutRepeats
<1> HIDE DEF to
<1>9. to[0] = Free({})
  <2> HIDE DEF Free
  <2>. QED BY <1>7
<1>10. \A n \in Nat : to[n + 1] = Free(to[n])
  <2> HIDE DEF Free
  <2>. QED BY <1>7
<1>11. to \in [Nat -> X]
  <2>1. to = [n \in Nat |-> to[n]]
    BY <1>6
  <2> HIDE DEF Def, X, Free
  <2>2. \A n \in Nat : to[n] \in X
    BY <1>1, <1>7
  <2>. QED BY <2>1, <2>2
<1>. QED
  BY <1>8, <1>9, <1>10, <1>11

\* What a value without repeats holds has none either.
LEMMA FreeWithin ==
  ASSUME NEW pool, NEW x \in WithoutRepeats(pool)
  PROVE  x \in DOMAIN pool /\ PlacesOf(pool, x) \subseteq WithoutRepeats(pool) /\ DistinctItems(pool, x)
<1>0. MaxDepth \in Nat
  BY ExpandAssumption
<1>1. PICK to \in [Nat -> SUBSET DOMAIN pool] :
        /\ WithoutRepeats(pool) = to[MaxDepth]
        /\ to[0] = {z \in DOMAIN pool : PlacesOf(pool, z) \subseteq {} /\ DistinctItems(pool, z)}
        /\ \A n \in Nat : to[n + 1] = {z \in DOMAIN pool : PlacesOf(pool, z) \subseteq to[n] /\ DistinctItems(pool, z)}
  BY FreeInRounds
<1> DEFINE T == {n \in Nat : to[n] \subseteq to[n + 1]}
<1>2. T \in SUBSET Nat /\ 0 \in T
  <2>1. to[0 + 1] = {z \in DOMAIN pool : PlacesOf(pool, z) \subseteq to[0] /\ DistinctItems(pool, z)}
    BY <1>1
  <2>. QED BY <1>1, <2>1
<1>3. ASSUME NEW n \in T PROVE n + 1 \in T
  <2>1. /\ to[n + 1] = {z \in DOMAIN pool : PlacesOf(pool, z) \subseteq to[n] /\ DistinctItems(pool, z)}
        /\ to[(n + 1) + 1] = {z \in DOMAIN pool : PlacesOf(pool, z) \subseteq to[n + 1] /\ DistinctItems(pool, z)}
        /\ to[n] \subseteq to[n + 1]
    BY <1>1
  <2>2. to[n + 1] \subseteq to[(n + 1) + 1]
    BY <2>1
  <2>. QED BY <2>2
<1> HIDE DEF T
<1>4. MaxDepth \in T
  BY <1>0, <1>2, <1>3, FromZeroOn
<1>5. x \in to[MaxDepth + 1]
  BY <1>1, <1>4 DEF T
<1>. QED
  BY <1>0, <1>1, <1>5

\* Of two lists as long as each other, if the first has in the second for each
\* of its items one of its own, the second has nothing else.
LEMMA NoneLeftOver ==
  ASSUME NEW A, NEW B, IsFiniteSet(A), IsFiniteSet(B), NEW g \in [A -> B],
         \A p, q \in A : g[p] = g[q] => p = q
  PROVE  /\ Cardinality(A) <= Cardinality(B)
         /\ Cardinality(A) = Cardinality(B) => \A q \in B : \E p \in A : g[p] = q
<1>1. g \in Injection(A, B)
  BY DEF Injection, IsInjective
<1>. QED
  BY <1>1, FS_Injection DEF Surjection

LEMMA SetsAlike ==
  ASSUME NEW pool, NEW level, Levelled(pool, level),
         NEW x \in WithoutRepeats(pool), NEW y \in WithoutRepeats(pool),
         pool[x].kind = "set", pool[y].kind = "set"
  PROVE  /\ <<x, y>> \in SameValues(pool) => pool[x].count = pool[y].count
         /\ pool[x].count = pool[y].count =>
              (<<x, y>> \in SameValues(pool) <=>
                 \A p \in PlacesOf(pool, x) : \E q \in PlacesOf(pool, y) : <<p, q>> \in SameValues(pool))
<1> DEFINE A == PlacesOf(pool, x)
           B == PlacesOf(pool, y)
           same == SameValues(pool)
<1>1. x \in DOMAIN pool /\ y \in DOMAIN pool /\ A \subseteq DOMAIN pool /\ B \subseteq DOMAIN pool
  BY FreeWithin, ItemsBelow
<1>2. /\ \A p, q \in A : <<p, q>> \in same => p = q
      /\ \A p, q \in B : <<p, q>> \in same => p = q
  BY FreeWithin DEF DistinctItems
<1>3. /\ IsFiniteSet(A) /\ Cardinality(A) = pool[x].count
      /\ IsFiniteSet(B) /\ Cardinality(B) = pool[y].count
      /\ pool[x].count \in Nat /\ pool[y].count \in Nat
  <2>1. ASSUME NEW z \in DOMAIN pool, pool[z].kind = "set"
        PROVE  IsFiniteSet(PlacesOf(pool, z)) /\ Cardinality(PlacesOf(pool, z)) = pool[z].count /\ pool[z].count \in Nat
    <3>1. IsContainer(pool[z])
      BY <2>1 DEF IsContainer, ContainerKinds
    <3>2. pool[z].at \in Nat /\ pool[z].count \in Nat
      BY <3>1 DEF Levelled, Nests
    <3>3. PlacesOf(pool, z) = pool[z].at + 1 .. pool[z].at + pool[z].count
      BY <3>1 DEF PlacesOf
    <3>4. pool[z].at + 1 \in Int /\ pool[z].at + pool[z].count \in Int
      BY <3>2
    <3>5. /\ IsFiniteSet(pool[z].at + 1 .. pool[z].at + pool[z].count)
          /\ Cardinality(pool[z].at + 1 .. pool[z].at + pool[z].count) =
               IF pool[z].at + 1 > pool[z].at + pool[z].count THEN 0
               ELSE (pool[z].at + pool[z].count) - (pool[z].at + 1) + 1
      BY <3>4, FS_Interval
    <3>. QED BY <3>2, <3>3, <3>5
  <2>. QED BY <1>1, <2>1
<1>4. <<x, y>> \in same <=> /\ \A p \in A : \E q \in B : <<p, q>> \in same
                            /\ \A q \in B : \E p \in A : <<p, q>> \in same
  <2>1. <<x, y>> \in same <=> Alike(pool, same, x, y)
    BY <1>1, SameIsAlike
  <2>. QED BY <2>1 DEF Alike
<1>5. ASSUME \A p \in A : \E q \in B : <<p, q>> \in same
      PROVE  /\ Cardinality(A) <= Cardinality(B)
             /\ Cardinality(A) = Cardinality(B) => \A q \in B : \E p \in A : <<p, q>> \in same
  <2> DEFINE g == [p \in A |-> CHOOSE q \in B : <<p, q>> \in same]
  <2>1. \A p \in A : g[p] \in B /\ <<p, g[p]>> \in same
    <3> HIDE DEF A, B, same
    <3>. QED BY <1>5
  <2>2. g \in [A -> B]
    <3> HIDE DEF A, B, same
    <3>. QED BY <2>1, Zenon
  <2> HIDE DEF g
  <2>3. ASSUME NEW p \in A, NEW q \in A, g[p] = g[q] PROVE p = q
    <3>1. <<p, g[p]>> \in same /\ <<q, g[p]>> \in same /\ g[p] \in DOMAIN pool /\ p \in DOMAIN pool /\ q \in DOMAIN pool
      BY <1>1, <2>1, <2>3
    <3>2. <<p, q>> \in same
      BY <3>1, SameEuclidean
    <3>. QED BY <1>2, <3>2
  <2>4. /\ Cardinality(A) <= Cardinality(B)
        /\ Cardinality(A) = Cardinality(B) => \A q \in B : \E p \in A : g[p] = q
    <3> HIDE DEF A, B
    <3>. QED BY <1>3, <2>2, <2>3, NoneLeftOver
  <2>. QED BY <2>1, <2>4
<1>6. ASSUME \A q \in B : \E p \in A : <<p, q>> \in same
      PROVE  Cardinality(B) <= Cardinality(A)
  <2> DEFINE g == [q \in B |-> CHOOSE p \in A : <<p, q>> \in same]
  <2>1. \A q \in B : g[q] \in A /\ <<g[q], q>> \in same
    <3> HIDE DEF A, B, same
    <3>. QED BY <1>6
  <2>2. g \in [B -> A]
    <3> HIDE DEF A, B, same
    <3>. QED BY <2>1, Zenon
  <2> HIDE DEF g
  <2>3. ASSUME NEW p \in B, NEW q \in B, g[p] = g[q] PROVE p = q
    <3>1. <<g[p], p>> \in same /\ <<g[p], q>> \in same /\ g[p] \in DOMAIN pool /\ p \in DOMAIN pool /\ q \in DOMAIN pool
      BY <1>1, <2>1, <2>3
    <3>2. <<p, g[p]>> \in same /\ <<q, g[p]>> \in same
      BY <3>1, SameSymmetric
    <3>3. <<p, q>> \in same
      BY <3>1, <3>2, SameEuclidean
    <3>. QED BY <1>2, <3>3
  <2>4. Cardinality(B) <= Cardinality(A)
    <3> HIDE DEF A, B
    <3>. QED BY <1>3, <2>2, <2>3, NoneLeftOver
  <2>. QED BY <2>4
<1> HIDE DEF A, B, same
<1>. QED
  BY <1>3, <1>4, <1>5, <1>6 DEF A, B, same

-----------------------------------------------------------------------------
(* The values of a pool are on levels, whatever is loaded.                 *)

\* The values of a pool are on levels, and a scan goes through them level by
\* level: what is before it is all on the level it is on, or on the next.
OnLevels(level) ==
  /\ level \in [DOMAIN terms -> 0 .. MaxDepth]
  /\ Nests(terms, level)
  /\ pc = "terms" =>
       /\ depth \in 1 .. MaxDepth /\ level_end \in Nat /\ level_end <= Len(terms)
       /\ \A k \in i + 1 .. Len(terms) : level[k] = IF k <= level_end THEN depth - 1 ELSE depth
LevelsInv == Sound => \E level : OnLevels(level)

LEMMA LevelsBegin ==
  ASSUME LoadInit
  PROVE  LevelsInv
<1>1. PICK l \in Loads : terms = l.parsed /\ pc = "next"
  BY DEF LoadInit
<1>2. PICK level \in [DOMAIN terms -> 0 .. MaxDepth] : Nests(terms, level)
  BY <1>1, NestedAssumption
<1>. QED
  BY <1>1, <1>2 DEF LevelsInv, OnLevels

LEMMA LevelsElsewhere ==
  ASSUME LevelsInv, UNCHANGED terms, Sound' => Sound /\ pc' # "terms"
  PROVE  LevelsInv'
<1> SUFFICES ASSUME Sound' PROVE \E level : OnLevels(level)'
  BY DEF LevelsInv
<1>1. PICK level : OnLevels(level)
  BY DEF LevelsInv
<1>2. OnLevels(level)'
  BY <1>1 DEF OnLevels
<1>. QED
  BY <1>2

\* Where a value is placed it is no container yet.
LEMMA NewNoContainer ==
  ASSUME NEW v
  PROVE  ~IsContainer(Shallow(v))
<1>1. CASE IsContainer(v)
  BY <1>1 DEF Shallow, IsContainer, ContainerKinds
<1>2. CASE ~IsContainer(v)
  BY <1>2 DEF Shallow
<1>. QED
  BY <1>1, <1>2

LEMMA LevelsPlaced ==
  ASSUME Shapes, TermsInv, LevelsInv, pc # "terms", Sound,
         NEW values \in Seq(WireValues), PlaceValues(values), ScanTerms(Len(terms), Len(terms) + Len(values))
  PROVE  LevelsInv'
<1>1. PICK level : OnLevels(level)
  BY DEF LevelsInv
<1>0. MaxDepth \in Nat \ {0}
  BY ExpandAssumption
<1>2. /\ Len(terms') = Len(terms) + Len(values) /\ Len(values) \in Nat
      /\ Len(terms) \in Nat /\ DOMAIN terms' = 1 .. Len(terms') /\ DOMAIN terms = 1 .. Len(terms)
      /\ \A k \in 1 .. Len(terms) : terms'[k] = terms[k]
  <2>1. terms' = terms \o ShallowAll(values) /\ AnySeq(terms)
    BY DEF PlaceValues, ShallowAll, Shapes
  <2>. QED BY <2>1, ShallowValues, SeqShape
<1>3. \A k \in Len(terms) + 1 .. Len(terms') : ~IsContainer(terms'[k])
  <2>1. /\ terms \in Seq(Range(terms)) /\ values \in Seq(WireValues) /\ DOMAIN values = 1 .. Len(values)
        /\ terms' = terms \o [k \in DOMAIN values |-> Shallow(values[k])]
    BY LenProperties DEF PlaceValues, Shapes, AnySeq
  <2>2. ASSUME NEW k \in Len(terms) + 1 .. Len(terms') PROVE ~IsContainer(terms'[k])
    <3> DEFINE new == [j \in DOMAIN values |-> Shallow(values[j])]
    <3>1. new = [j \in 1 .. Len(values) |-> new[j]]
      BY <2>1
    <3>2. \A j \in 1 .. Len(values) : ~IsContainer(new[j])
      BY <2>1, NewNoContainer
    <3>3. terms' = terms \o new
      BY <2>1
    <3> HIDE DEF new
    <3>4. AnySeq(new) /\ Len(new) = Len(values)
      BY <1>2, <3>1, MadeSeq
    <3>5. \A j \in 1 .. Len(terms) + Len(new) :
             (terms \o new)[j] = IF j <= Len(terms) THEN terms[j] ELSE new[j - Len(terms)]
      BY <3>4, JoinedSeq DEF Shapes
    <3>6. k - Len(terms) \in 1 .. Len(values) /\ terms'[k] = new[k - Len(terms)]
      BY <1>2, <3>3, <3>4, <3>5
    <3>. QED BY <3>2, <3>6
  <2>. QED BY <2>2
<1> DEFINE next == [k \in DOMAIN terms' |-> IF k <= Len(terms) THEN level[k] ELSE 0]
<1>4. next \in [DOMAIN terms' -> 0 .. MaxDepth]
  BY <1>0, <1>1, <1>2 DEF OnLevels
<1>5. Nests(terms', next)
  <2> SUFFICES ASSUME NEW x \in DOMAIN terms', IsContainer(terms'[x])
               PROVE  /\ terms'[x].at \in Nat /\ terms'[x].count \in Nat
                      /\ terms'[x].at + terms'[x].count <= Len(terms')
                      /\ \A p \in PlacesOf(terms', x) : next[p] > next[x]
    BY DEF Nests
  <2>1. x \in DOMAIN terms /\ terms'[x] = terms[x]
    BY <1>2, <1>3
  <2>2. /\ terms[x].at \in Nat /\ terms[x].count \in Nat
        /\ terms[x].at + terms[x].count <= Len(terms)
        /\ \A p \in PlacesOf(terms, x) : level[p] > level[x]
    BY <1>1, <2>1 DEF OnLevels, Nests
  <2>3. PlacesOf(terms', x) = PlacesOf(terms, x) /\ PlacesOf(terms, x) \subseteq 1 .. Len(terms)
    BY <1>2, <2>1, <2>2 DEF PlacesOf
  <2>. QED BY <1>2, <2>1, <2>2, <2>3
<1>6. /\ depth' \in 1 .. MaxDepth /\ level_end' \in Nat /\ level_end' <= Len(terms')
      /\ \A k \in i' + 1 .. Len(terms') : next[k] = IF k <= level_end' THEN depth' - 1 ELSE depth'
  BY <1>0, <1>2 DEF ScanTerms
<1>7. PICK lev : lev = next
  OBVIOUS
<1> HIDE DEF next
<1>8. OnLevels(lev)'
  BY <1>4, <1>5, <1>6, <1>7 DEF OnLevels
<1>. QED
  BY <1>8 DEF LevelsInv

\* The turns of the scan.
LEMMA TurnLevels ==
  ASSUME Shapes, NEW level, OnLevels(level), Turning
  PROVE  /\ TurnDepth \in 1 .. MaxDepth /\ TurnEnd \in Nat /\ TurnEnd <= Len(terms)
         /\ i + 1 <= TurnEnd /\ i + 1 \in DOMAIN terms /\ level[i + 1] = TurnDepth - 1
         /\ \A k \in i + 2 .. Len(terms) : level[k] = IF k <= TurnEnd THEN TurnDepth - 1 ELSE TurnDepth
<1>0. MaxDepth \in Nat
  BY ExpandAssumption
<1>1. /\ Len(terms) \in Nat /\ DOMAIN terms = 1 .. Len(terms) /\ i \in Nat
  BY Pools DEF Shapes
<1>2. /\ pc = "terms" /\ i < Len(terms) /\ TurnDepth <= MaxDepth
      /\ depth \in 1 .. MaxDepth /\ level_end \in Nat /\ level_end <= Len(terms)
      /\ \A k \in i + 1 .. Len(terms) : level[k] = IF k <= level_end THEN depth - 1 ELSE depth
  BY DEF Turning, OnLevels
<1>3. CASE i >= level_end
  BY <1>0, <1>1, <1>2, <1>3 DEF TurnDepth, TurnEnd, DeeperAt
<1>4. CASE i < level_end
  BY <1>0, <1>1, <1>2, <1>4 DEF TurnDepth, TurnEnd, DeeperAt
<1>. QED
  BY <1>1, <1>2, <1>3, <1>4

LEMMA LevelsPassed ==
  ASSUME Shapes, LevelsInv, PassTerm
  PROVE  LevelsInv'
<1>1. /\ Sound /\ pc = "terms" /\ pc' = pc /\ UNCHANGED terms
      /\ i' = i + 1 /\ level_end' = TurnEnd /\ depth' = TurnDepth
  BY DEF PassTerm, Turning, Scanned, Shapes, Sound, controlVars, poolVars
<1>2. PICK level : OnLevels(level)
  BY <1>1 DEF LevelsInv
<1>3. OnLevels(level)'
  <2>1. /\ TurnDepth \in 1 .. MaxDepth /\ TurnEnd \in Nat /\ TurnEnd <= Len(terms)
        /\ \A k \in i + 2 .. Len(terms) : level[k] = IF k <= TurnEnd THEN TurnDepth - 1 ELSE TurnDepth
    BY <1>2, TurnLevels DEF PassTerm
  <2>2. (i + 1) + 1 = i + 2 /\ i \in Nat
    BY DEF Shapes
  <2>. QED BY <1>1, <1>2, <2>1, <2>2 DEF OnLevels
<1>. QED
  BY <1>3 DEF LevelsInv

LEMMA LevelsExpanded ==
  ASSUME Shapes, TermsInv, LevelsInv, ExpandTerm
  PROVE  LevelsInv'
<1>1. PICK v, n : v = terms[i + 1].source /\ n = i + 1
  OBVIOUS
<1>2. PICK list : list = [kind |-> v.kind, at |-> Len(terms), count |-> Len(v.items)]
  OBVIOUS
<1>3. /\ Len(terms) \in Nat /\ DOMAIN terms = 1 .. Len(terms) /\ AnySeq(terms) /\ i \in Nat
  BY Pools DEF Shapes
<1>4. /\ pc = "terms" /\ n \in DOMAIN terms /\ terms[n].kind = "pending" /\ Sound /\ Turning
  BY <1>1, <1>3 DEF ExpandTerm, Turning, Sound, Shapes
<1>5. v \in WireValues /\ IsContainer(v)
  BY <1>1, <1>4 DEF TermsInv
<1>6. v.items \in Seq(WireValues)
  BY <1>5, WireAssumption DEF HoldAll
<1>7. CASE UNCHANGED terms /\ (Refuse("NOMEM") \/ Refuse("MALFORMED"))
  BY <1>4, <1>7, LevelsElsewhere DEF Refuse, Sound
<1>8. CASE /\ terms' = Changed(terms, n, list) \o ShallowAll(v.items)
           /\ Scanned /\ UNCHANGED controlVars
  <2> DEFINE pool == Changed(terms, n, list)
             new == ShallowAll(v.items)
  <2>1. /\ AnySeq(pool) /\ Len(pool) = Len(terms)
        /\ \A k \in 1 .. Len(terms) : pool[k] = IF k = n THEN list ELSE terms[k]
    <3>1. AnySeq(terms) /\ n \in DOMAIN terms
      BY <1>3, <1>4
    <3>. QED BY ONLY <3>1, ChangedSeq
  <2>2. terms' = pool \o new
    BY <1>8
  <2> HIDE DEF pool
  <2>3. /\ Len(terms') = Len(terms) + Len(v.items) /\ Len(v.items) \in Nat
        /\ DOMAIN terms' = 1 .. Len(terms')
        /\ \A k \in 1 .. Len(terms) : terms'[k] = pool[k]
    <3>1. PICK p : p = terms'
      OBVIOUS
    <3>2. AnySeq(pool) /\ p = pool \o ShallowAll(v.items)
      BY <2>1, <2>2, <3>1
    <3>3. /\ Len(p) = Len(pool) + Len(v.items) /\ Len(v.items) \in Nat
          /\ DOMAIN p = 1 .. Len(p) /\ \A k \in 1 .. Len(pool) : p[k] = pool[k]
      BY <1>6, <3>2, ShallowValues
    <3>. QED BY <2>1, <3>1, <3>3
  <2>4. \A k \in Len(terms) + 1 .. Len(terms') : ~IsContainer(terms'[k])
    <3>1. DOMAIN v.items = 1 .. Len(v.items)
      BY <1>6, LenProperties
    <3>2. new = [j \in 1 .. Len(v.items) |-> new[j]]
      BY <3>1 DEF ShallowAll
    <3>3. \A j \in 1 .. Len(v.items) : ~IsContainer(new[j])
      BY <3>1, NewNoContainer DEF ShallowAll
    <3> HIDE DEF new
    <3>4. AnySeq(new) /\ Len(new) = Len(v.items)
      BY <2>3, <3>2, MadeSeq
    <3>5. \A j \in 1 .. Len(pool) + Len(new) :
             (pool \o new)[j] = IF j <= Len(pool) THEN pool[j] ELSE new[j - Len(pool)]
      BY <2>1, <3>4, JoinedSeq
    <3>6. ASSUME NEW k \in Len(terms) + 1 .. Len(terms')
          PROVE  ~IsContainer(terms'[k])
      <4>1. k - Len(terms) \in 1 .. Len(v.items) /\ terms'[k] = new[k - Len(terms)]
        BY <1>3, <2>1, <2>2, <2>3, <3>4, <3>5
      <4>. QED BY <3>3, <4>1
    <3>. QED BY <3>6
  <2>5. /\ terms'[n] = list
        /\ \A k \in 1 .. Len(terms) : k # n => terms'[k] = terms[k]
    BY <1>3, <1>4, <2>1, <2>3
  <2>6. PICK level : OnLevels(level)
    BY <1>4 DEF LevelsInv
  <2>7. /\ TurnDepth \in 1 .. MaxDepth /\ TurnEnd \in Nat /\ TurnEnd <= Len(terms)
        /\ i + 1 <= TurnEnd /\ level[n] = TurnDepth - 1
        /\ \A k \in i + 2 .. Len(terms) : level[k] = IF k <= TurnEnd THEN TurnDepth - 1 ELSE TurnDepth
    BY <1>1, <1>4, <2>6, TurnLevels
  <2> DEFINE next == [k \in DOMAIN terms' |-> IF k <= Len(terms) THEN level[k] ELSE TurnDepth]
  <2>8. next \in [DOMAIN terms' -> 0 .. MaxDepth]
    BY <1>3, <2>3, <2>6, <2>7, ExpandAssumption DEF OnLevels
  <2>9. Nests(terms', next)
    <3> SUFFICES ASSUME NEW x \in DOMAIN terms', IsContainer(terms'[x])
                 PROVE  /\ terms'[x].at \in Nat /\ terms'[x].count \in Nat
                        /\ terms'[x].at + terms'[x].count <= Len(terms')
                        /\ \A p \in PlacesOf(terms', x) : next[p] > next[x]
      BY DEF Nests
    <3>1. CASE x = n
      <4>1. terms'[x].at = Len(terms) /\ terms'[x].count = Len(v.items)
        BY <1>2, <2>5, <3>1
      <4>2. PlacesOf(terms', x) = Len(terms) + 1 .. Len(terms')
        BY <2>3, <4>1 DEF PlacesOf
      <4>. QED BY <1>3, <1>4, <2>3, <2>7, <3>1, <4>1, <4>2, ExpandAssumption
    <3>2. CASE x # n
      <4>1. x \in DOMAIN terms /\ terms'[x] = terms[x]
        BY <1>3, <2>3, <2>4, <2>5, <3>2
      <4>2. /\ terms[x].at \in Nat /\ terms[x].count \in Nat
            /\ terms[x].at + terms[x].count <= Len(terms)
            /\ \A p \in PlacesOf(terms, x) : level[p] > level[x]
        BY <2>6, <4>1 DEF OnLevels, Nests
      <4>3. PlacesOf(terms', x) = PlacesOf(terms, x) /\ PlacesOf(terms, x) \subseteq 1 .. Len(terms)
        BY <1>3, <4>1, <4>2 DEF PlacesOf
      <4>. QED BY <1>3, <2>3, <4>1, <4>2, <4>3
    <3>. QED BY <3>1, <3>2
  <2>10. /\ depth' \in 1 .. MaxDepth /\ level_end' \in Nat /\ level_end' <= Len(terms')
         /\ \A k \in i' + 1 .. Len(terms') : next[k] = IF k <= level_end' THEN depth' - 1 ELSE depth'
    <3>1. i' + 1 = i + 2 /\ level_end' = TurnEnd /\ depth' = TurnDepth
      BY <1>3, <1>8 DEF Scanned
    <3>. QED BY <1>3, <2>3, <2>7, <3>1
  <2>11. PICK lev : lev = next
    OBVIOUS
  <2> HIDE DEF next
  <2>12. OnLevels(lev)'
    BY <2>8, <2>9, <2>10, <2>11 DEF OnLevels
  <2>. QED BY <2>12 DEF LevelsInv
<1>. QED
  BY <1>1, <1>2, <1>7, <1>8 DEF ExpandTerm, ShallowAll, Changed

LEMMA LevelsGoOn ==
  ASSUME ExpandInv, LevelsInv, [Load]_expandVars
  PROVE  LevelsInv'
<1> USE DEF ExpandInv
<1>1. ASSUME LoadPredicate PROVE LevelsInv'
  <2>1. Current.terms \in Seq(WireValues) /\ pc = "next" /\ Sound
    BY <1>1, CurrentPart DEF LoadPredicate, Shapes, Sound
  <2>2. CASE UNCHANGED terms /\ (Refuse("NOMEM") \/ Refuse("MALFORMED"))
    BY <2>1, <2>2, LevelsElsewhere DEF Refuse, Sound
  <2>3. CASE PlaceValues(Current.terms) /\ ScanTerms(Len(terms), Len(terms) + Len(Current.terms))
    BY <2>1, <2>3, LevelsPlaced
  <2>. QED BY <1>1, <2>2, <2>3 DEF LoadPredicate
<1>2. ASSUME PlaceValue PROVE LevelsInv'
  <2>1. source[1].term \in WireValues /\ pc = "run" /\ Sound
    <3>1. source \in Seq(WireOps) /\ source # <<>> /\ source[1].op = "value" /\ pc = "run"
      BY <1>2 DEF PlaceValue, Shapes
    <3>2. source[1] \in WireOps
      BY <3>1, EmptySeq, LenProperties, ElementOfSeq
    <3>. QED BY <3>1, <3>2, WireAssumption DEF HoldAll, Shapes, Sound
  <2>2. CASE UNCHANGED terms /\ (Refuse("NOMEM") \/ Refuse("MALFORMED"))
    BY <2>1, <2>2, LevelsElsewhere DEF Refuse, Sound
  <2>3. CASE PlaceValues(<<source[1].term>>) /\ ScanTerms(Len(terms), Len(terms) + 1)
    <3>1. <<source[1].term>> \in Seq(WireValues) /\ Len(<<source[1].term>>) = 1
      BY <2>1
    <3>. QED BY <2>1, <2>3, <3>1, LevelsPlaced
  <2>. QED BY <1>2, <2>2, <2>3 DEF PlaceValue
<1>3. ASSUME TooDeep \/ OpTooDeep PROVE LevelsInv'
  BY <1>3, LevelsElsewhere DEF TooDeep, OpTooDeep, Refuse, Sound, poolVars
<1>4. ASSUME EndTerms PROVE LevelsInv'
  BY <1>4, LevelsElsewhere DEF EndTerms, Goto, Sound, poolVars, Shapes
<1>5. ASSUME LoadExpression \/ ExpandOp PROVE LevelsInv'
  <2>1. UNCHANGED terms /\ (Sound' => Sound /\ pc' # "terms")
    BY <1>5 DEF LoadExpression, ExpandOp, OpTurning, BeginRun, Goto, Refuse, Sound, Shapes
  <2>. QED BY <2>1, LevelsElsewhere
<1>6. ASSUME PlaceOperator \/ PlaceClosure \/ EndRun \/ PassOp \/ EndOps \/ AllLoaded PROVE LevelsInv'
  <2>1. UNCHANGED terms /\ (Sound' => Sound /\ pc' # "terms")
    BY <1>6 DEF PlaceOperator, PlaceClosure, EndRun, PassOp, EndOps, AllLoaded, OpTurning, Goto, Sound, Shapes,
                controlVars, poolVars
  <2>. QED BY <2>1, LevelsElsewhere
<1>7. CASE UNCHANGED expandVars
  <2>1. UNCHANGED <<terms, pc, status, i, level_end, depth>>
    BY <1>7 DEF expandVars, poolVars, controlVars, termScan
  <2>. QED BY <2>1 DEF LevelsInv, OnLevels, Sound
<1>. QED
  BY <1>1, <1>2, <1>3, <1>4, <1>5, <1>6, <1>7, LevelsPassed, LevelsExpanded DEF Load

-----------------------------------------------------------------------------
(* What the comparison of two values knows at each step.                   *)

\* The places of the items that a frame has asked about last.
Child(f) == IF f.a.kind = "set" THEN <<f.a.at + f.i + 1, f.b.at + f.j>>
            ELSE <<f.a.at + f.i, f.b.at + f.i>>
\* The places that the frame at k is for.
PlaceAt(k) == IF k = 1 THEN asked ELSE Child(frames[k - 1])

\* A frame that has asked: about the items i and j of two lists.
Fresh(f) == f.i = 0 /\ f.j = 0
Lists(f) == /\ f.a.kind = f.b.kind /\ f.a.kind \in ContainerKinds /\ f.a.count = f.b.count
Going(f) == /\ Lists(f)
            /\ f.a.kind = "set" => f.i < f.a.count /\ f.j \in 1 .. f.b.count
            /\ f.a.kind # "set" => f.i \in 1 .. f.a.count

Framed(f, p) ==
  /\ p \in Pairs(terms)
  /\ f = [a |-> terms[p[1]], b |-> terms[p[2]], i |-> f.i, j |-> f.j]
  /\ f.i \in Nat /\ f.j \in Nat
  /\ Fresh(f) \/ Going(f)

FramesHeld ==
  /\ asked \in Pairs(terms) /\ AnySeq(frames)
  /\ \A k \in 1 .. Len(frames) : Framed(frames[k], PlaceAt(k))
  /\ \A k \in 1 .. Len(frames) - 1 : Going(frames[k])

\* What a frame knows of the items before those.
Knows(f) ==
  LET same == SameValues(terms)
  IN  IF f.a.kind = "set"
      THEN /\ \A m \in 1 .. f.i : \E n \in 1 .. f.b.count : <<f.a.at + m, f.b.at + n>> \in same
           /\ \A n \in 1 .. f.j - 1 : <<f.a.at + f.i + 1, f.b.at + n>> \notin same
      ELSE \A m \in 1 .. f.i - 1 : <<f.a.at + m, f.b.at + m>> \in same

RepeatFree(p) == {p[1], p[2]} \subseteq WithoutRepeats(terms)
AnswersHeld ==
  /\ \A k \in 1 .. Len(frames) : RepeatFree(PlaceAt(k)) /\ (Going(frames[k]) => Knows(frames[k]))
  /\ frames # <<>> /\ Going(Top) => (last <=> Child(Top) \in SameValues(terms))
  /\ frames = <<>> => (last <=> asked \in SameValues(terms))
  /\ answer # "none" => frames = <<>> /\ answer = IF asked \in SameValues(terms) THEN "equal" ELSE "unequal"

EqInv ==
  /\ last \in BOOLEAN
  /\ asked = <<>> => frames = <<>> /\ answer = "none"
  /\ asked # <<>> => /\ pc = "stopped" /\ status = "OK" /\ FramesHeld
                     /\ RepeatFree(asked) => AnswersHeld

-----------------------------------------------------------------------------

LEMMA TakenOff ==
  ASSUME NEW s, AnySeq(s), s # <<>>, NEW t, t = SubSeq(s, 1, Len(s) - 1)
  PROVE  /\ Len(s) \in Nat \ {0} /\ AnySeq(t) /\ Len(t) = Len(s) - 1
         /\ \A k \in 1 .. Len(s) - 1 : t[k] = s[k]
<1>1. Len(s) \in Nat /\ s \in Seq(Range(s))
  BY SeqShape DEF AnySeq
<1>2. Len(s) # 0
  BY <1>1, EmptySeq
<1>3. \A k \in 1 .. Len(s) - 1 : s[k] \in Range(s)
  BY <1>1, ElementOfSeq
<1>4. t \in Seq(Range(s)) /\ Len(t) = Len(s) - 1 /\ \A k \in 1 .. Len(s) - 1 : t[k] = s[k]
  <2> DEFINE n == Len(s) - 1
  <2>1. n \in Int /\ 1 \in Int /\ \A k \in 1 .. n : s[k] \in Range(s)
    BY <1>1, <1>3
  <2> HIDE DEF n
  <2>2. /\ SubSeq(s, 1, n) \in Seq(Range(s))
        /\ Len(SubSeq(s, 1, n)) = IF 1 <= n THEN n - 1 + 1 ELSE 0
        /\ \A k \in 1 .. n - 1 + 1 : SubSeq(s, 1, n)[k] = s[1 + k - 1]
    BY <2>1, SubSeqProperties
  <2>3. t = SubSeq(s, 1, n) /\ n \in Nat /\ n = Len(s) - 1
    BY <1>1, <1>2 DEF n
  <2>4. ASSUME NEW k \in 1 .. n PROVE t[k] = s[k]
    <3>1. 1 + k - 1 = k /\ k \in 1 .. n - 1 + 1 BY <2>3
    <3>2. SubSeq(s, 1, n)[k] = s[1 + k - 1] BY <2>2, <3>1
    <3>. QED BY <2>3, <3>1, <3>2
  <2>. QED BY <2>2, <2>3, <2>4
<1>. QED
  BY <1>1, <1>2, <1>4, SomeSeq

LEMMA PutOn ==
  ASSUME NEW s, AnySeq(s), NEW x
  PROVE  /\ AnySeq(Append(s, x)) /\ Len(Append(s, x)) = Len(s) + 1 /\ Append(s, x)[Len(s) + 1] = x
         /\ \A k \in 1 .. Len(s) : Append(s, x)[k] = s[k]
<1>1. s \in Seq(Range(s) \cup {x}) /\ x \in Range(s) \cup {x}
  BY SeqMonotonic DEF AnySeq
<1>. QED
  BY <1>1, AppendProperties, AppendedSeq

LEMMA RecordChanged ==
  ASSUME NEW g, NEW i_, NEW j_, g = [a |-> g.a, b |-> g.b, i |-> g.i, j |-> g.j]
  PROVE  [[g EXCEPT !.i = i_] EXCEPT !.j = j_] = [a |-> g.a, b |-> g.b, i |-> i_, j |-> j_]
<1>1. PICK a, b, c, d : a = g.a /\ b = g.b /\ c = g.i /\ d = g.j
  OBVIOUS
<1>2. g = [a |-> a, b |-> b, i |-> c, j |-> d]
  BY <1>1
<1>3. PICK h : h = [g EXCEPT !.i = i_]
  OBVIOUS
<1>4. h = [a |-> a, b |-> b, i |-> i_, j |-> d]
  BY <1>2, <1>3
<1>5. [h EXCEPT !.j = j_] = [a |-> a, b |-> b, i |-> i_, j |-> j_]
  BY <1>4
<1>. QED
  BY <1>1, <1>3, <1>5

\* The pool of a loaded world.
LEMMA PoolNests ==
  ASSUME ExpandInv, LevelsInv, status = "OK"
  PROVE  \E level : Levelled(terms, level)
<1>1. PICK level : OnLevels(level)
  BY DEF LevelsInv, Sound
<1>. QED
  BY <1>1, Pools DEF ExpandInv, OnLevels, Levelled, Pool

\* The items a frame has asked about are in the lists it is for.
LEMMA ChildWithin ==
  ASSUME NEW level, Levelled(terms, level), NEW f, NEW p, Framed(f, p), Going(f)
  PROVE  /\ Child(f)[1] \in PlacesOf(terms, p[1]) /\ Child(f)[2] \in PlacesOf(terms, p[2])
         /\ Child(f) \in Pairs(terms)
<1>1. p[1] \in DOMAIN terms /\ p[2] \in DOMAIN terms /\ f.a = terms[p[1]] /\ f.b = terms[p[2]]
  BY DEF Framed, Pairs
<1>2. IsContainer(f.a) /\ IsContainer(f.b)
  BY DEF Going, Lists, IsContainer
<1>3. f.a.at \in Nat /\ f.a.count \in Nat /\ f.b.at \in Nat /\ f.b.count \in Nat
  BY <1>1, <1>2 DEF Levelled, Nests
<1>4. /\ PlacesOf(terms, p[1]) = f.a.at + 1 .. f.a.at + f.a.count
      /\ PlacesOf(terms, p[2]) = f.b.at + 1 .. f.b.at + f.b.count
  BY <1>1, <1>2 DEF PlacesOf
<1>5. f.i \in Nat /\ f.j \in Nat
  BY DEF Framed
<1>6. Child(f)[1] \in PlacesOf(terms, p[1]) /\ Child(f)[2] \in PlacesOf(terms, p[2])
  <2> DEFINE a == f.a.at
             b == f.b.at
             n == f.a.count
  <2>0. a \in Nat /\ b \in Nat /\ n \in Nat /\ f.b.count = n
    BY <1>3 DEF Going, Lists
  <2>1. CASE f.a.kind = "set"
    <3>1. f.i < n /\ f.j \in 1 .. n /\ Child(f)[1] = a + f.i + 1 /\ Child(f)[2] = b + f.j
      BY <2>0, <2>1 DEF Going, Child
    <3> HIDE DEF a, b, n
    <3>2. Child(f)[1] \in a + 1 .. a + n /\ Child(f)[2] \in b + 1 .. b + n
      BY <1>5, <2>0, <3>1
    <3>. QED BY <1>4, <2>0, <3>2 DEF a, b, n
  <2>2. CASE f.a.kind # "set"
    <3>1. f.i \in 1 .. n /\ Child(f)[1] = a + f.i /\ Child(f)[2] = b + f.i
      BY <2>0, <2>2 DEF Going, Child
    <3> HIDE DEF a, b, n
    <3>2. Child(f)[1] \in a + 1 .. a + n /\ Child(f)[2] \in b + 1 .. b + n
      BY <1>5, <2>0, <3>1
    <3>. QED BY <1>4, <2>0, <3>2 DEF a, b, n
  <2>. QED BY <2>1, <2>2
<1>7. Child(f) = <<Child(f)[1], Child(f)[2]>>
  BY DEF Child
<1>8. Child(f)[1] \in DOMAIN terms /\ Child(f)[2] \in DOMAIN terms
  BY <1>1, <1>6, ItemsBelow
<1>. QED
  BY <1>6, <1>7, <1>8 DEF Pairs

\* Each frame is for values a level below those of the frame before it.
LEMMA FramesDescend ==
  ASSUME NEW level, Levelled(terms, level), FramesHeld
  PROVE  \A k \in 1 .. Len(frames) : level[PlaceAt(k)[1]] >= k - 1
<1> DEFINE T == {n \in Nat : n + 1 <= Len(frames) => level[PlaceAt(n + 1)[1]] >= n}
<1>1. Len(frames) \in Nat
  BY SeqShape DEF FramesHeld
<1>2. ASSUME NEW k \in 1 .. Len(frames)
      PROVE  level[PlaceAt(k)[1]] \in 0 .. MaxDepth
  <2>1. PlaceAt(k)[1] \in DOMAIN terms
    BY DEF FramesHeld, Framed, Pairs
  <2>. QED BY <2>1 DEF Levelled
<1>3. 0 \in T
  BY <1>1, <1>2
<1>4. ASSUME NEW n \in T PROVE n + 1 \in T
  <2> SUFFICES ASSUME (n + 1) + 1 <= Len(frames) PROVE level[PlaceAt((n + 1) + 1)[1]] >= n + 1
    BY <1>1
  <2>1. n + 1 \in 1 .. Len(frames) /\ n + 1 \in 1 .. Len(frames) - 1 /\ level[PlaceAt(n + 1)[1]] >= n
    BY <1>1
  <2>2. Framed(frames[n + 1], PlaceAt(n + 1)) /\ Going(frames[n + 1])
    BY <2>1 DEF FramesHeld
  <2>3. Child(frames[n + 1])[1] \in PlacesOf(terms, PlaceAt(n + 1)[1]) /\ PlaceAt(n + 1)[1] \in DOMAIN terms
    BY <2>2, ChildWithin DEF Framed, Pairs
  <2>4. level[Child(frames[n + 1])[1]] > level[PlaceAt(n + 1)[1]] /\ level[Child(frames[n + 1])[1]] \in Nat
    BY <2>3, ItemsBelow
  <2>5. PlaceAt((n + 1) + 1) = Child(frames[n + 1])
    BY DEF PlaceAt
  <2>. QED BY <1>2, <2>1, <2>4, <2>5
<1>5. T \in SUBSET Nat
  OBVIOUS
<1> HIDE DEF T
<1>6. \A n \in Nat : n \in T
  BY <1>3, <1>4, <1>5, FromZeroOn
<1>7. ASSUME NEW k \in 1 .. Len(frames) PROVE level[PlaceAt(k)[1]] >= k - 1
  <2>1. k - 1 \in Nat /\ (k - 1) + 1 = k /\ k <= Len(frames)
    BY <1>1
  <2>2. k - 1 \in T
    BY <1>6, <2>1
  <2>. QED BY <2>1, <2>2 DEF T
<1>. QED
  BY <1>7

\* The pool stays as it is while values are compared.
LEMMA PoolStays ==
  ASSUME UNCHANGED terms
  PROVE  /\ SameValues(terms)' = SameValues(terms) /\ WithoutRepeats(terms)' = WithoutRepeats(terms)
         /\ \A p : RepeatFree(p)' <=> RepeatFree(p)
         /\ \A f : Knows(f)' <=> Knows(f)
         /\ \A f, p : Framed(f, p)' <=> Framed(f, p)
<1>1. SameValues(terms)' = SameValues(terms)
  OBVIOUS
<1>2. WithoutRepeats(terms)' = WithoutRepeats(terms)
  OBVIOUS
<1>. QED
  BY <1>1, <1>2 DEF RepeatFree, Knows, Framed, Pairs

\* The frame on top, and what it is for.
LEMMA TopFrame ==
  ASSUME EqInv, Comparing
  PROVE  /\ Len(frames) \in Nat \ {0} /\ AnySeq(frames) /\ Top = frames[Len(frames)]
         /\ Framed(Top, PlaceAt(Len(frames))) /\ FramesHeld
         /\ pc = "stopped" /\ status = "OK" /\ answer = "none"
         /\ RepeatFree(asked) => AnswersHeld
<1>1. FramesHeld /\ frames # <<>>
  BY DEF EqInv, Comparing
<1>2. Len(frames) \in Nat \ {0} /\ AnySeq(frames)
  BY <1>1, TakenOff DEF FramesHeld
<1>. QED
  BY <1>1, <1>2 DEF Top, FramesHeld, EqInv, Comparing

\* A comparison that is finished with the right answer.
LEMMA Answers ==
  ASSUME EqInv, Comparing, NEW result \in BOOLEAN, Finish(result),
         RepeatFree(asked) => (result <=> PlaceAt(Len(frames)) \in SameValues(terms))
  PROVE  EqInv'
<1> DEFINE n == Len(frames)
<1>1. /\ n \in Nat \ {0} /\ AnySeq(frames) /\ FramesHeld
      /\ pc = "stopped" /\ status = "OK" /\ answer = "none"
      /\ RepeatFree(asked) => AnswersHeld
  BY TopFrame
<1>2. /\ last' = result /\ frames' = Below /\ UNCHANGED <<terms, pc, status, asked, answer>>
  BY DEF Finish, expandVars, poolVars, controlVars
<1>3. AnySeq(frames') /\ Len(frames') = n - 1 /\ \A k \in 1 .. n - 1 : frames'[k] = frames[k]
  <2>1. frames # <<>>
    BY DEF Comparing
  <2>. QED BY <1>1, <1>2, <2>1, TakenOff DEF Below
<1>4. \A k \in 1 .. n : PlaceAt(k)' = PlaceAt(k)
  <2> SUFFICES ASSUME NEW k \in 1 .. n PROVE PlaceAt(k)' = PlaceAt(k)
    OBVIOUS
  <2>1. CASE k = 1 BY <1>2, <2>1 DEF PlaceAt
  <2>2. CASE k # 1
    <3>1. k - 1 \in 1 .. n - 1 BY <1>1, <2>2
    <3>2. frames'[k - 1] = frames[k - 1] BY <1>3, <3>1
    <3>. QED BY <2>2, <3>2 DEF PlaceAt, Child
  <2>. QED BY <2>1, <2>2
<1>5. FramesHeld'
  <2>1. \A k \in 1 .. Len(frames') : Framed(frames[k], PlaceAt(k)) /\ k \in 1 .. n
    BY <1>1, <1>3 DEF FramesHeld
  <2>2. \A k \in 1 .. Len(frames') - 1 : Going(frames[k]) /\ k \in 1 .. n - 1
    BY <1>1, <1>3 DEF FramesHeld
  <2>3. \A k \in 1 .. Len(frames') : Framed(frames[k], PlaceAt(k))'
    BY <1>2, <1>3, <1>4, <2>1, PoolStays DEF Framed, Pairs
  <2>4. asked' \in Pairs(terms)'
    BY <1>1, <1>2 DEF FramesHeld, Pairs
  <2>. QED BY <1>3, <2>2, <2>3, <2>4 DEF FramesHeld, Going, Lists, Framed, Fresh, Pairs
<1>6. ASSUME RepeatFree(asked)' PROVE AnswersHeld'
  <2>1. RepeatFree(asked) /\ AnswersHeld /\ (result <=> PlaceAt(n) \in SameValues(terms))
    BY <1>1, <1>2, <1>6 DEF RepeatFree
  <2>2. ASSUME NEW k \in 1 .. Len(frames')
        PROVE  RepeatFree(PlaceAt(k))' /\ (Going(frames'[k]) => Knows(frames[k])')
    <3>1. k \in 1 .. n /\ frames'[k] = frames[k] /\ PlaceAt(k)' = PlaceAt(k)
      BY <1>1, <1>3, <1>4
    <3>2. RepeatFree(PlaceAt(k)) /\ (Going(frames[k]) => Knows(frames[k]))
      BY <2>1, <3>1 DEF AnswersHeld
    <3>. QED BY <1>2, <3>1, <3>2 DEF RepeatFree, Knows
  <2>3. ASSUME frames' # <<>>
        PROVE  last' <=> Child(Top)' \in SameValues(terms)'
    <3>1. n - 1 \in Nat \ {0}
      BY <1>1, <1>3, <2>3, TakenOff
    <3>2. Top' = frames[n - 1]
      BY <1>3, <3>1 DEF Top
    <3>3. Child(Top)' = PlaceAt(n)
      BY <3>1, <3>2 DEF PlaceAt, Child
    <3>. QED BY <1>2, <2>1, <3>3
  <2>4. ASSUME frames' = <<>>
        PROVE  last' <=> asked' \in SameValues(terms)'
    <3>1. n = 1
      BY <1>1, <1>3, <2>4
    <3>. QED BY <1>2, <2>1, <3>1 DEF PlaceAt
  <2>5. answer' = "none"
    BY <1>1, <1>2
  <2>. QED BY <2>2, <2>3, <2>4, <2>5 DEF AnswersHeld, Going, Lists
<1>7. asked # <<>>
  BY DEF Comparing
<1>. QED
  BY <1>1, <1>2, <1>5, <1>6, <1>7 DEF EqInv

\* The comparison of two items begun, from the frame that the top becomes.
LEMMA Asks ==
  ASSUME EqInv, ExpandInv, LevelsInv, Comparing, NEW x, NEW y, NEW i_ \in Nat, NEW j_ \in Nat,
         Descend(x, y, i_, j_),
         NEW f, f = [a |-> Top.a, b |-> Top.b, i |-> i_, j |-> j_], Going(f),
         Child(f) = <<Top.a.at + x + 1, Top.b.at + y + 1>>,
         RepeatFree(asked) => Knows(f)
  PROVE  EqInv'
<1>0. PICK n, new : n = Len(frames) /\ new = Frame(Item(Top.a, x), Item(Top.b, y))
  OBVIOUS
<1> DEFINE m == [frames EXCEPT ![n].i = i_, ![n].j = j_]
<1>1. /\ n \in Nat \ {0} /\ AnySeq(frames) /\ Top = frames[n]
      /\ Framed(Top, PlaceAt(n)) /\ FramesHeld
      /\ pc = "stopped" /\ status = "OK" /\ answer = "none"
      /\ RepeatFree(asked) => AnswersHeld
  BY <1>0, TopFrame
<1>2. /\ frames' = Append(m, new) /\ UNCHANGED <<terms, pc, status, asked, last, answer>>
  BY <1>0 DEF Descend, expandVars, poolVars, controlVars
<1>3. m = Changed(frames, n, f)
  <2>1. n \in DOMAIN frames
    BY <1>0, <1>1, SeqShape
  <2>2. frames[n] = [a |-> Top.a, b |-> Top.b, i |-> Top.i, j |-> Top.j]
    BY <1>1 DEF Framed
  <2>3. [[frames[n] EXCEPT !.i = i_] EXCEPT !.j = j_] = f
    <3>1. frames[n] = [a |-> frames[n].a, b |-> frames[n].b, i |-> frames[n].i, j |-> frames[n].j]
      BY <1>1 DEF Framed
    <3>2. [[frames[n] EXCEPT !.i = i_] EXCEPT !.j = j_] = [a |-> frames[n].a, b |-> frames[n].b, i |-> i_, j |-> j_]
      BY <3>1, RecordChanged
    <3>. QED BY <1>1, <3>2
  <2>. QED BY <2>1, <2>2, <2>3 DEF Changed
<1>4. n \in DOMAIN frames
  BY <1>0, <1>1, SeqShape
<1>5. /\ AnySeq(frames') /\ Len(frames') = n + 1 /\ frames'[n + 1] = new /\ frames'[n] = f
      /\ \A k \in 1 .. n - 1 : frames'[k] = frames[k]
  <2>0. AnySeq(frames) /\ n = Len(frames)
    BY <1>0, <1>1
  <2> HIDE DEF m
  <2>1. /\ AnySeq(Changed(frames, n, f)) /\ Len(Changed(frames, n, f)) = Len(frames)
        /\ \A k \in 1 .. Len(frames) : Changed(frames, n, f)[k] = IF k = n THEN f ELSE frames[k]
    <3>1. AnySeq(frames)
      BY <2>0
    <3>. QED BY <1>4, <3>1, ChangedSeq
  <2>2. AnySeq(m) /\ Len(m) = n /\ \A k \in 1 .. n : m[k] = IF k = n THEN f ELSE frames[k]
    BY <1>3, <2>0, <2>1
  <2>3. PICK s : s = m
    OBVIOUS
  <2>4. AnySeq(s)
    BY <2>2, <2>3
  <2>5. PICK t : t = Append(s, new)
    OBVIOUS
  <2>6. AnySeq(t) /\ Len(t) = Len(s) + 1 /\ t[Len(s) + 1] = new /\ \A k \in 1 .. Len(s) : t[k] = s[k]
    BY <2>4, <2>5, PutOn
  <2>7. t = frames'
    BY <1>2, <2>3, <2>5
  <2>. QED BY <1>1, <2>2, <2>3, <2>6, <2>7
<1> HIDE DEF m
<1>6. \A k \in 1 .. n : PlaceAt(k)' = PlaceAt(k)
  <2> SUFFICES ASSUME NEW k \in 1 .. n PROVE PlaceAt(k)' = PlaceAt(k)
    OBVIOUS
  <2>1. CASE k = 1 BY <1>2, <2>1 DEF PlaceAt
  <2>2. CASE k # 1
    <3>1. k - 1 \in 1 .. n - 1 BY <1>1, <2>2
    <3>2. frames'[k - 1] = frames[k - 1] BY <1>5, <3>1
    <3>. QED BY <2>2, <3>2 DEF PlaceAt, Child
  <2>. QED BY <2>1, <2>2
<1>7. PlaceAt(n + 1)' = Child(f)
  <2>1. n + 1 # 1 /\ (n + 1) - 1 = n
    BY <1>1
  <2>2. PlaceAt(n + 1)' = Child(frames'[n])
    BY <1>2, <2>1 DEF PlaceAt, Child
  <2>. QED BY <1>5, <2>2
<1>8. Framed(f, PlaceAt(n))
  BY <1>1 DEF Framed
<1>9. PICK level : Levelled(terms, level)
  BY <1>1, PoolNests
<1>10. /\ Child(f)[1] \in PlacesOf(terms, PlaceAt(n)[1]) /\ Child(f)[2] \in PlacesOf(terms, PlaceAt(n)[2])
       /\ Child(f) \in Pairs(terms)
  BY <1>8, <1>9, ChildWithin
<1>11. Framed(new, Child(f))
  <2>1. new = [a |-> terms[Child(f)[1]], b |-> terms[Child(f)[2]], i |-> 0, j |-> 0]
    BY <1>0 DEF Frame, Item
  <2>. QED BY <1>10, <2>1 DEF Framed, Fresh
<1>12. FramesHeld'
  <2>1. ASSUME NEW k \in 1 .. Len(frames') PROVE Framed(frames'[k], PlaceAt(k)')
    <3>1. CASE k = n + 1
      BY <1>5, <1>7, <1>11, <3>1
    <3>2. CASE k = n
      BY <1>1, <1>5, <1>6, <1>8, <3>2
    <3>3. CASE k \in 1 .. n - 1
      <4>1. k \in 1 .. n BY <1>1, <3>3
      <4>. QED BY <1>0, <1>1, <1>5, <1>6, <3>3, <4>1 DEF FramesHeld
    <3>. QED BY <1>1, <1>5, <3>1, <3>2, <3>3
  <2>2. ASSUME NEW k \in 1 .. Len(frames') - 1 PROVE Going(frames'[k])
    <3>1. CASE k = n BY <1>5, <3>1
    <3>2. CASE k \in 1 .. n - 1 BY <1>0, <1>1, <1>5, <3>2 DEF FramesHeld
    <3>. QED BY <1>1, <1>5, <3>1, <3>2
  <2>3. asked' \in Pairs(terms)'
    BY <1>1, <1>2 DEF FramesHeld, Pairs
  <2>4. \A k \in 1 .. Len(frames') : Framed(frames[k], PlaceAt(k))'
    BY <1>2, <2>1 DEF Framed, Pairs
  <2>. QED BY <1>5, <2>2, <2>3, <2>4 DEF FramesHeld, Going, Lists
<1>13. ASSUME RepeatFree(asked)' PROVE AnswersHeld'
  <2>1. RepeatFree(asked) /\ AnswersHeld /\ Knows(f)
    BY <1>1, <1>2, <1>13 DEF RepeatFree
  <2>2. ASSUME NEW k \in 1 .. n PROVE RepeatFree(PlaceAt(k))
    BY <1>0, <2>1 DEF AnswersHeld
  <2>3. RepeatFree(Child(f))
    <3>1. /\ PlacesOf(terms, PlaceAt(n)[1]) \subseteq WithoutRepeats(terms)
          /\ PlacesOf(terms, PlaceAt(n)[2]) \subseteq WithoutRepeats(terms)
      BY <1>1, <2>2, FreeWithin DEF RepeatFree
    <3>. QED BY <1>10, <3>1 DEF RepeatFree
  <2>4. ASSUME NEW k \in 1 .. Len(frames')
        PROVE  RepeatFree(PlaceAt(k)') /\ (Going(frames'[k]) => Knows(frames'[k]))
    <3>1. CASE k = n + 1
      <4>1. ~Going(new)
        <5>1. new.i = 0 /\ new.j = 0
          BY <1>0 DEF Frame
        <5>. QED BY <5>1 DEF Going
      <4>. QED BY <1>5, <1>7, <2>3, <3>1, <4>1
    <3>2. CASE k = n
      BY <1>1, <1>5, <1>6, <2>1, <2>2, <3>2
    <3>3. CASE k \in 1 .. n - 1
      <4>1. k \in 1 .. n BY <1>1, <3>3
      <4>2. frames'[k] = frames[k] /\ PlaceAt(k)' = PlaceAt(k)
        BY <1>5, <1>6, <3>3, <4>1
      <4>. QED BY <1>0, <2>1, <2>2, <4>1, <4>2 DEF AnswersHeld
    <3>. QED BY <1>1, <1>5, <3>1, <3>2, <3>3
  <2>5. frames' # <<>> /\ ~Going(Top')
    <3>1. Top' = new /\ new.i = 0 /\ new.j = 0
      BY <1>0, <1>5 DEF Top, Frame
    <3>2. frames' # <<>>
      BY <1>1, <1>5, EmptySeq
    <3>. QED BY <3>1, <3>2 DEF Going
  <2>6. \A k \in 1 .. Len(frames') : RepeatFree(PlaceAt(k))' /\ (Going(frames[k])' => Knows(frames[k])')
    BY <1>2, <2>4 DEF RepeatFree, Knows, Going, Lists
  <2>7. ~Going(Top)'
    BY <2>5 DEF Going, Lists
  <2>8. answer' = "none"
    BY <1>1, <1>2
  <2>. QED BY <2>5, <2>6, <2>7, <2>8 DEF AnswersHeld
<1>14. asked # <<>> /\ last \in BOOLEAN
  BY DEF Comparing, EqInv
<1>. QED
  BY <1>1, <1>2, <1>12, <1>13, <1>14 DEF EqInv

\* Two sets of a length are the same where each item of one is in the other.
LEMMA SetsByItem ==
  ASSUME NEW pool, NEW level, Levelled(pool, level),
         NEW x \in WithoutRepeats(pool), NEW y \in WithoutRepeats(pool),
         pool[x].kind = "set", pool[y].kind = "set", pool[x].count = pool[y].count
  PROVE  <<x, y>> \in SameValues(pool) <=>
           \A m \in 1 .. pool[x].count : \E n \in 1 .. pool[y].count :
             <<pool[x].at + m, pool[y].at + n>> \in SameValues(pool)
<1>0. PICK a, b, c : a = pool[x].at /\ b = pool[y].at /\ c = pool[x].count /\ c = pool[y].count
  OBVIOUS
<1>1. x \in DOMAIN pool /\ y \in DOMAIN pool
  BY FreeWithin
<1>2. IsContainer(pool[x]) /\ IsContainer(pool[y])
  BY DEF IsContainer, ContainerKinds
<1>3. a \in Nat /\ b \in Nat /\ c \in Nat
  BY <1>0, <1>1, <1>2 DEF Levelled, Nests
<1>4. PlacesOf(pool, x) = a + 1 .. a + c /\ PlacesOf(pool, y) = b + 1 .. b + c
  BY <1>0, <1>2 DEF PlacesOf
<1>5. <<x, y>> \in SameValues(pool) <=>
        \A p \in a + 1 .. a + c : \E q \in b + 1 .. b + c : <<p, q>> \in SameValues(pool)
  <2>1. <<x, y>> \in SameValues(pool) <=>
          \A p \in PlacesOf(pool, x) : \E q \in PlacesOf(pool, y) : <<p, q>> \in SameValues(pool)
    BY SetsAlike
  <2>. QED BY <1>4, <2>1
<1>6. ASSUME NEW same
      PROVE  (\A p \in a + 1 .. a + c : \E q \in b + 1 .. b + c : <<p, q>> \in same) <=>
             (\A m \in 1 .. c : \E n \in 1 .. c : <<a + m, b + n>> \in same)
  <2>1. ASSUME \A p \in a + 1 .. a + c : \E q \in b + 1 .. b + c : <<p, q>> \in same,
               NEW m \in 1 .. c
        PROVE  \E n \in 1 .. c : <<a + m, b + n>> \in same
    <3>1. PICK q \in b + 1 .. b + c : <<a + m, q>> \in same
      BY <1>3, <2>1
    <3>2. q - b \in 1 .. c /\ b + (q - b) = q
      BY <1>3
    <3>. QED BY <3>1, <3>2
  <2>2. ASSUME \A m \in 1 .. c : \E n \in 1 .. c : <<a + m, b + n>> \in same,
               NEW p \in a + 1 .. a + c
        PROVE  \E q \in b + 1 .. b + c : <<p, q>> \in same
    <3>1. p - a \in 1 .. c /\ a + (p - a) = p
      BY <1>3
    <3>2. PICK n \in 1 .. c : <<a + (p - a), b + n>> \in same
      BY <2>2, <3>1
    <3>3. b + n \in b + 1 .. b + c
      BY <1>3
    <3>. QED BY <3>1, <3>2, <3>3
  <2>. QED BY <2>1, <2>2
<1>. QED
  BY <1>0, <1>5, <1>6

\* Two arrays, or two maps, are the same where they are place by place.
LEMMA ListsByItem ==
  ASSUME NEW pool, NEW level, Levelled(pool, level), NEW x \in DOMAIN pool, NEW y \in DOMAIN pool,
         pool[x].kind = pool[y].kind, IsContainer(pool[x]), pool[x].kind # "set"
  PROVE  <<x, y>> \in SameValues(pool) <=>
           /\ pool[x].count = pool[y].count
           /\ \A m \in 1 .. pool[x].count : <<pool[x].at + m, pool[y].at + m>> \in SameValues(pool)
<1>1. <<x, y>> \in SameValues(pool) <=> Alike(pool, SameValues(pool), x, y)
  BY SameIsAlike
<1>. QED
  BY <1>1 DEF Alike, IsContainer

\* Values of two kinds are not the same, nor are lists of two lengths; two that
\* hold no others are where their texts are.
LEMMA OthersAlike ==
  ASSUME NEW pool, NEW level, Levelled(pool, level), NEW x \in DOMAIN pool, NEW y \in DOMAIN pool
  PROVE  /\ pool[x].kind # pool[y].kind => <<x, y>> \notin SameValues(pool)
         /\ pool[x].kind = pool[y].kind /\ ~IsContainer(pool[x]) =>
              (<<x, y>> \in SameValues(pool) <=> pool[x].text = pool[y].text)
<1>1. <<x, y>> \in SameValues(pool) <=> Alike(pool, SameValues(pool), x, y)
  BY SameIsAlike
<1>2. Alike(pool, SameValues(pool), x, y) => pool[x].kind = pool[y].kind
  BY DEF Alike
<1>3. ASSUME pool[x].kind = pool[y].kind, ~IsContainer(pool[x])
      PROVE  Alike(pool, SameValues(pool), x, y) <=> pool[x].text = pool[y].text
  BY <1>3 DEF Alike, IsContainer, ContainerKinds
<1>. QED
  BY <1>1, <1>2, <1>3

-----------------------------------------------------------------------------

\* The frame on top, and the pool it is in.
LEMMA TopKnown ==
  ASSUME EqInv, ExpandInv, LevelsInv, Comparing
  PROVE  \E x, y, level :
           /\ Levelled(terms, level) /\ PlaceAt(Len(frames)) = <<x, y>>
           /\ x \in DOMAIN terms /\ y \in DOMAIN terms
           /\ Top.a = terms[x] /\ Top.b = terms[y] /\ Top.i \in Nat /\ Top.j \in Nat
           /\ Fresh(Top) \/ Going(Top)
           /\ IsContainer(Top.a) => Top.a.at \in Nat /\ Top.a.count \in Nat
           /\ IsContainer(Top.b) => Top.b.at \in Nat /\ Top.b.count \in Nat
           /\ last \in BOOLEAN
           /\ RepeatFree(asked) =>
                /\ x \in WithoutRepeats(terms) /\ y \in WithoutRepeats(terms)
                /\ Going(Top) => Knows(Top) /\ (last <=> Child(Top) \in SameValues(terms))
<1>1. /\ Len(frames) \in Nat \ {0} /\ Top = frames[Len(frames)]
      /\ Framed(Top, PlaceAt(Len(frames))) /\ FramesHeld /\ status = "OK"
      /\ RepeatFree(asked) => AnswersHeld
  BY TopFrame
<1>2. PICK level : Levelled(terms, level)
  BY <1>1, PoolNests
<1>3. PICK x, y : PlaceAt(Len(frames)) = <<x, y>> /\ x \in DOMAIN terms /\ y \in DOMAIN terms
  BY <1>1 DEF Framed, Pairs
<1>4. /\ Top.a = terms[x] /\ Top.b = terms[y] /\ Top.i \in Nat /\ Top.j \in Nat
      /\ Fresh(Top) \/ Going(Top)
  <2>1. PICK p, f : p = PlaceAt(Len(frames)) /\ f = Top
    OBVIOUS
  <2>2. Framed(f, p) /\ p = <<x, y>>
    BY <1>1, <1>3, <2>1
  <2>3. /\ f.a = terms[x] /\ f.b = terms[y] /\ f.i \in Nat /\ f.j \in Nat
        /\ Fresh(f) \/ Going(f)
    BY <2>2 DEF Framed
  <2>. QED BY <2>1, <2>3
<1>5. /\ IsContainer(Top.a) => Top.a.at \in Nat /\ Top.a.count \in Nat
      /\ IsContainer(Top.b) => Top.b.at \in Nat /\ Top.b.count \in Nat
  BY <1>2, <1>3, <1>4 DEF Levelled, Nests
<1>6. ASSUME RepeatFree(asked)
      PROVE  /\ x \in WithoutRepeats(terms) /\ y \in WithoutRepeats(terms)
             /\ Going(Top) => Knows(Top) /\ (last <=> Child(Top) \in SameValues(terms))
  <2>1. AnswersHeld /\ Len(frames) \in 1 .. Len(frames)
    BY <1>1, <1>6
  <2>2. RepeatFree(PlaceAt(Len(frames))) /\ (Going(Top) => Knows(Top))
    BY <1>1, <2>1 DEF AnswersHeld
  <2>3. x \in WithoutRepeats(terms) /\ y \in WithoutRepeats(terms)
    BY <1>3, <2>2 DEF RepeatFree
  <2>4. Going(Top) => (last <=> Child(Top) \in SameValues(terms))
    BY <2>1 DEF AnswersHeld, Comparing
  <2>. QED BY <2>2, <2>3, <2>4
<1>7. last \in BOOLEAN
  BY DEF EqInv
<1>. QED
  BY <1>2, <1>3, <1>4, <1>5, <1>6, <1>7

\* What the search of a set has come to.
LEMMA SetKnown ==
  ASSUME EqInv, ExpandInv, LevelsInv, Descends, Top.a.kind = "set"
  PROVE  /\ Sought \in 0 .. Top.a.count /\ SearchFrom \in 0 .. Top.b.count
         /\ RepeatFree(asked) =>
              /\ \A m \in 1 .. Sought : \E n \in 1 .. Top.b.count :
                   <<Top.a.at + m, Top.b.at + n>> \in SameValues(terms)
              /\ \A n \in 1 .. SearchFrom : <<Top.a.at + Sought + 1, Top.b.at + n>> \notin SameValues(terms)
<1>0. PICK f, same : f = Top /\ same = SameValues(terms)
  OBVIOUS
<1>1. /\ f.i \in Nat /\ f.j \in Nat /\ (Fresh(f) \/ Going(f)) /\ last \in BOOLEAN
      /\ RepeatFree(asked) /\ Going(f) => Knows(f) /\ (last <=> Child(f) \in same)
  BY <1>0, TopKnown DEF Descends
<1>2. f.a.at \in Nat /\ f.b.at \in Nat /\ f.a.count \in Nat /\ f.b.count = f.a.count
  <2>1. IsContainer(Top.a) /\ IsContainer(Top.b) /\ Top.a.count = Top.b.count
    BY DEF Descends, AlikeLists, IsContainer
  <2>. QED BY <1>0, <2>1, TopKnown DEF Descends
<1>3. PICK i_, j_, c, a, b : i_ = f.i /\ j_ = f.j /\ c = f.a.count /\ a = f.a.at /\ b = f.b.at
  OBVIOUS
<1>4. /\ i_ \in Nat /\ j_ \in Nat /\ a \in Nat /\ b \in Nat /\ c \in Nat
      /\ \/ i_ = 0 /\ j_ = 0
         \/ Going(f) /\ i_ < c /\ j_ \in 1 .. c
  <2>1. f.a.kind = "set"
    BY <1>0
  <2>2. i_ \in Nat /\ j_ \in Nat /\ a \in Nat /\ b \in Nat /\ c \in Nat /\ f.b.count = c
    <3>0. f.i \in Nat /\ f.j \in Nat
      BY <1>0, TopKnown DEF Descends
    <3>1. i_ \in Nat /\ j_ \in Nat BY <1>3, <3>0
    <3>2. a \in Nat /\ b \in Nat BY <1>2, <1>3
    <3>3. c \in Nat /\ f.b.count = c BY <1>2, <1>3
    <3>. QED BY <3>1, <3>2, <3>3
  <2>3. Fresh(f) => i_ = 0 /\ j_ = 0
    BY <1>3 DEF Fresh
  <2>4. Going(f) => i_ < c /\ j_ \in 1 .. c
    BY <1>3, <2>1, <2>2 DEF Going
  <2>. QED BY <1>1, <2>2, <2>3, <2>4
<1>5. PICK s, from : s = Sought /\ from = SearchFrom
  OBVIOUS
<1>6. /\ s = IF j_ > 0 /\ last THEN i_ + 1 ELSE i_
      /\ from = IF j_ > 0 /\ last THEN 0 ELSE j_
  BY <1>0, <1>3, <1>5 DEF Sought, SearchFrom, Matched
<1>7. s \in 0 .. c /\ from \in 0 .. c
  BY <1>4, <1>6
<1>8. ASSUME RepeatFree(asked)
      PROVE  /\ \A m \in 1 .. s : \E n \in 1 .. c : <<a + m, b + n>> \in same
             /\ \A n \in 1 .. from : <<a + s + 1, b + n>> \notin same
  <2>1. CASE i_ = 0 /\ j_ = 0
    BY <1>6, <2>1
  <2>2. CASE Going(f) /\ i_ < c /\ j_ \in 1 .. c
    <3>1. /\ \A m \in 1 .. i_ : \E n \in 1 .. c : <<a + m, b + n>> \in same
          /\ \A n \in 1 .. j_ - 1 : <<a + i_ + 1, b + n>> \notin same
      BY <1>0, <1>1, <1>2, <1>3, <1>8, <2>2 DEF Knows
    <3>2. last <=> <<a + i_ + 1, b + j_>> \in same
      BY <1>0, <1>1, <1>3, <1>8, <2>2 DEF Child
    <3>3. CASE last
      <4>1. s = i_ + 1 /\ from = 0
        BY <1>6, <2>2, <3>3
      <4>2. ASSUME NEW m \in 1 .. s PROVE \E n \in 1 .. c : <<a + m, b + n>> \in same
        <5>1. CASE m \in 1 .. i_ BY <3>1, <5>1
        <5>2. CASE m = i_ + 1
          <6>1. a + m = a + i_ + 1 BY <1>4, <5>2
          <6>. QED BY <2>2, <3>2, <3>3, <6>1
        <5>. QED BY <1>4, <4>1, <5>1, <5>2
      <4>. QED BY <4>1, <4>2
    <3>4. CASE ~last
      <4>1. s = i_ /\ from = j_
        BY <1>6, <3>4
      <4>2. ASSUME NEW n \in 1 .. j_ PROVE <<a + i_ + 1, b + n>> \notin same
        <5>1. CASE n \in 1 .. j_ - 1 BY <3>1, <5>1
        <5>2. CASE n = j_ BY <3>2, <3>4, <5>2
        <5>. QED BY <2>2, <5>1, <5>2
      <4>. QED BY <3>1, <4>1, <4>2
    <3>. QED BY <3>3, <3>4
  <2>. QED BY <1>4, <2>1, <2>2
<1>. QED
  BY <1>0, <1>2, <1>3, <1>5, <1>7, <1>8

\* What the comparison of two arrays or maps has come to.
LEMMA ListKnown ==
  ASSUME EqInv, ExpandInv, LevelsInv, Descends, Top.a.kind # "set"
  PROVE  /\ Top.i \in 0 .. Top.a.count
         /\ RepeatFree(asked) =>
              /\ \A m \in 1 .. Top.i - 1 : <<Top.a.at + m, Top.b.at + m>> \in SameValues(terms)
              /\ Top.i > 0 => (last <=> <<Top.a.at + Top.i, Top.b.at + Top.i>> \in SameValues(terms))
<1>0. PICK f, same : f = Top /\ same = SameValues(terms)
  OBVIOUS
<1>1. /\ f.i \in Nat /\ (Fresh(f) \/ Going(f))
      /\ RepeatFree(asked) /\ Going(f) => Knows(f) /\ (last <=> Child(f) \in same)
  BY <1>0, TopKnown DEF Descends
<1>2. f.a.count \in Nat
  <2>1. IsContainer(Top.a)
    BY DEF Descends, AlikeLists
  <2>. QED BY <1>0, <2>1, TopKnown DEF Descends
<1>3. f.a.kind # "set"
  BY <1>0
<1>4. CASE Fresh(f)
  <2>1. f.i = 0 BY <1>4 DEF Fresh
  <2>. QED BY <1>0, <1>2, <2>1
<1>5. CASE Going(f)
  <2>1. f.i \in 1 .. f.a.count
    BY <1>3, <1>5 DEF Going
  <2>2. RepeatFree(asked) => \A m \in 1 .. f.i - 1 : <<f.a.at + m, f.b.at + m>> \in same
    BY <1>0, <1>1, <1>3, <1>5 DEF Knows
  <2>3. RepeatFree(asked) => (last <=> <<f.a.at + f.i, f.b.at + f.i>> \in same)
    BY <1>1, <1>3, <1>5 DEF Child
  <2>. QED BY <1>0, <1>2, <2>1, <2>2, <2>3
<1>. QED
  BY <1>1, <1>4, <1>5

LEMMA EqDiffers ==
  ASSUME EqInv, ExpandInv, LevelsInv, Differ
  PROVE  EqInv'
<1>1. Comparing /\ Finish(FALSE)
  BY DEF Differ
<1>2. PICK x, y, level :
        /\ Levelled(terms, level) /\ PlaceAt(Len(frames)) = <<x, y>>
        /\ x \in DOMAIN terms /\ y \in DOMAIN terms /\ Top.a = terms[x] /\ Top.b = terms[y]
        /\ RepeatFree(asked) => x \in WithoutRepeats(terms) /\ y \in WithoutRepeats(terms)
  BY <1>1, TopKnown
<1>3. ASSUME RepeatFree(asked)
      PROVE  <<x, y>> \notin SameValues(terms)
  <2>1. CASE Top.a.kind # Top.b.kind
    BY <1>2, <2>1, OthersAlike
  <2>2. CASE Top.a.kind = Top.b.kind /\ IsContainer(Top.a) /\ Top.a.count # Top.b.count
    <3>1. CASE Top.a.kind = "set"
      <4>1. /\ x \in WithoutRepeats(terms) /\ y \in WithoutRepeats(terms) /\ Levelled(terms, level)
            /\ terms[x].kind = "set" /\ terms[y].kind = "set" /\ terms[x].count # terms[y].count
        BY <1>2, <1>3, <2>2, <3>1
      <4>. QED BY <4>1, SetsAlike
    <3>2. CASE Top.a.kind # "set"
      BY <1>2, <2>2, <3>2, ListsByItem
    <3>. QED BY <3>1, <3>2
  <2>. QED BY <2>1, <2>2 DEF Differ
<1>4. RepeatFree(asked) => (FALSE <=> PlaceAt(Len(frames)) \in SameValues(terms))
  BY <1>2, <1>3
<1>5. FALSE \in BOOLEAN
  OBVIOUS
<1>. QED
  BY <1>1, <1>4, <1>5, Answers

LEMMA EqScalars ==
  ASSUME EqInv, ExpandInv, LevelsInv, SameScalar
  PROVE  EqInv'
<1>1. /\ Comparing /\ Finish(Top.a.text = Top.b.text)
      /\ Top.a.kind = Top.b.kind /\ ~IsContainer(Top.a)
  BY DEF SameScalar
<1>2. PICK x, y, level :
        /\ Levelled(terms, level) /\ PlaceAt(Len(frames)) = <<x, y>>
        /\ x \in DOMAIN terms /\ y \in DOMAIN terms /\ Top.a = terms[x] /\ Top.b = terms[y]
  BY <1>1, TopKnown
<1>3. <<x, y>> \in SameValues(terms) <=> Top.a.text = Top.b.text
  BY <1>1, <1>2, OthersAlike
<1>4. PICK result : result = (Top.a.text = Top.b.text)
  OBVIOUS
<1>5. result \in BOOLEAN /\ Finish(result)
  BY <1>1, <1>4
<1>6. RepeatFree(asked) => (result <=> PlaceAt(Len(frames)) \in SameValues(terms))
  BY <1>2, <1>3, <1>4
<1>. QED
  BY <1>1, <1>5, <1>6, Answers

LEMMA EqSetsDone ==
  ASSUME EqInv, ExpandInv, LevelsInv, SetDone
  PROVE  EqInv'
<1>1. /\ Comparing /\ Finish(TRUE) /\ Descends /\ AlikeLists /\ Top.a.kind = "set"
      /\ Sought >= Top.a.count
  BY DEF SetDone, Descends
<1>2. PICK x, y, level :
        /\ Levelled(terms, level) /\ PlaceAt(Len(frames)) = <<x, y>>
        /\ x \in DOMAIN terms /\ y \in DOMAIN terms /\ Top.a = terms[x] /\ Top.b = terms[y]
        /\ IsContainer(Top.a) => Top.a.at \in Nat /\ Top.a.count \in Nat
        /\ RepeatFree(asked) => x \in WithoutRepeats(terms) /\ y \in WithoutRepeats(terms)
  BY <1>1, TopKnown
<1>3. Top.b.kind = "set" /\ Top.b.count = Top.a.count /\ Top.a.count \in Nat
  BY <1>1, <1>2 DEF AlikeLists
<1>4. ASSUME RepeatFree(asked)
      PROVE  <<x, y>> \in SameValues(terms)
  <2>1. /\ Sought \in 0 .. Top.a.count
        /\ \A m \in 1 .. Sought : \E n \in 1 .. Top.b.count :
             <<Top.a.at + m, Top.b.at + n>> \in SameValues(terms)
    BY <1>1, <1>4, SetKnown
  <2>2. Sought = Top.a.count
    BY <1>1, <1>3, <2>1
  <2>3. \A m \in 1 .. Top.a.count : \E n \in 1 .. Top.b.count :
          <<Top.a.at + m, Top.b.at + n>> \in SameValues(terms)
    BY <2>1, <2>2
  <2>. QED BY <1>1, <1>2, <1>3, <1>4, <2>3, SetsByItem
<1>5. RepeatFree(asked) => (TRUE <=> PlaceAt(Len(frames)) \in SameValues(terms))
  BY <1>2, <1>4
<1>. QED
  BY <1>1, <1>5, Answers

LEMMA EqSetsMissing ==
  ASSUME EqInv, ExpandInv, LevelsInv, SetMissing
  PROVE  EqInv'
<1>1. /\ Comparing /\ Finish(FALSE) /\ Descends /\ AlikeLists /\ Top.a.kind = "set"
      /\ Sought < Top.a.count /\ SearchFrom >= Top.b.count
  BY DEF SetMissing, Descends
<1>2. PICK x, y, level :
        /\ Levelled(terms, level) /\ PlaceAt(Len(frames)) = <<x, y>>
        /\ x \in DOMAIN terms /\ y \in DOMAIN terms /\ Top.a = terms[x] /\ Top.b = terms[y]
        /\ IsContainer(Top.a) => Top.a.at \in Nat /\ Top.a.count \in Nat
        /\ RepeatFree(asked) => x \in WithoutRepeats(terms) /\ y \in WithoutRepeats(terms)
  BY <1>1, TopKnown
<1>3. Top.b.kind = "set" /\ Top.b.count = Top.a.count /\ Top.a.count \in Nat /\ Top.a.at \in Nat
  BY <1>1, <1>2 DEF AlikeLists
<1>4. ASSUME RepeatFree(asked)
      PROVE  <<x, y>> \notin SameValues(terms)
  <2>1. /\ Sought \in 0 .. Top.a.count /\ SearchFrom \in 0 .. Top.b.count
        /\ \A n \in 1 .. SearchFrom : <<Top.a.at + Sought + 1, Top.b.at + n>> \notin SameValues(terms)
    BY <1>1, <1>4, SetKnown
  <2>2. PICK s, a, c : s = Sought /\ a = Top.a.at /\ c = Top.a.count
    OBVIOUS
  <2>3. s + 1 \in 1 .. c /\ a + (s + 1) = a + s + 1 /\ SearchFrom = c
    BY <1>1, <1>3, <2>1, <2>2
  <2>4. \A n \in 1 .. c : <<a + (s + 1), Top.b.at + n>> \notin SameValues(terms)
    BY <2>1, <2>2, <2>3
  <2>5. ~ \A m \in 1 .. Top.a.count : \E n \in 1 .. Top.b.count :
            <<Top.a.at + m, Top.b.at + n>> \in SameValues(terms)
    BY <1>3, <2>2, <2>3, <2>4
  <2>. QED BY <1>1, <1>2, <1>3, <1>4, <2>5, SetsByItem
<1>5. RepeatFree(asked) => (FALSE <=> PlaceAt(Len(frames)) \in SameValues(terms))
  BY <1>2, <1>4
<1>6. FALSE \in BOOLEAN
  OBVIOUS
<1>. QED
  BY <1>1, <1>5, <1>6, Answers

LEMMA EqListsDiffer ==
  ASSUME EqInv, ExpandInv, LevelsInv, ListDiffers
  PROVE  EqInv'
<1>1. /\ Comparing /\ Finish(FALSE) /\ Descends /\ AlikeLists /\ Top.a.kind # "set"
      /\ Top.i > 0 /\ ~last
  BY DEF ListDiffers, Descends
<1>2. PICK x, y, level :
        /\ Levelled(terms, level) /\ PlaceAt(Len(frames)) = <<x, y>>
        /\ x \in DOMAIN terms /\ y \in DOMAIN terms /\ Top.a = terms[x] /\ Top.b = terms[y]
        /\ Top.i \in Nat /\ (IsContainer(Top.a) => Top.a.at \in Nat /\ Top.a.count \in Nat)
  BY <1>1, TopKnown
<1>3. ASSUME RepeatFree(asked)
      PROVE  <<x, y>> \notin SameValues(terms)
  <2>1. Top.i \in 1 .. Top.a.count /\ <<Top.a.at + Top.i, Top.b.at + Top.i>> \notin SameValues(terms)
    BY <1>1, <1>2, <1>3, ListKnown
  <2>. QED BY <1>1, <1>2, <2>1, ListsByItem DEF AlikeLists
<1>4. RepeatFree(asked) => (FALSE <=> PlaceAt(Len(frames)) \in SameValues(terms))
  BY <1>2, <1>3
<1>5. FALSE \in BOOLEAN
  OBVIOUS
<1>. QED
  BY <1>1, <1>4, <1>5, Answers

LEMMA EqListsDone ==
  ASSUME EqInv, ExpandInv, LevelsInv, ListDone
  PROVE  EqInv'
<1>1. /\ Comparing /\ Finish(TRUE) /\ Descends /\ AlikeLists /\ Top.a.kind # "set"
      /\ Top.i = 0 \/ last
      /\ Top.i >= Top.a.count
  BY DEF ListDone, Descends
<1>2. PICK x, y, level :
        /\ Levelled(terms, level) /\ PlaceAt(Len(frames)) = <<x, y>>
        /\ x \in DOMAIN terms /\ y \in DOMAIN terms /\ Top.a = terms[x] /\ Top.b = terms[y]
        /\ Top.i \in Nat /\ (IsContainer(Top.a) => Top.a.at \in Nat /\ Top.a.count \in Nat)
  BY <1>1, TopKnown
<1>3. ASSUME RepeatFree(asked)
      PROVE  <<x, y>> \in SameValues(terms)
  <2>1. /\ Top.i \in 0 .. Top.a.count
        /\ \A m \in 1 .. Top.i - 1 : <<Top.a.at + m, Top.b.at + m>> \in SameValues(terms)
        /\ Top.i > 0 => <<Top.a.at + Top.i, Top.b.at + Top.i>> \in SameValues(terms)
    BY <1>1, <1>3, ListKnown
  <2>2. PICK c : c = Top.a.count /\ c \in Nat /\ Top.i = c
    BY <1>1, <1>2, <2>1 DEF AlikeLists
  <2>3. ASSUME NEW m \in 1 .. c PROVE <<Top.a.at + m, Top.b.at + m>> \in SameValues(terms)
    <3>1. CASE m = c BY <2>1, <2>2, <3>1
    <3>2. CASE m # c
      <4>1. m \in 1 .. c - 1 BY <2>2, <3>2
      <4>. QED BY <2>1, <2>2, <4>1
    <3>. QED BY <3>1, <3>2
  <2>. QED BY <1>1, <1>2, <2>2, <2>3, ListsByItem DEF AlikeLists
<1>4. RepeatFree(asked) => (TRUE <=> PlaceAt(Len(frames)) \in SameValues(terms))
  BY <1>2, <1>3
<1>. QED
  BY <1>1, <1>4, Answers

LEMMA EqSetsSearch ==
  ASSUME EqInv, ExpandInv, LevelsInv, SetSearch
  PROVE  EqInv'
<1>1. /\ Comparing /\ Descends /\ AlikeLists /\ Top.a.kind = "set"
      /\ Sought < Top.a.count /\ SearchFrom < Top.b.count
      /\ Descend(Sought, SearchFrom, Sought, SearchFrom + 1)
  BY DEF SetSearch, Descends
<1>2. PICK s, from, a, b, c, f :
        /\ s = Sought /\ from = SearchFrom /\ a = Top.a.at /\ b = Top.b.at /\ c = Top.a.count
        /\ f = [a |-> Top.a, b |-> Top.b, i |-> s, j |-> from + 1]
  OBVIOUS
<1>3. a \in Nat /\ b \in Nat /\ c \in Nat /\ Top.b.count = c /\ Top.b.kind = "set"
  <2>1. IsContainer(Top.a) /\ IsContainer(Top.b) /\ Top.b.kind = "set" /\ Top.b.count = Top.a.count
    BY <1>1 DEF AlikeLists, IsContainer
  <2>2. Top.a.at \in Nat /\ Top.b.at \in Nat /\ Top.a.count \in Nat
    BY <1>1, <2>1, TopKnown
  <2>. QED BY <1>2, <2>1, <2>2
<1>4. s \in Nat /\ from \in Nat /\ s < c /\ from < c /\ from + 1 \in Nat /\ from + 1 \in 1 .. c
  <2>1. Sought \in 0 .. Top.a.count /\ SearchFrom \in 0 .. Top.b.count
    BY <1>1, SetKnown
  <2>. QED BY <1>1, <1>2, <1>3, <2>1
<1>5. f.a = Top.a /\ f.b = Top.b /\ f.i = s /\ f.j = from + 1
  BY <1>2
<1>6. Going(f)
  BY <1>1, <1>2, <1>3, <1>4, <1>5 DEF Going, Lists, ContainerKinds
<1>7. Child(f) = <<Top.a.at + s + 1, Top.b.at + from + 1>>
  <2>1. b + (from + 1) = b + from + 1
    BY <1>3, <1>4
  <2>. QED BY <1>1, <1>2, <1>5, <2>1 DEF Child
<1>8. RepeatFree(asked) => Knows(f)
  <2>1. ASSUME RepeatFree(asked)
        PROVE  /\ \A m \in 1 .. s : \E n \in 1 .. c : <<a + m, b + n>> \in SameValues(terms)
               /\ \A n \in 1 .. (from + 1) - 1 : <<a + s + 1, b + n>> \notin SameValues(terms)
    <3>1. (from + 1) - 1 = from
      BY <1>4
    <3>. QED BY <1>1, <1>2, <1>3, <2>1, <3>1, SetKnown
  <2>. QED BY <1>1, <1>2, <1>3, <1>5, <2>1 DEF Knows
<1>9. Descend(s, from, s, from + 1)
  BY <1>1, <1>2
<1>10. f = [a |-> Top.a, b |-> Top.b, i |-> s, j |-> from + 1]
  BY <1>2
<1>. QED
  BY <1>1, <1>4, <1>6, <1>7, <1>8, <1>9, <1>10, Asks

LEMMA EqListsNext ==
  ASSUME EqInv, ExpandInv, LevelsInv, ListNext
  PROVE  EqInv'
<1>1. /\ Comparing /\ Descends /\ AlikeLists /\ Top.a.kind # "set"
      /\ Top.i = 0 \/ last
      /\ Top.i < Top.a.count
      /\ Descend(Top.i, Top.i, Top.i + 1, Top.j)
  BY DEF ListNext, Descends
<1>2. PICK k, j_, a, b, c, f :
        /\ k = Top.i /\ j_ = Top.j /\ a = Top.a.at /\ b = Top.b.at /\ c = Top.a.count
        /\ f = [a |-> Top.a, b |-> Top.b, i |-> k + 1, j |-> j_]
  OBVIOUS
<1>3. a \in Nat /\ b \in Nat /\ c \in Nat /\ k \in Nat /\ j_ \in Nat /\ Top.b.count = c
  <2>1. IsContainer(Top.a) /\ IsContainer(Top.b) /\ Top.b.count = Top.a.count
    BY <1>1 DEF AlikeLists, IsContainer
  <2>2. Top.a.at \in Nat /\ Top.b.at \in Nat /\ Top.a.count \in Nat /\ Top.i \in Nat /\ Top.j \in Nat
    BY <1>1, <2>1, TopKnown
  <2>. QED BY <1>2, <2>1, <2>2
<1>4. k < c /\ k + 1 \in Nat /\ k + 1 \in 1 .. c
  BY <1>1, <1>2, <1>3
<1>5. f.a = Top.a /\ f.b = Top.b /\ f.i = k + 1 /\ f.j = j_
  BY <1>2
<1>6. Going(f)
  BY <1>1, <1>2, <1>3, <1>4, <1>5 DEF Going, Lists, AlikeLists, IsContainer
<1>7. Child(f) = <<Top.a.at + k + 1, Top.b.at + k + 1>>
  <2>1. a + (k + 1) = a + k + 1 /\ b + (k + 1) = b + k + 1
    BY <1>3, <1>4
  <2>. QED BY <1>1, <1>2, <1>5, <2>1 DEF Child
<1>8. RepeatFree(asked) => Knows(f)
  <2>1. ASSUME RepeatFree(asked), NEW m \in 1 .. (k + 1) - 1
        PROVE  <<a + m, b + m>> \in SameValues(terms)
    <3>1. /\ \A n \in 1 .. k - 1 : <<a + n, b + n>> \in SameValues(terms)
          /\ k > 0 => <<a + k, b + k>> \in SameValues(terms)
      BY <1>1, <1>2, <2>1, ListKnown
    <3>2. m \in 1 .. k - 1 \/ (m = k /\ k > 0)
      BY <1>3
    <3>. QED BY <3>1, <3>2
  <2>. QED BY <1>1, <1>2, <1>5, <2>1 DEF Knows
<1>9. Descend(k, k, k + 1, j_)
  BY <1>1, <1>2
<1>10. f = [a |-> Top.a, b |-> Top.b, i |-> k + 1, j |-> j_]
  BY <1>2
<1>. QED
  BY <1>1, <1>3, <1>4, <1>6, <1>7, <1>8, <1>9, <1>10, Asks

LEMMA EqReturns ==
  ASSUME EqInv, Return
  PROVE  EqInv'
<1>1. /\ asked # <<>> /\ frames = <<>> /\ answer = "none"
      /\ answer' = IF last THEN "equal" ELSE "unequal"
      /\ UNCHANGED <<terms, pc, status, asked, frames, last>>
  BY DEF Return, expandVars, poolVars, controlVars
<1>2. last \in BOOLEAN /\ pc = "stopped" /\ status = "OK" /\ FramesHeld /\ (RepeatFree(asked) => AnswersHeld)
  BY <1>1 DEF EqInv
<1>3. FramesHeld'
  BY <1>1, <1>2 DEF FramesHeld, Framed, Pairs, PlaceAt, Child, Going, Lists, Fresh
<1>4. ASSUME RepeatFree(asked)'
      PROVE  AnswersHeld'
  <2>1. RepeatFree(asked) /\ AnswersHeld
    BY <1>1, <1>2, <1>4 DEF RepeatFree
  <2>2. last <=> asked \in SameValues(terms)
    BY <1>1, <2>1 DEF AnswersHeld
  <2>3. Len(frames) = 0
    BY <1>1
  <2>4. \A k \in 1 .. Len(frames') : FALSE
    BY <1>1, <2>3
  <2>5. answer' = IF asked' \in SameValues(terms)' THEN "equal" ELSE "unequal"
    BY <1>1, <2>2
  <2>6. last' <=> asked' \in SameValues(terms)'
    BY <1>1, <2>2
  <2>. QED BY <1>1, <2>4, <2>5, <2>6 DEF AnswersHeld
<1>. QED
  BY <1>1, <1>2, <1>3, <1>4 DEF EqInv

LEMMA EqAsked ==
  ASSUME EqInv, Ask
  PROVE  EqInv'
<1>1. /\ pc = "stopped" /\ status = "OK" /\ answer = "none" /\ last' = TRUE
      /\ UNCHANGED <<terms, pc, status, answer>>
  BY DEF Ask, EqInv, expandVars, poolVars, controlVars
<1>2. PICK x, y \in DOMAIN terms : asked' = <<x, y>> /\ frames' = <<Frame(terms[x], terms[y])>>
  BY DEF Ask
<1>3. PICK f : f = [a |-> terms[x], b |-> terms[y], i |-> 0, j |-> 0]
  OBVIOUS
<1>4. frames' = <<f>>
  BY <1>2, <1>3 DEF Frame
<1>5. /\ AnySeq(frames') /\ Len(frames') = 1 /\ frames'[1] = f
  <2>1. <<f>> \in Seq({f})
    OBVIOUS
  <2>. QED BY <1>4, <2>1, SomeSeq
<1>6. Framed(f, <<x, y>>) /\ ~Going(f)
  BY <1>3 DEF Framed, Pairs, Fresh, Going
<1>7. FramesHeld'
  <2>1. PlaceAt(1)' = <<x, y>>
    BY <1>2 DEF PlaceAt
  <2>2. \A k \in 1 .. Len(frames') : k = 1
    BY <1>5
  <2>3. Framed(frames'[1], PlaceAt(1)')
    BY <1>5, <1>6, <2>1
  <2>4. \A k \in 1 .. Len(frames') : Framed(frames[k], PlaceAt(k))'
    BY <1>1, <2>2, <2>3 DEF Framed, Pairs
  <2>5. asked' \in Pairs(terms)'
    BY <1>1, <1>2 DEF Pairs
  <2>6. \A k \in 1 .. Len(frames') - 1 : FALSE
    BY <1>5
  <2>. QED BY <1>5, <2>4, <2>5, <2>6 DEF FramesHeld
<1>8. ASSUME RepeatFree(asked)' PROVE AnswersHeld'
  <2>1. \A k \in 1 .. Len(frames') : k = 1
    BY <1>5
  <2>2. frames' # <<>> /\ Top' = f
    BY <1>4, <1>5 DEF Top
  <2>3. ~Going(Top)' /\ ~Going(frames'[1])
    BY <1>5, <1>6, <2>2 DEF Going, Lists
  <2>4. RepeatFree(PlaceAt(1))'
    BY <1>8 DEF RepeatFree, PlaceAt
  <2>. QED BY <1>1, <2>1, <2>2, <2>3, <2>4 DEF AnswersHeld, Going, Lists
<1>9. asked' # <<>>
  BY <1>2
<1>. QED
  BY <1>1, <1>7, <1>8, <1>9 DEF EqInv

LEMMA EqLoaded ==
  ASSUME EqInv, Load, UNCHANGED eqVars
  PROVE  EqInv'
<1>1. pc # "stopped"
  BY DEF Load, LoadPredicate, TooDeep, PassTerm, ExpandTerm, EndTerms, LoadExpression, PlaceValue,
         PlaceOperator, PlaceClosure, EndRun, OpTooDeep, PassOp, ExpandOp, EndOps, AllLoaded,
         Turning, OpTurning
<1>2. asked = <<>>
  BY <1>1 DEF EqInv
<1>. QED
  BY <1>2 DEF EqInv, eqVars

LEMMA EqStutters ==
  ASSUME EqInv, UNCHANGED <<expandVars, eqVars>>
  PROVE  EqInv'
<1>1. UNCHANGED <<terms, pc, status, asked, frames, last, answer>>
  BY DEF expandVars, poolVars, controlVars, eqVars
<1>2. FramesHeld => FramesHeld'
  <2>1. \A k : PlaceAt(k)' = PlaceAt(k)
    BY <1>1 DEF PlaceAt, Child
  <2>2. \A k : Framed(frames[k], PlaceAt(k))' <=> Framed(frames[k], PlaceAt(k))
    BY <1>1, <2>1 DEF Framed, Pairs, Fresh, Going, Lists
  <2>3. \A k : Going(frames[k])' <=> Going(frames[k])
    BY <1>1 DEF Going, Lists
  <2>. QED BY <1>1, <2>2, <2>3 DEF FramesHeld, Pairs
<1>3. AnswersHeld => AnswersHeld'
  <2>1. \A k : /\ RepeatFree(PlaceAt(k))' <=> RepeatFree(PlaceAt(k))
               /\ Going(frames[k])' <=> Going(frames[k])
               /\ Knows(frames[k])' <=> Knows(frames[k])
    BY <1>1 DEF RepeatFree, PlaceAt, Child, Going, Lists, Knows
  <2>2. Going(Top)' <=> Going(Top)
    BY <1>1 DEF Going, Lists, Top
  <2>3. Child(Top)' = Child(Top) /\ SameValues(terms)' = SameValues(terms)
    BY <1>1 DEF Child, Top
  <2>. QED BY <1>1, <2>1, <2>2, <2>3 DEF AnswersHeld
<1>4. RepeatFree(asked)' <=> RepeatFree(asked)
  BY <1>1 DEF RepeatFree
<1>. QED
  BY <1>1, <1>2, <1>3, <1>4 DEF EqInv

LEMMA EqGoesOn ==
  ASSUME ExpandInv, LevelsInv, EqInv, [(Load /\ UNCHANGED eqVars) \/ Compare]_<<expandVars, eqVars>>
  PROVE  ExpandInv' /\ LevelsInv' /\ EqInv'
<1>1. CASE Load /\ UNCHANGED eqVars
  BY <1>1, ExpandGoesOn, LevelsGoOn, EqLoaded
<1>2. CASE Compare
  <2>1. UNCHANGED expandVars
    BY <1>2 DEF Compare, Ask, Differ, SameScalar, SetDone, SetMissing, SetSearch, ListDiffers, ListDone, ListNext,
                Return, Finish, Descend
  <2>2. ExpandInv' /\ LevelsInv'
    BY <2>1, ExpandGoesOn, LevelsGoOn
  <2>3. EqInv'
    BY <1>2, EqAsked, EqDiffers, EqScalars, EqSetsDone, EqSetsMissing, EqSetsSearch, EqListsDiffer, EqListsDone,
       EqListsNext, EqReturns DEF Compare
  <2>. QED BY <2>2, <2>3
<1>3. CASE UNCHANGED <<expandVars, eqVars>>
  <2>1. UNCHANGED expandVars
    BY <1>3
  <2>. QED BY <1>3, <2>1, ExpandGoesOn, LevelsGoOn, EqStutters
<1>. QED
  BY <1>1, <1>2, <1>3

LEMMA FrameAlwaysLeft ==
  ASSUME ExpandInv, LevelsInv, EqInv, Comparing
  PROVE  FrameLeft
<1>1. Len(frames) \in Nat \ {0} /\ FramesHeld /\ status = "OK"
  BY TopFrame
<1>2. PICK level : Levelled(terms, level)
  BY <1>1, PoolNests
<1>3. level[PlaceAt(Len(frames))[1]] >= Len(frames) - 1
  BY <1>1, <1>2, FramesDescend
<1>4. PlaceAt(Len(frames))[1] \in DOMAIN terms
  <2>1. PlaceAt(Len(frames)) \in Pairs(terms)
    BY TopFrame DEF Framed
  <2>. QED BY <2>1 DEF Pairs
<1>5. level[PlaceAt(Len(frames))[1]] \in 0 .. MaxDepth /\ MaxDepth \in Nat
  BY <1>2, <1>4, ExpandAssumption DEF Levelled
<1>. QED
  BY <1>1, <1>3, <1>5 DEF FrameLeft

\* Two values of any world that can be loaded, however nested, are compared to
\* the end, on no more frames than there are, and the answer is whether they
\* are the same, wherever no set holds a value twice (120_eval.inc:92-225).
THEOREM EqualityDecides == EqSpec => []EqualMeansSame
<1>1. LoadInit /\ EqInit => ExpandInv /\ LevelsInv /\ EqInv
  <2>1. EqInit => EqInv
    BY DEF EqInit, EqInv
  <2>. QED BY <2>1, ExpandBegins, LevelsBegin
<1>2. /\ ExpandInv /\ LevelsInv /\ EqInv
      /\ [(Load /\ UNCHANGED eqVars) \/ Compare]_<<expandVars, eqVars>>
      => ExpandInv' /\ LevelsInv' /\ EqInv'
  BY EqGoesOn
<1>3. ExpandInv /\ LevelsInv /\ EqInv => EqualMeansSame
  <2> SUFFICES ASSUME ExpandInv, LevelsInv, EqInv PROVE EqualMeansSame
    OBVIOUS
  <2>1. Comparing => FrameLeft
    BY FrameAlwaysLeft
  <2>2. ASSUME answer # "none", {asked[1], asked[2]} \subseteq WithoutRepeats(terms)
        PROVE  answer = IF asked \in SameValues(terms) THEN "equal" ELSE "unequal"
    BY <2>2 DEF EqInv, AnswersHeld, RepeatFree
  <2>. QED BY <2>1, <2>2 DEF EqualMeansSame
<1>. QED
  BY <1>1, <1>2, <1>3, PTL DEF EqSpec

-----------------------------------------------------------------------------
(* What is nested in what is stated.                                       *)

\* The first step of the way to a value of an expression is the way to its
\* operation.
Step == Nat \cup Seq(Nat)
OpNode == [way : Seq(Nat), it : WireOps]
ValueNode == [way : Seq(Step), it : WireValues]

\* What every level is within.
LEMMA AllLevels ==
  ASSUME NEW to, NEW T, to[0] \subseteq T,
         \A n \in Nat : to[n] \subseteq T => to[n + 1] \subseteq T
  PROVE  \A n \in Nat : to[n] \subseteq T
<1> DEFINE R == {n \in Nat : to[n] \subseteq T}
<1>1. 0 \in R
  OBVIOUS
<1>2. ASSUME NEW n \in R PROVE n + 1 \in R
  OBVIOUS
<1>3. R \in SUBSET Nat
  OBVIOUS
<1> HIDE DEF R
<1>4. \A n \in Nat : n \in R
  BY <1>1, <1>2, <1>3, FromZeroOn
<1>. QED
  BY <1>4 DEF R

\* The nodes of a list are nodes again, one step further.
LEMMA NodesOf ==
  ASSUME NEW W, Nat \subseteq W, NEW way \in Seq(W), NEW S, NEW list \in Seq(S)
  PROVE  Nodes(way, list) \subseteq [way : Seq(W), it : S]
<1>1. Len(list) \in Nat /\ DOMAIN list = 1 .. Len(list)
  BY LenProperties
<1>2. ASSUME NEW n \in DOMAIN list PROVE Append(way, n) \in Seq(W) /\ list[n] \in S
  <2>1. list[n] \in S BY <1>1, ElementOfSeq
  <2>2. n \in W BY <1>1
  <2>. QED BY <2>1, <2>2, AppendProperties
<1>. QED
  BY <1>2 DEF Nodes

CodeRoots(k) == IF stated[k].kind = "expression" THEN Nodes(<<k>>, stated[k].ops) ELSE {}
CodeBelow(S) == UNION {Nodes(o.way, BodyOf(o.it)) : o \in S}

LEMMA BodyNodes ==
  ASSUME NEW o \in OpNode
  PROVE  Nodes(o.way, BodyOf(o.it)) \subseteq OpNode
<1>1. BodyOf(o.it) \in Seq(WireOps) /\ o.way \in Seq(Nat)
  BY WireOp DEF OpNode, BodyOf
<1>. QED
  BY <1>1, NodesOf DEF OpNode

LEMMA CodeLevels ==
  ASSUME NEW k, CodeRoots(k) \subseteq OpNode
  PROVE  /\ CodeAt(k) \in [Nat -> SUBSET OpNode] /\ CodeAt(k)[0] = CodeRoots(k)
         /\ \A n \in Nat : CodeAt(k)[n + 1] = CodeBelow(CodeAt(k)[n])
<1> DEFINE Def(g) == g = [n \in Nat |-> IF n = 0 THEN IF stated[k].kind = "expression" THEN Nodes(<<k>>, stated[k].ops) ELSE {}
                                        ELSE UNION {Nodes(o.way, BodyOf(o.it)) : o \in g[n - 1]}]
           to == CHOOSE g : Def(g)
           X == SUBSET OpNode
           first == CodeRoots(k)
           next == [S \in X |-> CodeBelow(S)]
<1>1. \A S \in X : CodeBelow(S) \in X
  BY BodyNodes DEF CodeBelow
<1>2. next \in [X -> X] /\ first \in X
  BY <1>1
<1>3. PICK f \in [Nat -> X] : f = [n \in Nat |-> IF n = 0 THEN first ELSE next[f[n - 1]]]
  <2> HIDE DEF X, first, next
  <2>. QED BY <1>2, InRounds
<1>4. \A n \in Nat : f[n] = IF n = 0 THEN first ELSE CodeBelow(f[n - 1])
  <2> SUFFICES ASSUME NEW n \in Nat PROVE f[n] = IF n = 0 THEN first ELSE CodeBelow(f[n - 1])
    OBVIOUS
  <2>1. CASE n = 0
    BY <1>3, <2>1
  <2>2. CASE n # 0
    <3>1. n - 1 \in Nat BY <2>2
    <3>2. f[n - 1] \in X BY <3>1, <1>3
    <3>3. next[f[n - 1]] = CodeBelow(f[n - 1]) BY <3>2
    <3> HIDE DEF X, first, next
    <3>4. f[n] = next[f[n - 1]] BY <1>3, <2>2
    <3>. QED BY <3>3, <3>4, <2>2
  <2>. QED BY <2>1, <2>2
<1>5. Def(f)
  <2>1. f = [n \in Nat |-> f[n]] BY <1>3
  <2>. QED BY <1>4, <2>1, Zenon DEF CodeRoots, CodeBelow
<1>6. Def(to)
  <2> HIDE DEF Def
  <2>. QED BY <1>5
<1>7. \A n \in Nat : to[n] = IF n = 0 THEN first ELSE CodeBelow(to[n - 1])
  <2> HIDE DEF to
  <2>. QED BY <1>6, Zenon DEF CodeRoots, CodeBelow
<1>8. CodeAt(k) = to
  BY DEF CodeAt
<1>9. to = [n \in Nat |-> to[n]]
  BY <1>6
<1> HIDE DEF to, Def, first
<1>10. to[0] = first
  BY <1>7
<1>11. \A n \in Nat : to[n + 1] = CodeBelow(to[n])
  <2> SUFFICES ASSUME NEW n \in Nat PROVE to[n + 1] = CodeBelow(to[n])
    OBVIOUS
  <2>1. n + 1 \in Nat /\ n + 1 # 0 /\ (n + 1) - 1 = n OBVIOUS
  <2>2. to[n + 1] = CodeBelow(to[(n + 1) - 1]) BY <1>7, <2>1
  <2>. QED BY <2>1, <2>2
<1>12. \A n \in Nat : to[n] \subseteq OpNode
  <2>1. ASSUME NEW n \in Nat, to[n] \subseteq OpNode PROVE to[n + 1] \subseteq OpNode
    BY <1>1, <1>11, <2>1
  <2>2. to[0] \subseteq OpNode BY <1>2, <1>10
  <2>. QED BY <2>1, <2>2, AllLevels
<1>. QED
  BY <1>8, <1>9, <1>10, <1>11, <1>12 DEF first

ValueBelow(S) == UNION {Nodes(v.way, ItemsOf(v.it)) : v \in S}

LEMMA ItemNodes ==
  ASSUME NEW v \in ValueNode
  PROVE  Nodes(v.way, ItemsOf(v.it)) \subseteq ValueNode
<1>1. ItemsOf(v.it) \in Seq(WireValues) /\ v.way \in Seq(Step) /\ Nat \subseteq Step
  BY WireAssumption DEF HoldAll, ValueNode, ItemsOf, Step
<1>. QED
  BY <1>1, NodesOf DEF ValueNode

LEMMA ValueLevels ==
  ASSUME NEW k, RootsIn(k) \subseteq ValueNode
  PROVE  /\ ValuesAt(k) \in [Nat -> SUBSET ValueNode] /\ ValuesAt(k)[0] = RootsIn(k)
         /\ \A n \in Nat : ValuesAt(k)[n + 1] = ValueBelow(ValuesAt(k)[n])
<1> DEFINE Def(g) == g = [n \in Nat |-> IF n = 0 THEN RootsIn(k)
                                        ELSE UNION {Nodes(v.way, ItemsOf(v.it)) : v \in g[n - 1]}]
           to == CHOOSE g : Def(g)
           X == SUBSET ValueNode
           first == RootsIn(k)
           next == [S \in X |-> ValueBelow(S)]
<1>1. \A S \in X : ValueBelow(S) \in X
  BY ItemNodes DEF ValueBelow
<1>2. next \in [X -> X] /\ first \in X
  BY <1>1
<1>3. PICK f \in [Nat -> X] : f = [n \in Nat |-> IF n = 0 THEN first ELSE next[f[n - 1]]]
  <2> HIDE DEF X, first, next
  <2>. QED BY <1>2, InRounds
<1>4. \A n \in Nat : f[n] = IF n = 0 THEN first ELSE ValueBelow(f[n - 1])
  <2> SUFFICES ASSUME NEW n \in Nat PROVE f[n] = IF n = 0 THEN first ELSE ValueBelow(f[n - 1])
    OBVIOUS
  <2>1. CASE n = 0
    BY <1>3, <2>1
  <2>2. CASE n # 0
    <3>1. n - 1 \in Nat BY <2>2
    <3>2. f[n - 1] \in X BY <3>1, <1>3
    <3>3. next[f[n - 1]] = ValueBelow(f[n - 1]) BY <3>2
    <3> HIDE DEF X, first, next
    <3>4. f[n] = next[f[n - 1]] BY <1>3, <2>2
    <3>. QED BY <3>3, <3>4, <2>2
  <2>. QED BY <2>1, <2>2
<1>5. Def(f)
  <2>1. f = [n \in Nat |-> f[n]] BY <1>3
  <2>. QED BY <1>4, <2>1, Zenon DEF ValueBelow
<1>6. Def(to)
  <2> HIDE DEF Def
  <2>. QED BY <1>5
<1>7. \A n \in Nat : to[n] = IF n = 0 THEN first ELSE ValueBelow(to[n - 1])
  <2> HIDE DEF to
  <2>. QED BY <1>6, Zenon DEF ValueBelow
<1>8. ValuesAt(k) = to
  BY DEF ValuesAt
<1>9. to = [n \in Nat |-> to[n]]
  BY <1>6
<1> HIDE DEF to, Def, first
<1>10. to[0] = first
  BY <1>7
<1>11. \A n \in Nat : to[n + 1] = ValueBelow(to[n])
  <2> SUFFICES ASSUME NEW n \in Nat PROVE to[n + 1] = ValueBelow(to[n])
    OBVIOUS
  <2>1. n + 1 \in Nat /\ n + 1 # 0 /\ (n + 1) - 1 = n OBVIOUS
  <2>2. to[n + 1] = ValueBelow(to[(n + 1) - 1]) BY <1>7, <2>1
  <2>. QED BY <2>1, <2>2
<1>12. \A n \in Nat : to[n] \subseteq ValueNode
  <2>1. ASSUME NEW n \in Nat, to[n] \subseteq ValueNode PROVE to[n + 1] \subseteq ValueNode
    BY <1>1, <1>11, <2>1
  <2>2. to[0] \subseteq ValueNode BY <1>2, <1>10
  <2>. QED BY <2>1, <2>2, AllLevels
<1>. QED
  BY <1>8, <1>9, <1>10, <1>11, <1>12 DEF first

Level(e) == Len(e.way) - 2

\* One step further is one level deeper.
LEMMA NodesDeeper ==
  ASSUME NEW W, Nat \subseteq W, NEW way \in Seq(W), Len(way) >= 1, NEW S, NEW list \in Seq(S)
  PROVE  /\ \A e \in Nodes(way, list) : Len(e.way) = Len(way) + 1 /\ e.way[1] = way[1]
         /\ IsFiniteSet(Nodes(way, list))
<1>1. Len(list) \in Nat /\ DOMAIN list = 1 .. Len(list) /\ Len(way) \in Nat
  BY LenProperties
<1>2. ASSUME NEW e \in Nodes(way, list) PROVE Len(e.way) = Len(way) + 1 /\ e.way[1] = way[1]
  <2>1. PICK n \in DOMAIN list : e.way = Append(way, n)
    BY DEF Nodes
  <2>2. n \in W BY <1>1, <2>1
  <2>. QED BY <1>1, <2>1, <2>2, AppendProperties
<1>3. IsFiniteSet(DOMAIN list)
  BY <1>1, FS_Interval
<1>4. IsFiniteSet(Nodes(way, list))
  <2> DEFINE f == [n \in DOMAIN list |-> [way |-> Append(way, n), it |-> list[n]]]
  <2>1. f \in Surjection(DOMAIN list, Nodes(way, list))
    BY DEF Surjection, Nodes
  <2>. QED BY <1>3, <2>1, FS_Surjection
<1>. QED
  BY <1>2, <1>4

LEMMA ManyFinite ==
  ASSUME NEW S, IsFiniteSet(S), NEW f, DOMAIN f = S, \A e \in S : IsFiniteSet(f[e]),
         NEW U, \A u \in U : \E e \in S : u \in f[e]
  PROVE  IsFiniteSet(U)
<1> DEFINE F == {f[e] : e \in S}
           g == [e \in S |-> f[e]]
<1>1. g \in Surjection(S, F)
  BY DEF Surjection
<1>2. IsFiniteSet(F)
  BY <1>1, FS_Surjection
<1>3. \A G \in F : IsFiniteSet(G)
  OBVIOUS
<1>4. U \subseteq UNION F
  OBVIOUS
<1> HIDE DEF F
<1>. QED
  BY <1>2, <1>3, <1>4, FS_UNION, FS_Subset

StatedWell == stated \in Seq(Stated(WireValues, WireOps))

LEMMA StatedPart ==
  ASSUME StatedWell, NEW k \in DOMAIN stated
  PROVE  /\ k \in Nat \ {0} /\ stated[k].kind \in {"predicate", "expression"}
         /\ stated[k].kind = "predicate" => stated[k].terms \in Seq(WireValues)
         /\ stated[k].kind = "expression" => stated[k].ops \in Seq(WireOps)
<1>1. k \in 1 .. Len(stated) /\ Len(stated) \in Nat
  BY LenProperties DEF StatedWell
<1>2. stated[k] \in Stated(WireValues, WireOps)
  BY <1>1, ElementOfSeq DEF StatedWell
<1>. QED
  BY <1>1, <1>2 DEF Stated

OpsAt(k, n) == {o \in OpNode : Len(o.way) = n + 2 /\ o.way[1] = k}

LEMMA CodeLevelled ==
  ASSUME StatedWell, NEW k \in DOMAIN stated, NEW n \in Nat
  PROVE  /\ CodeAt(k)[n] \subseteq OpsAt(k, n) /\ IsFiniteSet(CodeAt(k)[n])
         /\ CodeAt(k)[0] = CodeRoots(k)
         /\ CodeAt(k)[n + 1] = CodeBelow(CodeAt(k)[n])
<1>1. CodeRoots(k) \subseteq OpsAt(k, 0) /\ IsFiniteSet(CodeRoots(k))
  <2>1. CASE stated[k].kind # "expression"
    BY <2>1, FS_EmptySet DEF CodeRoots
  <2>2. CASE stated[k].kind = "expression"
    <3>1. stated[k].ops \in Seq(WireOps) /\ k \in Nat
      BY <2>2, StatedPart
    <3>2. <<k>> \in Seq(Nat) /\ Len(<<k>>) = 1 /\ <<k>>[1] = k
      BY <3>1
    <3>3. Nodes(<<k>>, stated[k].ops) \subseteq OpNode
      BY <3>1, <3>2, NodesOf DEF OpNode
    <3>4. /\ \A e \in Nodes(<<k>>, stated[k].ops) : Len(e.way) = Len(<<k>>) + 1 /\ e.way[1] = <<k>>[1]
          /\ IsFiniteSet(Nodes(<<k>>, stated[k].ops))
      <4>1. Len(<<k>>) >= 1 BY <3>2
      <4>. QED BY <3>1, <3>2, <4>1, NodesDeeper
    <3>. QED BY <2>2, <3>2, <3>3, <3>4 DEF CodeRoots, OpsAt
  <2>. QED BY <2>1, <2>2
<1>2. /\ CodeAt(k)[0] = CodeRoots(k)
      /\ \A m \in Nat : CodeAt(k)[m + 1] = CodeBelow(CodeAt(k)[m])
  <2>1. CodeRoots(k) \subseteq OpNode BY <1>1 DEF OpsAt
  <2>. QED BY <2>1, CodeLevels
<1> DEFINE R == {m \in Nat : CodeAt(k)[m] \subseteq OpsAt(k, m) /\ IsFiniteSet(CodeAt(k)[m])}
<1>3. 0 \in R
  BY <1>1, <1>2
<1>4. ASSUME NEW m \in R PROVE m + 1 \in R
  <2>1. CodeAt(k)[m] \subseteq OpsAt(k, m) /\ IsFiniteSet(CodeAt(k)[m]) /\ m \in Nat
    OBVIOUS
  <2>2. ASSUME NEW o \in CodeAt(k)[m]
        PROVE  Nodes(o.way, BodyOf(o.it)) \subseteq OpsAt(k, m + 1) /\ IsFiniteSet(Nodes(o.way, BodyOf(o.it)))
    <3>1. o \in OpNode /\ Len(o.way) = m + 2 /\ o.way[1] = k
      BY <2>1 DEF OpsAt
    <3>2. o.way \in Seq(Nat) /\ Len(o.way) >= 1 /\ BodyOf(o.it) \in Seq(WireOps)
      BY <2>1, <3>1, WireOp DEF OpNode, BodyOf
    <3>3. /\ \A e \in Nodes(o.way, BodyOf(o.it)) : Len(e.way) = Len(o.way) + 1 /\ e.way[1] = o.way[1]
          /\ IsFiniteSet(Nodes(o.way, BodyOf(o.it)))
      BY <3>2, NodesDeeper
    <3>4. Nodes(o.way, BodyOf(o.it)) \subseteq OpNode
      BY <3>1, BodyNodes
    <3>. QED BY <2>1, <3>1, <3>3, <3>4 DEF OpsAt
  <2>3. CodeBelow(CodeAt(k)[m]) \subseteq OpsAt(k, m + 1)
    BY <2>2 DEF CodeBelow
  <2>4. IsFiniteSet(CodeBelow(CodeAt(k)[m]))
    <3> DEFINE S == CodeAt(k)[m]
               f == [o \in S |-> Nodes(o.way, BodyOf(o.it))]
    <3>1. \A e \in S : IsFiniteSet(f[e]) BY <2>2
    <3>2. IsFiniteSet(S) /\ DOMAIN f = S BY <2>1
    <3>3. PICK U : U = CodeBelow(S) OBVIOUS
    <3>5. \A u \in U : \E e \in S : u \in f[e] BY <3>3 DEF CodeBelow
    <3> HIDE DEF S, f
    <3>4. IsFiniteSet(U) BY <3>1, <3>2, <3>5, ManyFinite
    <3>. QED BY <3>3, <3>4 DEF S
  <2>. QED BY <1>2, <2>1, <2>3, <2>4
<1>5. R \in SUBSET Nat
  OBVIOUS
<1> HIDE DEF R
<1>6. \A m \in Nat : m \in R
  BY <1>3, <1>4, <1>5, FromZeroOn
<1>. QED
  BY <1>2, <1>6 DEF R

\* A union of finitely many levels.
LEMMA LevelsFinite ==
  ASSUME NEW f, \A n \in Nat : IsFiniteSet(f[n])
  PROVE  IsFiniteSet(UNION {f[n] : n \in 0 .. MaxDepth})
<1> DEFINE S == 0 .. MaxDepth
           g == [n \in S |-> f[n]]
<1>1. IsFiniteSet(S) /\ S \subseteq Nat
  BY ExpandAssumption, FS_Interval
<1>2. \A n \in S : IsFiniteSet(g[n])
  BY <1>1
<1>3. PICK U : U = UNION {f[n] : n \in 0 .. MaxDepth}
  OBVIOUS
<1>4. DOMAIN g = S /\ \A u \in U : \E n \in S : u \in g[n]
  BY <1>3
<1> HIDE DEF g, S
<1>5. IsFiniteSet(U)
  BY <1>1, <1>2, <1>4, ManyFinite
<1>. QED
  BY <1>3, <1>5

LEMMA CodeNodes ==
  ASSUME StatedWell, NEW k \in DOMAIN stated
  PROVE  /\ CodeRoots(k) \subseteq CodeIn(k) /\ IsFiniteSet(CodeIn(k))
         /\ \A o \in CodeIn(k) :
              /\ o \in OpNode /\ o.way[1] = k /\ Level(o) \in 0 .. MaxDepth
              /\ Level(o) < MaxDepth => Nodes(o.way, BodyOf(o.it)) \subseteq CodeIn(k)
              /\ Level(o) = MaxDepth => TooDeepIn(k)
         /\ \A o \in CodeAt(k)[MaxDepth] : o \in CodeIn(k) /\ Level(o) = MaxDepth
<1>1. \A n \in Nat : /\ CodeAt(k)[n] \subseteq OpsAt(k, n) /\ IsFiniteSet(CodeAt(k)[n])
                     /\ CodeAt(k)[n + 1] = CodeBelow(CodeAt(k)[n])
  BY CodeLevelled
<1>2. MaxDepth \in Nat /\ CodeAt(k)[0] = CodeRoots(k)
  BY ExpandAssumption, CodeLevelled
<1>3. CodeRoots(k) \subseteq CodeIn(k)
  BY <1>2 DEF CodeIn
<1>4. IsFiniteSet(CodeIn(k))
  BY <1>1, LevelsFinite DEF CodeIn
<1>5. ASSUME NEW o \in CodeIn(k)
      PROVE  /\ o \in OpNode /\ o.way[1] = k /\ Level(o) \in 0 .. MaxDepth
             /\ Level(o) < MaxDepth => Nodes(o.way, BodyOf(o.it)) \subseteq CodeIn(k)
             /\ Level(o) = MaxDepth => TooDeepIn(k)
  <2>1. PICK n \in 0 .. MaxDepth : o \in CodeAt(k)[n]
    BY DEF CodeIn
  <2>2. n \in Nat /\ o \in OpNode /\ Len(o.way) = n + 2 /\ o.way[1] = k
    <3>1. n \in Nat BY <1>2
    <3>2. o \in OpsAt(k, n) BY <1>1, <2>1, <3>1
    <3>. QED BY <3>1, <3>2 DEF OpsAt
  <2>3. Level(o) = n
    BY <2>2 DEF Level
  <2>4. ASSUME n < MaxDepth PROVE Nodes(o.way, BodyOf(o.it)) \subseteq CodeIn(k)
    <3>1. Nodes(o.way, BodyOf(o.it)) \subseteq CodeAt(k)[n + 1]
      BY <1>1, <2>1, <2>2 DEF CodeBelow
    <3>2. n + 1 \in 0 .. MaxDepth BY <1>2, <2>2, <2>4
    <3>. QED BY <3>1, <3>2 DEF CodeIn
  <2>5. n = MaxDepth => TooDeepIn(k)
    BY <2>1 DEF TooDeepIn
  <2>. QED BY <2>2, <2>3, <2>4, <2>5
<1>6. ASSUME NEW o \in CodeAt(k)[MaxDepth] PROVE o \in CodeIn(k) /\ Level(o) = MaxDepth
  <2>1. Len(o.way) = MaxDepth + 2 BY <1>1, <1>2 DEF OpsAt
  <2>2. MaxDepth \in 0 .. MaxDepth BY <1>2
  <2>. QED BY <1>2, <2>1, <2>2 DEF CodeIn, Level
<1>. QED
  BY <1>3, <1>4, <1>5, <1>6

\* Whatever holds the roots, and with a node those below, holds all.
LEMMA CodeWithin ==
  ASSUME StatedWell, NEW k \in DOMAIN stated, NEW T, CodeRoots(k) \subseteq T,
         \A o \in CodeIn(k) : o \in T /\ Level(o) < MaxDepth => Nodes(o.way, BodyOf(o.it)) \subseteq T
  PROVE  CodeIn(k) \subseteq T
<1>1. \A n \in Nat : CodeAt(k)[n + 1] = CodeBelow(CodeAt(k)[n]) /\ CodeAt(k)[n] \subseteq OpsAt(k, n)
  BY CodeLevelled
<1>2. MaxDepth \in Nat /\ CodeAt(k)[0] = CodeRoots(k)
  BY ExpandAssumption, CodeLevelled
<1> DEFINE R == {n \in Nat : n <= MaxDepth => CodeAt(k)[n] \subseteq T}
<1>3. 0 \in R
  BY <1>2
<1>4. ASSUME NEW n \in R PROVE n + 1 \in R
  <2> SUFFICES ASSUME n + 1 <= MaxDepth PROVE CodeAt(k)[n + 1] \subseteq T
    OBVIOUS
  <2>1. n \in Nat /\ n \in 0 .. MaxDepth /\ n < MaxDepth /\ CodeAt(k)[n] \subseteq T
    BY <1>2
  <2>2. ASSUME NEW o \in CodeAt(k)[n] PROVE Nodes(o.way, BodyOf(o.it)) \subseteq T
    <3>1. o \in CodeIn(k) BY <2>1 DEF CodeIn
    <3>2. Level(o) = n BY <1>1, <2>1 DEF OpsAt, Level
    <3>. QED BY <2>1, <3>1, <3>2
  <2>. QED BY <1>1, <2>1, <2>2 DEF CodeBelow
<1>5. R \in SUBSET Nat
  OBVIOUS
<1> HIDE DEF R
<1>6. \A n \in Nat : n \in R
  BY <1>3, <1>4, <1>5, FromZeroOn
<1>7. \A n \in 0 .. MaxDepth : CodeAt(k)[n] \subseteq T
  BY <1>2, <1>6 DEF R
<1>. QED
  BY <1>7 DEF CodeIn

-----------------------------------------------------------------------------
(* The values, likewise.                                                   *)

StepsAt(k, n) == {v \in ValueNode : Len(v.way) = n + 2 /\ v.way[1] \in Seq(Nat) /\ v.way[1][1] = k}

LEMMA RootsFirst ==
  ASSUME StatedWell, NEW k \in DOMAIN stated
  PROVE  RootsIn(k) \subseteq StepsAt(k, 0) /\ IsFiniteSet(RootsIn(k))
<1>0. ASSUME NEW w \in Seq(Nat), w[1] = k, NEW list \in Seq(WireValues)
      PROVE  Nodes(<<w>>, list) \subseteq StepsAt(k, 0) /\ IsFiniteSet(Nodes(<<w>>, list))
  <2>1. w \in Step /\ Nat \subseteq Step BY DEF Step
  <2>2. <<w>> \in Seq(Step) /\ Len(<<w>>) = 1 /\ <<w>>[1] = w BY <2>1
  <2>3. Nodes(<<w>>, list) \subseteq ValueNode BY <2>1, <2>2, NodesOf DEF ValueNode
  <2>4. /\ \A e \in Nodes(<<w>>, list) : Len(e.way) = Len(<<w>>) + 1 /\ e.way[1] = <<w>>[1]
        /\ IsFiniteSet(Nodes(<<w>>, list))
    <3>1. Len(<<w>>) >= 1 BY <2>2
    <3>. QED BY <2>1, <2>2, <3>1, NodesDeeper
  <2>. QED BY <1>0, <2>2, <2>3, <2>4 DEF StepsAt
<1>1. CASE stated[k].kind = "predicate"
  <2>1. <<k>> \in Seq(Nat) /\ <<k>>[1] = k /\ stated[k].terms \in Seq(WireValues)
    BY <1>1, StatedPart
  <2>. QED BY <1>0, <1>1, <2>1 DEF RootsIn
<1>2. CASE stated[k].kind # "predicate"
  <2> DEFINE S == {c \in CodeIn(k) : c.it.op = "value"}
             f == [o \in S |-> Nodes(<<o.way>>, <<o.it.term>>)]
  <2>1. ASSUME NEW o \in S PROVE f[o] \subseteq StepsAt(k, 0) /\ IsFiniteSet(f[o])
    <3>1. o \in OpNode /\ o.way[1] = k /\ o.it.op = "value" BY CodeNodes
    <3>2. o.way \in Seq(Nat) /\ o.it \in WireOps BY <3>1 DEF OpNode
    <3>3. o.it.term \in WireValues BY <3>1, <3>2, WireOp
    <3>4. <<o.it.term>> \in Seq(WireValues) BY <3>3
    <3>. QED BY <1>0, <3>1, <3>2, <3>4
  <2>2. IsFiniteSet(S)
    BY CodeNodes, FS_Subset
  <2>3. \A u \in RootsIn(k) : \E o \in S : u \in f[o]
    BY <1>2 DEF RootsIn
  <2>4. DOMAIN f = S
    OBVIOUS
  <2> HIDE DEF S, f
  <2>5. IsFiniteSet(RootsIn(k))
    BY <2>1, <2>2, <2>3, <2>4, ManyFinite
  <2>. QED BY <2>1, <2>3, <2>5
<1>. QED
  BY <1>1, <1>2

LEMMA ValueLevelled ==
  ASSUME StatedWell, NEW k \in DOMAIN stated, NEW n \in Nat
  PROVE  /\ ValuesAt(k)[n] \subseteq StepsAt(k, n) /\ IsFiniteSet(ValuesAt(k)[n])
         /\ ValuesAt(k)[0] = RootsIn(k)
         /\ ValuesAt(k)[n + 1] = ValueBelow(ValuesAt(k)[n])
<1>1. RootsIn(k) \subseteq StepsAt(k, 0) /\ IsFiniteSet(RootsIn(k))
  BY RootsFirst
<1>2. /\ ValuesAt(k)[0] = RootsIn(k)
      /\ \A m \in Nat : ValuesAt(k)[m + 1] = ValueBelow(ValuesAt(k)[m])
  <2>1. RootsIn(k) \subseteq ValueNode BY <1>1 DEF StepsAt
  <2>. QED BY <2>1, ValueLevels
<1> DEFINE R == {m \in Nat : ValuesAt(k)[m] \subseteq StepsAt(k, m) /\ IsFiniteSet(ValuesAt(k)[m])}
<1>3. 0 \in R
  BY <1>1, <1>2
<1>4. ASSUME NEW m \in R PROVE m + 1 \in R
  <2>1. ValuesAt(k)[m] \subseteq StepsAt(k, m) /\ IsFiniteSet(ValuesAt(k)[m]) /\ m \in Nat
    OBVIOUS
  <2>2. ASSUME NEW o \in ValuesAt(k)[m]
        PROVE  Nodes(o.way, ItemsOf(o.it)) \subseteq StepsAt(k, m + 1) /\ IsFiniteSet(Nodes(o.way, ItemsOf(o.it)))
    <3>1. o \in ValueNode /\ Len(o.way) = m + 2 /\ o.way[1] \in Seq(Nat) /\ o.way[1][1] = k
      BY <2>1 DEF StepsAt
    <3>2. o.way \in Seq(Step) /\ Nat \subseteq Step /\ Len(o.way) >= 1 /\ ItemsOf(o.it) \in Seq(WireValues)
      BY <2>1, <3>1, WireAssumption DEF HoldAll, ValueNode, ItemsOf, Step
    <3>3. /\ \A e \in Nodes(o.way, ItemsOf(o.it)) : Len(e.way) = Len(o.way) + 1 /\ e.way[1] = o.way[1]
          /\ IsFiniteSet(Nodes(o.way, ItemsOf(o.it)))
      BY <3>2, NodesDeeper
    <3>4. Nodes(o.way, ItemsOf(o.it)) \subseteq ValueNode
      BY <3>1, ItemNodes
    <3>. QED BY <2>1, <3>1, <3>3, <3>4 DEF StepsAt
  <2>3. ValueBelow(ValuesAt(k)[m]) \subseteq StepsAt(k, m + 1)
    BY <2>2 DEF ValueBelow
  <2>4. IsFiniteSet(ValueBelow(ValuesAt(k)[m]))
    <3> DEFINE S == ValuesAt(k)[m]
               f == [o \in S |-> Nodes(o.way, ItemsOf(o.it))]
    <3>1. \A e \in S : IsFiniteSet(f[e]) BY <2>2
    <3>2. IsFiniteSet(S) /\ DOMAIN f = S BY <2>1
    <3>3. PICK U : U = ValueBelow(S) OBVIOUS
    <3>5. \A u \in U : \E e \in S : u \in f[e] BY <3>3 DEF ValueBelow
    <3> HIDE DEF S, f
    <3>4. IsFiniteSet(U) BY <3>1, <3>2, <3>5, ManyFinite
    <3>. QED BY <3>3, <3>4 DEF S
  <2>. QED BY <1>2, <2>1, <2>3, <2>4
<1>5. R \in SUBSET Nat
  OBVIOUS
<1> HIDE DEF R
<1>6. \A m \in Nat : m \in R
  BY <1>3, <1>4, <1>5, FromZeroOn
<1>. QED
  BY <1>2, <1>6 DEF R

LEMMA ValueNodes ==
  ASSUME StatedWell, NEW k \in DOMAIN stated
  PROVE  /\ RootsIn(k) \subseteq ValuesIn(k) /\ IsFiniteSet(ValuesIn(k))
         /\ \A o \in ValuesIn(k) :
              /\ o \in ValueNode /\ o.way[1] \in Seq(Nat) /\ o.way[1][1] = k /\ Level(o) \in 0 .. MaxDepth
              /\ Level(o) < MaxDepth => Nodes(o.way, ItemsOf(o.it)) \subseteq ValuesIn(k)
              /\ Level(o) = MaxDepth => TooDeepIn(k)
         /\ \A o \in ValuesAt(k)[MaxDepth] : o \in ValuesIn(k) /\ Level(o) = MaxDepth
<1>1. \A n \in Nat : /\ ValuesAt(k)[n] \subseteq StepsAt(k, n) /\ IsFiniteSet(ValuesAt(k)[n])
                     /\ ValuesAt(k)[n + 1] = ValueBelow(ValuesAt(k)[n])
  BY ValueLevelled
<1>2. MaxDepth \in Nat /\ ValuesAt(k)[0] = RootsIn(k)
  BY ExpandAssumption, ValueLevelled
<1>3. RootsIn(k) \subseteq ValuesIn(k)
  BY <1>2 DEF ValuesIn
<1>4. IsFiniteSet(ValuesIn(k))
  BY <1>1, LevelsFinite DEF ValuesIn
<1>5. ASSUME NEW o \in ValuesIn(k)
      PROVE  /\ o \in ValueNode /\ o.way[1] \in Seq(Nat) /\ o.way[1][1] = k /\ Level(o) \in 0 .. MaxDepth
             /\ Level(o) < MaxDepth => Nodes(o.way, ItemsOf(o.it)) \subseteq ValuesIn(k)
             /\ Level(o) = MaxDepth => TooDeepIn(k)
  <2>1. PICK n \in 0 .. MaxDepth : o \in ValuesAt(k)[n]
    BY DEF ValuesIn
  <2>2. n \in Nat /\ o \in ValueNode /\ Len(o.way) = n + 2 /\ o.way[1] \in Seq(Nat) /\ o.way[1][1] = k
    <3>1. n \in Nat BY <1>2
    <3>2. o \in StepsAt(k, n) BY <1>1, <2>1, <3>1
    <3>. QED BY <3>1, <3>2 DEF StepsAt
  <2>3. Level(o) = n
    BY <2>2 DEF Level
  <2>4. ASSUME n < MaxDepth PROVE Nodes(o.way, ItemsOf(o.it)) \subseteq ValuesIn(k)
    <3>1. Nodes(o.way, ItemsOf(o.it)) \subseteq ValuesAt(k)[n + 1]
      BY <1>1, <2>1, <2>2 DEF ValueBelow
    <3>2. n + 1 \in 0 .. MaxDepth BY <1>2, <2>2, <2>4
    <3>. QED BY <3>1, <3>2 DEF ValuesIn
  <2>5. n = MaxDepth => TooDeepIn(k)
    BY <2>1 DEF TooDeepIn
  <2>. QED BY <2>2, <2>3, <2>4, <2>5
<1>6. ASSUME NEW o \in ValuesAt(k)[MaxDepth] PROVE o \in ValuesIn(k) /\ Level(o) = MaxDepth
  <2>1. Len(o.way) = MaxDepth + 2 BY <1>1, <1>2 DEF StepsAt
  <2>2. MaxDepth \in 0 .. MaxDepth BY <1>2
  <2>. QED BY <1>2, <2>1, <2>2 DEF ValuesIn, Level
<1>. QED
  BY <1>3, <1>4, <1>5, <1>6

\* Whatever holds the roots, and with a node those below, holds all.
LEMMA ValueWithin ==
  ASSUME StatedWell, NEW k \in DOMAIN stated, NEW T, RootsIn(k) \subseteq T,
         \A o \in ValuesIn(k) : o \in T /\ Level(o) < MaxDepth => Nodes(o.way, ItemsOf(o.it)) \subseteq T
  PROVE  ValuesIn(k) \subseteq T
<1>1. \A n \in Nat : ValuesAt(k)[n + 1] = ValueBelow(ValuesAt(k)[n]) /\ ValuesAt(k)[n] \subseteq StepsAt(k, n)
  BY ValueLevelled
<1>2. MaxDepth \in Nat /\ ValuesAt(k)[0] = RootsIn(k)
  BY ExpandAssumption, ValueLevelled
<1> DEFINE R == {n \in Nat : n <= MaxDepth => ValuesAt(k)[n] \subseteq T}
<1>3. 0 \in R
  BY <1>2
<1>4. ASSUME NEW n \in R PROVE n + 1 \in R
  <2> SUFFICES ASSUME n + 1 <= MaxDepth PROVE ValuesAt(k)[n + 1] \subseteq T
    OBVIOUS
  <2>1. n \in Nat /\ n \in 0 .. MaxDepth /\ n < MaxDepth /\ ValuesAt(k)[n] \subseteq T
    BY <1>2
  <2>2. ASSUME NEW o \in ValuesAt(k)[n] PROVE Nodes(o.way, ItemsOf(o.it)) \subseteq T
    <3>1. o \in ValuesIn(k) BY <2>1 DEF ValuesIn
    <3>2. Level(o) = n BY <1>1, <2>1 DEF StepsAt, Level
    <3>. QED BY <2>1, <3>1, <3>2
  <2>. QED BY <1>1, <2>1, <2>2 DEF ValueBelow
<1>5. R \in SUBSET Nat
  OBVIOUS
<1> HIDE DEF R
<1>6. \A n \in Nat : n \in R
  BY <1>3, <1>4, <1>5, FromZeroOn
<1>7. \A n \in 0 .. MaxDepth : ValuesAt(k)[n] \subseteq T
  BY <1>2, <1>6 DEF R
<1>. QED
  BY <1>7 DEF ValuesIn

-----------------------------------------------------------------------------
(* What each place stands for: a node of what is stated, by its way.       *)

TermPlaces == parsed + 1 .. Len(terms)
This == Len(loaded) + 1
OfValue(v) == v.way[1][1]
OfOp(o) == o.way[1]

\* A place has what its node is, with the nodes below it in its run, or it
\* waits for the scan, with what is to be placed.
Listed(of, x) ==
  LET v == of[x].it
  IN  /\ terms[x].kind = v.kind /\ terms[x].count = Len(v.items) /\ Holdable(v)
      /\ terms[x].at \in Nat /\ terms[x].at >= parsed /\ terms[x].at + Len(v.items) <= Len(terms)
      /\ \A n \in 1 .. Len(v.items) :
           of[terms[x].at + n] = [way |-> Append(of[x].way, n), it |-> v.items[n]]
ValueDone(of, x) == IF IsContainer(of[x].it) THEN Listed(of, x) ELSE terms[x] = of[x].it
ValueAhead(of, x) ==
  IsContainer(of[x].it) /\ terms[x].kind = "pending" /\ terms[x].source = of[x].it

ValueHeld(of, x) ==
  /\ OfValue(of[x]) \in 1 .. This /\ OfValue(of[x]) \in DOMAIN stated
  /\ of[x] \in ValuesIn(OfValue(of[x]))
  /\ Loadable(of[x].it)
  /\ ValueDone(of, x) \/ (ValueAhead(of, x) /\ OfValue(of[x]) = This)
  /\ Level(of[x]) = MaxDepth => OfValue(of[x]) = This
ValuesHeld(of) == \A x \in TermPlaces : ValueHeld(of, x)

BodyHeld(oof, o, r) ==
  /\ r.at \in Nat /\ r.count = Len(o.it.body) /\ r.at + r.count <= Len(ops)
  /\ \A n \in 1 .. Len(o.it.body) : oof[r.at + n] = [way |-> Append(o.way, n), it |-> o.it.body[n]]
ParamsHeld(o, at) ==
  /\ at \in Nat /\ at + Len(o.params) <= Len(params)
  /\ \A n \in 1 .. Len(o.params) : params[at + n] = o.params[n]
OpDone(of, oof, z) ==
  LET o == oof[z].it
  IN  CASE o.op = "value" ->
             /\ ops[z].op = "value" /\ ops[z].term \in Nat /\ ops[z].term + 1 \in TermPlaces
             /\ of[ops[z].term + 1] = [way |-> Append(<<oof[z].way>>, 1), it |-> o.term]
        [] o.op = "closure" ->
             /\ ops[z].op = "closure" /\ ops[z].param_count = Len(o.params)
             /\ BodyHeld(oof, oof[z], ops[z]) /\ ParamsHeld(o, ops[z].param_at)
        [] OTHER -> ops[z] = o
OpAhead(oof, z) ==
  \/ ops[z].op = "unplaced"
  \/ oof[z].it.op = "closure" /\ ops[z].op = "pending" /\ ops[z].source = oof[z].it

OpHeld(of, oof, z) ==
  /\ OfOp(oof[z]) \in 1 .. This /\ OfOp(oof[z]) \in DOMAIN stated
  /\ oof[z] \in CodeIn(OfOp(oof[z]))
  /\ OpDone(of, oof, z) \/ (OpAhead(oof, z) /\ OfOp(oof[z]) = This)
  /\ Level(oof[z]) = MaxDepth => OfOp(oof[z]) = This
OpsHeld(of, oof) == AnySeq(params) /\ \A z \in 1 .. Len(ops) : OpHeld(of, oof, z)

\* The run of a statement has the nodes it begins with.
Rooted(of, oof, r, k) ==
  /\ r.at \in Nat
  /\ IF stated[k].kind = "predicate"
     THEN /\ r.count = Len(stated[k].terms) /\ r.at >= parsed /\ r.at + r.count <= Len(terms)
          /\ \A n \in 1 .. r.count : of[r.at + n] = [way |-> Append(<< <<k>> >>, n), it |-> stated[k].terms[n]]
     ELSE /\ r.count = Len(stated[k].ops) /\ r.at + r.count <= Len(ops)
          /\ \A n \in 1 .. r.count : oof[r.at + n] = [way |-> Append(<<k>>, n), it |-> stated[k].ops[n]]
RootsHeld(of, oof) ==
  /\ Len(loaded) <= Len(stated)
  /\ \A k \in 1 .. Len(loaded) : loaded[k].kind = stated[k].kind /\ Rooted(of, oof, loaded[k], k)

Held(of, oof) == ValuesHeld(of) /\ OpsHeld(of, oof) /\ RootsHeld(of, oof)

-----------------------------------------------------------------------------
(* What has been loaded is then what was stated.                           *)

LEMMA NodeValue ==
  ASSUME NEW k, NEW x, StatedWell, k \in DOMAIN stated, NEW of, of[x] \in ValuesIn(k)
  PROVE  /\ of[x].it \in WireValues /\ of[x].it.kind # "pending"
         /\ IsContainer(of[x].it) =>
              /\ of[x].it.items \in Seq(WireValues) /\ Len(of[x].it.items) \in Nat
              /\ DOMAIN of[x].it.items = 1 .. Len(of[x].it.items)
         /\ of[x].way \in Seq(Step) /\ of[x] = [way |-> of[x].way, it |-> of[x].it]
<1>1. of[x] \in ValueNode
  BY ValueNodes
<1>2. of[x].it \in WireValues /\ of[x].way \in Seq(Step) /\ of[x] = [way |-> of[x].way, it |-> of[x].it]
  BY <1>1 DEF ValueNode
<1>3. of[x].it.kind # "pending" /\ (IsContainer(of[x].it) => of[x].it.items \in Seq(WireValues))
  BY <1>2, WireAssumption DEF HoldAll
<1>. QED
  BY <1>2, <1>3, LenProperties

\* The places read side by side with a list are those of its nodes.
LEMMA ReadBack ==
  ASSUME NEW of, NEW r, NEW list, NEW P, P \subseteq DOMAIN terms,
         Beside(r, list) \subseteq {[place |-> x, it |-> of[x].it] : x \in P},
         \A x \in P :
           IF IsContainer(of[x].it)
           THEN /\ terms[x].kind = of[x].it.kind /\ terms[x].count = Len(of[x].it.items)
                /\ Beside(terms[x], of[x].it.items) \subseteq {[place |-> y, it |-> of[y].it] : y \in P}
           ELSE terms[x] = of[x].it
  PROVE  HoldsValues(r, list)
<1> DEFINE Q == {[place |-> x, it |-> of[x].it] : x \in P}
           Following(S) == UNION {Beside(terms[p.place], ItemsOf(p.it)) : p \in {q \in S : IsValue(q)}}
           Def(g) == g = [n \in Nat |-> IF n = 0 THEN Beside(r, list)
                                        ELSE UNION {Beside(terms[p.place], ItemsOf(p.it)) : p \in {q \in g[n - 1] : IsValue(q)}}]
           to == CHOOSE g : Def(g)
           X == SUBSET Q
           first == Beside(r, list)
           next == [S \in X |-> Following(S)]
<1>0. ASSUME NEW q \in Q
      PROVE  IsValue(q) /\ Beside(terms[q.place], ItemsOf(q.it)) \subseteq Q
  <2>1. PICK x \in P : q.place = x /\ q.it = of[x].it
    OBVIOUS
  <2>2. IsValue(q)
    BY <2>1 DEF IsValue
  <2>3. Beside(terms[q.place], ItemsOf(q.it)) \subseteq Q
    BY <2>1 DEF ItemsOf, Beside
  <2>. QED BY <2>2, <2>3
<1>1. \A S \in X : Following(S) \in X
  BY <1>0
<1>2. next \in [X -> X] /\ first \in X
  BY <1>1
<1>3. PICK f \in [Nat -> X] : f = [n \in Nat |-> IF n = 0 THEN first ELSE next[f[n - 1]]]
  <2> HIDE DEF X, first, next
  <2>. QED BY <1>2, InRounds
<1>4. \A n \in Nat : f[n] = IF n = 0 THEN first ELSE Following(f[n - 1])
  <2> SUFFICES ASSUME NEW n \in Nat PROVE f[n] = IF n = 0 THEN first ELSE Following(f[n - 1])
    OBVIOUS
  <2> HIDE DEF Following
  <2>1. CASE n = 0
    BY <1>3, <2>1
  <2>2. CASE n # 0
    <3>1. n - 1 \in Nat BY <2>2
    <3>2. f[n - 1] \in X BY <3>1, <1>3
    <3>3. next[f[n - 1]] = Following(f[n - 1]) BY <3>2
    <3> HIDE DEF X, first, next
    <3>4. f[n] = next[f[n - 1]] BY <1>3, <2>2
    <3>. QED BY <3>3, <3>4, <2>2
  <2>. QED BY <2>1, <2>2
<1>5. Def(f)
  <2>1. f = [n \in Nat |-> f[n]] BY <1>3
  <2>. QED BY <1>4, <2>1, Zenon
<1>6. Def(to)
  <2> HIDE DEF Def
  <2>. QED BY <1>5
<1>7. \A n \in Nat : to[n] = IF n = 0 THEN first ELSE Following(to[n - 1])
  <2> HIDE DEF to
  <2>. QED BY <1>6, Zenon
<1>8. (\A n \in 0 .. MaxDepth : \A p \in to[n] : IsValue(p)) => HoldsValues(r, list)
  BY Zenon DEF HoldsValues
<1> HIDE DEF to, Def, first
<1>9. to[0] \subseteq Q
  BY <1>2, <1>7
<1>10. \A n \in Nat : to[n + 1] = Following(to[n])
  <2> SUFFICES ASSUME NEW n \in Nat PROVE to[n + 1] = Following(to[n])
    OBVIOUS
  <2> HIDE DEF Following
  <2>1. n + 1 \in Nat /\ n + 1 # 0 /\ (n + 1) - 1 = n OBVIOUS
  <2>2. to[n + 1] = Following(to[(n + 1) - 1]) BY <1>7, <2>1
  <2>. QED BY <2>1, <2>2
<1>11. \A n \in Nat : to[n] \subseteq Q
  <2>1. ASSUME NEW n \in Nat, to[n] \subseteq Q PROVE to[n + 1] \subseteq Q
    BY <1>1, <1>10, <2>1
  <2> HIDE DEF Q, Following
  <2>. QED BY <1>9, <2>1, AllLevels
<1>12. 0 .. MaxDepth \subseteq Nat
  BY ExpandAssumption
<1>. QED
  <2> HIDE DEF Q
  <2>. QED BY <1>0, <1>8, <1>11, <1>12

\* Operations likewise.
LEMMA ReadBackCode ==
  ASSUME NEW oof, NEW r, NEW code, NEW P,
         Beside(r, code) \subseteq {[place |-> z, it |-> oof[z].it] : z \in P},
         \A z \in P :
           /\ IsOp([place |-> z, it |-> oof[z].it])
           /\ Beside(ops[z], BodyOf(oof[z].it)) \subseteq {[place |-> y, it |-> oof[y].it] : y \in P}
  PROVE  HoldsCode(r, code)
<1> DEFINE Q == {[place |-> z, it |-> oof[z].it] : z \in P}
           Following(S) == UNION {Beside(ops[p.place], BodyOf(p.it)) : p \in {q \in S : IsOp(q)}}
           Def(g) == g = [n \in Nat |-> IF n = 0 THEN Beside(r, code)
                                        ELSE UNION {Beside(ops[p.place], BodyOf(p.it)) : p \in {q \in g[n - 1] : IsOp(q)}}]
           to == CHOOSE g : Def(g)
           X == SUBSET Q
           first == Beside(r, code)
           next == [S \in X |-> Following(S)]
<1>0. ASSUME NEW q \in Q
      PROVE  IsOp(q) /\ Beside(ops[q.place], BodyOf(q.it)) \subseteq Q
  <2>1. PICK z \in P : q = [place |-> z, it |-> oof[z].it]
    OBVIOUS
  <2>2. IsOp(q) /\ q.place = z /\ q.it = oof[z].it
    BY <2>1
  <2>. QED BY <2>2
<1>1. \A S \in X : Following(S) \in X
  BY <1>0
<1>2. next \in [X -> X] /\ first \in X
  BY <1>1
<1>3. PICK f \in [Nat -> X] : f = [n \in Nat |-> IF n = 0 THEN first ELSE next[f[n - 1]]]
  <2> HIDE DEF X, first, next
  <2>. QED BY <1>2, InRounds
<1>4. \A n \in Nat : f[n] = IF n = 0 THEN first ELSE Following(f[n - 1])
  <2> SUFFICES ASSUME NEW n \in Nat PROVE f[n] = IF n = 0 THEN first ELSE Following(f[n - 1])
    OBVIOUS
  <2> HIDE DEF Following
  <2>1. CASE n = 0
    BY <1>3, <2>1
  <2>2. CASE n # 0
    <3>1. n - 1 \in Nat BY <2>2
    <3>2. f[n - 1] \in X BY <3>1, <1>3
    <3>3. next[f[n - 1]] = Following(f[n - 1]) BY <3>2
    <3> HIDE DEF X, first, next
    <3>4. f[n] = next[f[n - 1]] BY <1>3, <2>2
    <3>. QED BY <3>3, <3>4, <2>2
  <2>. QED BY <2>1, <2>2
<1>5. Def(f)
  <2>1. f = [n \in Nat |-> f[n]] BY <1>3
  <2>. QED BY <1>4, <2>1, Zenon
<1>6. Def(to)
  <2> HIDE DEF Def
  <2>. QED BY <1>5
<1>7. \A n \in Nat : to[n] = IF n = 0 THEN first ELSE Following(to[n - 1])
  <2> HIDE DEF to
  <2>. QED BY <1>6, Zenon
<1>8. (\A n \in 0 .. MaxDepth : \A p \in to[n] : IsOp(p)) => HoldsCode(r, code)
  BY Zenon DEF HoldsCode
<1> HIDE DEF to, Def, first
<1>9. to[0] \subseteq Q
  BY <1>2, <1>7
<1>10. \A n \in Nat : to[n + 1] = Following(to[n])
  <2> SUFFICES ASSUME NEW n \in Nat PROVE to[n + 1] = Following(to[n])
    OBVIOUS
  <2> HIDE DEF Following
  <2>1. n + 1 \in Nat /\ n + 1 # 0 /\ (n + 1) - 1 = n OBVIOUS
  <2>2. to[n + 1] = Following(to[(n + 1) - 1]) BY <1>7, <2>1
  <2>. QED BY <2>1, <2>2
<1>11. \A n \in Nat : to[n] \subseteq Q
  <2>1. ASSUME NEW n \in Nat, to[n] \subseteq Q PROVE to[n + 1] \subseteq Q
    BY <1>1, <1>10, <2>1
  <2> HIDE DEF Q, Following
  <2>. QED BY <1>9, <2>1, AllLevels
<1>12. 0 .. MaxDepth \subseteq Nat
  BY ExpandAssumption
<1>. QED
  <2> HIDE DEF Q
  <2>. QED BY <1>0, <1>8, <1>11, <1>12

\* A closed set of places of values: all of one statement.
PlacesFor(of, k) == {x \in TermPlaces : OfValue(of[x]) = k}
OpsFor(oof, k) == {z \in 1 .. Len(ops) : OfOp(oof[z]) = k}

LEMMA HeldPools ==
  ASSUME Shapes
  PROVE  /\ Len(terms) \in Nat /\ DOMAIN terms = 1 .. Len(terms) /\ parsed \in Nat
         /\ TermPlaces \subseteq DOMAIN terms
         /\ Len(ops) \in Nat /\ DOMAIN ops = 1 .. Len(ops)
         /\ Len(loaded) \in Nat /\ DOMAIN loaded = 1 .. Len(loaded)
         /\ Len(stated) \in Nat /\ DOMAIN stated = 1 .. Len(stated) /\ StatedWell
BY SeqShape, LenProperties DEF Shapes, TermPlaces, StatedWell

\* One step further along a way: the first step stays.
LEMMA WaysOn ==
  ASSUME NEW W, NEW way \in Seq(W), Len(way) >= 1, NEW n \in W
  PROVE  /\ Append(way, n) \in Seq(W) /\ Len(Append(way, n)) = Len(way) + 1
         /\ Append(way, n)[1] = way[1]
         /\ Len(way) \in Nat
BY AppendProperties, LenProperties

LEMMA ListedBelow ==
  ASSUME Shapes, NEW of, ValuesHeld(of), NEW x \in TermPlaces, Listed(of, x),
         IsContainer(of[x].it)
  PROVE  Beside(terms[x], of[x].it.items) \subseteq
           {[place |-> y, it |-> of[y].it] : y \in PlacesFor(of, OfValue(of[x]))}
<1>1. /\ Len(terms) \in Nat /\ parsed \in Nat
  BY HeldPools
<1>2. of[x] \in ValuesIn(OfValue(of[x])) /\ OfValue(of[x]) \in DOMAIN stated /\ StatedWell
  BY HeldPools DEF ValuesHeld, ValueHeld
<1>3. /\ Len(of[x].it.items) \in Nat /\ DOMAIN of[x].it.items = 1 .. Len(of[x].it.items)
      /\ of[x].way \in Seq(Step)
  BY <1>2, NodeValue
<1>4. Len(of[x].way) >= 1
  <2>1. Level(of[x]) \in 0 .. MaxDepth BY <1>2, ValueNodes
  <2>2. Len(of[x].way) \in Nat BY <1>3, LenProperties
  <2>. QED BY <2>1, <2>2, ExpandAssumption DEF Level
<1>5. ASSUME NEW n \in 1 .. Len(of[x].it.items)
      PROVE  \E y \in PlacesFor(of, OfValue(of[x])) :
               [place |-> terms[x].at + n, it |-> of[x].it.items[n]] = [place |-> y, it |-> of[y].it]
  <2> DEFINE y == terms[x].at + n
  <2>1. of[y] = [way |-> Append(of[x].way, n), it |-> of[x].it.items[n]]
    BY DEF Listed
  <2>2. y \in TermPlaces
    BY <1>1, <1>3 DEF Listed, TermPlaces
  <2>3. n \in Step
    BY <1>3 DEF Step
  <2>4. Append(of[x].way, n)[1] = of[x].way[1]
    BY <1>3, <1>4, <2>3, WaysOn
  <2>5. y \in PlacesFor(of, OfValue(of[x]))
    BY <2>1, <2>2, <2>4 DEF PlacesFor, OfValue
  <2>. QED BY <2>1, <2>5
<1>. QED
  BY <1>3, <1>5 DEF Beside

LEMMA ValuesRead ==
  ASSUME Shapes, NEW of, ValuesHeld(of), NEW k \in DOMAIN stated, k # This, NEW r, NEW list,
         DOMAIN list = 1 .. Len(list),
         \A n \in DOMAIN list : /\ r.at + n \in TermPlaces /\ OfValue(of[r.at + n]) = k
                                /\ of[r.at + n].it = list[n]
  PROVE  HoldsValues(r, list)
<1> DEFINE P == PlacesFor(of, k)
<1>1. P \subseteq DOMAIN terms /\ P \subseteq TermPlaces
  BY HeldPools DEF PlacesFor
<1>2. Beside(r, list) \subseteq {[place |-> x, it |-> of[x].it] : x \in P}
  BY DEF Beside, PlacesFor
<1>3. ASSUME NEW x \in P
      PROVE  IF IsContainer(of[x].it)
             THEN /\ terms[x].kind = of[x].it.kind /\ terms[x].count = Len(of[x].it.items)
                  /\ Beside(terms[x], of[x].it.items) \subseteq {[place |-> y, it |-> of[y].it] : y \in P}
             ELSE terms[x] = of[x].it
  <2>1. x \in TermPlaces /\ OfValue(of[x]) = k
    BY DEF PlacesFor
  <2>2. ValueDone(of, x)
    BY <2>1 DEF ValuesHeld, ValueHeld
  <2>3. CASE IsContainer(of[x].it)
    <3>1. Listed(of, x) BY <2>2, <2>3 DEF ValueDone
    <3>2. Beside(terms[x], of[x].it.items) \subseteq {[place |-> y, it |-> of[y].it] : y \in P}
      BY <2>1, <2>3, <3>1, ListedBelow
    <3>. QED BY <2>3, <3>1, <3>2 DEF Listed
  <2>. QED BY <2>2, <2>3 DEF ValueDone
<1> HIDE DEF P
<1>. QED
  BY <1>1, <1>2, <1>3, ReadBack

LEMMA OpNodeOf ==
  ASSUME NEW k, NEW z, StatedWell, k \in DOMAIN stated, NEW oof, oof[z] \in CodeIn(k)
  PROVE  /\ oof[z].it \in WireOps /\ oof[z].way \in Seq(Nat)
         /\ oof[z] = [way |-> oof[z].way, it |-> oof[z].it]
         /\ Len(oof[z].way) >= 2 /\ Len(oof[z].way) \in Nat
         /\ oof[z].it.op \in {"value", "unary", "binary", "closure"}
         /\ oof[z].it.op = "closure" =>
              /\ oof[z].it.body \in Seq(WireOps) /\ Len(oof[z].it.body) \in Nat
              /\ DOMAIN oof[z].it.body = 1 .. Len(oof[z].it.body)
              /\ oof[z].it.params \in Seq(STRING) /\ Len(oof[z].it.params) \in Nat
              /\ DOMAIN oof[z].it.params = 1 .. Len(oof[z].it.params)
<1>1. oof[z] \in OpNode /\ Level(oof[z]) \in 0 .. MaxDepth
  BY CodeNodes
<1>2. oof[z].it \in WireOps /\ oof[z].way \in Seq(Nat) /\ oof[z] = [way |-> oof[z].way, it |-> oof[z].it]
  BY <1>1 DEF OpNode
<1>3. Len(oof[z].way) >= 2 /\ Len(oof[z].way) \in Nat
  BY <1>1, <1>2, LenProperties, ExpandAssumption DEF Level
<1>4. oof[z].it.op \in {"value", "unary", "binary", "closure"}
  BY <1>2, WireOp
<1>5. oof[z].it.op = "closure" => oof[z].it.body \in Seq(WireOps) /\ oof[z].it.params \in Seq(STRING)
  BY <1>2, WireAssumption DEF HoldAll
<1>. QED
  BY <1>2, <1>3, <1>4, <1>5, LenProperties

LEMMA OpRead ==
  ASSUME Shapes, NEW of, NEW oof, ValuesHeld(of), OpsHeld(of, oof),
         NEW z \in 1 .. Len(ops), OfOp(oof[z]) # This
  PROVE  /\ IsOp([place |-> z, it |-> oof[z].it])
         /\ Beside(ops[z], BodyOf(oof[z].it)) \subseteq
              {[place |-> y, it |-> oof[y].it] : y \in OpsFor(oof, OfOp(oof[z]))}
<1> DEFINE k == OfOp(oof[z])
           o == oof[z].it
           p == [place |-> z, it |-> oof[z].it]
<1>1. /\ z \in DOMAIN ops /\ Len(ops) \in Nat /\ StatedWell
  BY HeldPools
<1>2. OpHeld(of, oof, z) /\ k \in DOMAIN stated /\ oof[z] \in CodeIn(k) /\ OpDone(of, oof, z)
  BY DEF OpsHeld, OpHeld
<1>3. /\ o \in WireOps /\ oof[z].way \in Seq(Nat) /\ Len(oof[z].way) >= 2
      /\ o.op \in {"value", "unary", "binary", "closure"}
      /\ o.op = "closure" => /\ Len(o.body) \in Nat /\ DOMAIN o.body = 1 .. Len(o.body)
                             /\ Len(o.params) \in Nat /\ DOMAIN o.params = 1 .. Len(o.params)
  BY <1>1, <1>2, OpNodeOf
<1>4. p.place = z /\ p.it = o
  OBVIOUS
<1>5. CASE o.op = "value"
  <2>1. /\ ops[z].op = "value" /\ ops[z].term \in Nat /\ ops[z].term + 1 \in TermPlaces
        /\ of[ops[z].term + 1] = [way |-> Append(<<oof[z].way>>, 1), it |-> o.term]
    BY <1>2, <1>5 DEF OpDone
  <2>2. OfValue(of[ops[z].term + 1]) = k
    <3>1. oof[z].way \in Step /\ 1 \in Step BY <1>3 DEF Step
    <3>2. <<oof[z].way>> \in Seq(Step) /\ Len(<<oof[z].way>>) = 1 /\ <<oof[z].way>>[1] = oof[z].way
      BY <3>1
    <3>3. Append(<<oof[z].way>>, 1)[1] = oof[z].way
      BY <3>1, <3>2, WaysOn
    <3>. QED BY <2>1, <3>3 DEF OfValue, OfOp
  <2>3. HoldsValues([at |-> ops[z].term], <<o.term>>)
    <3> DEFINE r == [at |-> ops[z].term]
               list == <<o.term>>
    <3>1. DOMAIN list = 1 .. Len(list)
      OBVIOUS
    <3>2. \A n \in DOMAIN list : /\ r.at + n \in TermPlaces /\ OfValue(of[r.at + n]) = k
                                 /\ of[r.at + n].it = list[n]
      <4>1. of[ops[z].term + 1].it = o.term BY <2>1
      <4>2. \A n \in DOMAIN list : n = 1 OBVIOUS
      <4>3. list[1] = o.term /\ r.at = ops[z].term OBVIOUS
      <4> HIDE DEF list, r
      <4>. QED BY <2>1, <2>2, <4>1, <4>2, <4>3
    <3>3. k # This /\ k \in DOMAIN stated BY <1>2
    <3> HIDE DEF list, r, k
    <3>4. HoldsValues(r, list) BY <3>1, <3>2, <3>3, ValuesRead
    <3>. QED BY <3>4 DEF list, r
  <2>4. IsOp(p)
    BY <1>1, <1>4, <1>5, <2>1, <2>3 DEF IsOp
  <2>5. Beside(ops[z], BodyOf(o)) = {}
    <3>1. BodyOf(o) = <<>> BY <1>5 DEF BodyOf
    <3>2. \A n \in DOMAIN <<>> : FALSE OBVIOUS
    <3>. QED BY <3>1, <3>2 DEF Beside
  <2>. QED BY <2>4, <2>5
<1>6. CASE o.op = "closure"
  <2>1. /\ ops[z].op = "closure" /\ ops[z].param_count = Len(o.params)
        /\ BodyHeld(oof, oof[z], ops[z]) /\ ParamsHeld(o, ops[z].param_at)
    BY <1>2, <1>6 DEF OpDone
  <2>2. /\ ops[z].count = Len(o.body)
        /\ \A n \in 1 .. Len(o.body) :
             /\ ops[z].at + n \in 1 .. Len(ops)
             /\ oof[ops[z].at + n] = [way |-> Append(oof[z].way, n), it |-> o.body[n]]
    <3>1. /\ ops[z].at \in Nat /\ ops[z].count = Len(o.body) /\ ops[z].at + Len(o.body) <= Len(ops)
          /\ \A n \in 1 .. Len(o.body) :
               oof[ops[z].at + n] = [way |-> Append(oof[z].way, n), it |-> o.body[n]]
      BY <2>1 DEF BodyHeld
    <3>2. Len(o.body) \in Nat BY <1>3, <1>6
    <3> HIDE DEF o
    <3>. QED BY <1>1, <3>1, <3>2
  <2>3. \A n \in DOMAIN o.params :
          ops[z].param_at + n \in DOMAIN params /\ params[ops[z].param_at + n] = o.params[n]
    <3>1. ops[z].param_at \in Nat /\ ops[z].param_at + Len(o.params) <= Len(params)
          /\ \A n \in 1 .. Len(o.params) : params[ops[z].param_at + n] = o.params[n]
      BY <2>1 DEF ParamsHeld
    <3>2. DOMAIN params = 1 .. Len(params) /\ Len(params) \in Nat
      BY SeqShape DEF OpsHeld
    <3>3. Len(o.params) \in Nat /\ DOMAIN o.params = 1 .. Len(o.params)
      BY <1>3, <1>6
    <3> HIDE DEF o
    <3>. QED BY <3>1, <3>2, <3>3
  <2>4. IsOp(p)
    BY <1>1, <1>4, <1>6, <2>1, <2>2, <2>3 DEF IsOp
  <2>5. ASSUME NEW n \in DOMAIN o.body
        PROVE  \E y \in OpsFor(oof, k) :
                 [place |-> ops[z].at + n, it |-> o.body[n]] = [place |-> y, it |-> oof[y].it]
    <3> DEFINE y == ops[z].at + n
    <3>0. n \in 1 .. Len(o.body) /\ n \in Nat BY <1>3, <1>6
    <3>1. y \in 1 .. Len(ops) /\ oof[y] = [way |-> Append(oof[z].way, n), it |-> o.body[n]]
      BY <2>2, <3>0
    <3>2. Append(oof[z].way, n)[1] = oof[z].way[1]
      <4>1. Len(oof[z].way) >= 1 BY <1>3, LenProperties
      <4>. QED BY <1>3, <3>0, <4>1, WaysOn
    <3>3. y \in OpsFor(oof, k)
      BY <3>1, <3>2 DEF OpsFor, OfOp
    <3>. QED BY <3>1, <3>3
  <2>6. Beside(ops[z], BodyOf(o)) \subseteq {[place |-> y, it |-> oof[y].it] : y \in OpsFor(oof, k)}
    <3>1. BodyOf(o) = o.body BY <1>6 DEF BodyOf
    <3>. QED BY <2>5, <3>1 DEF Beside
  <2>. QED BY <2>4, <2>6
<1>7. CASE o.op \in {"unary", "binary"}
  <2>1. ops[z] = o
    BY <1>2, <1>7 DEF OpDone
  <2>2. IsOp(p)
    BY <1>1, <1>4, <1>7, <2>1 DEF IsOp
  <2>3. Beside(ops[z], BodyOf(o)) = {}
    <3>1. BodyOf(o) = <<>> BY <1>7 DEF BodyOf
    <3>2. \A n \in DOMAIN <<>> : FALSE OBVIOUS
    <3>. QED BY <3>1, <3>2 DEF Beside
  <2>. QED BY <2>2, <2>3
<1>. QED
  BY <1>3, <1>5, <1>6, <1>7

LEMMA CodeRead ==
  ASSUME Shapes, NEW of, NEW oof, ValuesHeld(of), OpsHeld(of, oof), NEW k \in DOMAIN stated, k # This,
         NEW r, NEW code, DOMAIN code = 1 .. Len(code),
         \A n \in DOMAIN code : /\ r.at + n \in 1 .. Len(ops) /\ OfOp(oof[r.at + n]) = k
                                /\ oof[r.at + n].it = code[n]
  PROVE  HoldsCode(r, code)
<1> DEFINE P == OpsFor(oof, k)
<1>1. Beside(r, code) \subseteq {[place |-> z, it |-> oof[z].it] : z \in P}
  BY DEF Beside, OpsFor
<1>2. ASSUME NEW z \in P
      PROVE  /\ IsOp([place |-> z, it |-> oof[z].it])
             /\ Beside(ops[z], BodyOf(oof[z].it)) \subseteq {[place |-> y, it |-> oof[y].it] : y \in P}
  <2>1. z \in 1 .. Len(ops) /\ OfOp(oof[z]) = k
    BY DEF OpsFor
  <2>2. OfOp(oof[z]) # This
    BY <2>1
  <2>3. /\ IsOp([place |-> z, it |-> oof[z].it])
        /\ Beside(ops[z], BodyOf(oof[z].it)) \subseteq {[place |-> y, it |-> oof[y].it] : y \in OpsFor(oof, OfOp(oof[z]))}
    <3> HIDE DEF P
    <3>. QED BY <2>1, <2>2, OpRead
  <2>. QED BY <2>1, <2>3
<1> HIDE DEF P
<1>. QED
  BY <1>1, <1>2, ReadBackCode

\* Every node of what has been loaded has its place.
LEMMA CodePlaced ==
  ASSUME Shapes, NEW of, NEW oof, Held(of, oof), NEW k \in DOMAIN loaded
  PROVE  CodeIn(k) \subseteq {oof[z] : z \in OpsFor(oof, k)}
<1> DEFINE T == {oof[z] : z \in OpsFor(oof, k)}
<1>1. /\ Len(ops) \in Nat /\ StatedWell /\ k \in 1 .. Len(loaded) /\ k # This /\ k \in Nat
      /\ k \in DOMAIN stated
  BY HeldPools DEF Held, RootsHeld, This
<1>2. CodeRoots(k) \subseteq T
  <2>1. CASE stated[k].kind = "predicate"
    BY <2>1 DEF CodeRoots
  <2>2. CASE stated[k].kind # "predicate"
    <3>1. Rooted(of, oof, loaded[k], k)
      BY <1>1 DEF Held, RootsHeld
    <3>2. stated[k].kind = "expression" /\ stated[k].ops \in Seq(WireOps)
      BY <1>1, <2>2, StatedPart
    <3>3. Len(stated[k].ops) \in Nat /\ DOMAIN stated[k].ops = 1 .. Len(stated[k].ops)
      BY <3>2, LenProperties
    <3>4. /\ loaded[k].at \in Nat /\ loaded[k].count = Len(stated[k].ops) /\ loaded[k].at + loaded[k].count <= Len(ops)
          /\ \A n \in 1 .. loaded[k].count :
               oof[loaded[k].at + n] = [way |-> Append(<<k>>, n), it |-> stated[k].ops[n]]
      BY <2>2, <3>1 DEF Rooted
    <3>5. ASSUME NEW n \in DOMAIN stated[k].ops
          PROVE  [way |-> Append(<<k>>, n), it |-> stated[k].ops[n]] \in T
      <4>1. loaded[k].at + n \in 1 .. Len(ops) /\ n \in Nat
        BY <1>1, <3>3, <3>4
      <4>2. oof[loaded[k].at + n] = [way |-> Append(<<k>>, n), it |-> stated[k].ops[n]]
        BY <3>3, <3>4
      <4>3. Append(<<k>>, n)[1] = k
        <5>1. <<k>> \in Seq(Nat) /\ Len(<<k>>) >= 1 /\ <<k>>[1] = k BY <1>1
        <5>. QED BY <4>1, <5>1, WaysOn
      <4>4. loaded[k].at + n \in OpsFor(oof, k)
        BY <4>1, <4>2, <4>3 DEF OpsFor, OfOp
      <4>. QED BY <4>2, <4>4
    <3>. QED BY <3>2, <3>5 DEF CodeRoots, Nodes
  <2>. QED BY <2>1, <2>2
<1>3. ASSUME NEW o \in CodeIn(k), o \in T PROVE Nodes(o.way, BodyOf(o.it)) \subseteq T
  <2>1. PICK z \in OpsFor(oof, k) : o = oof[z]
    BY <1>3
  <2>2. z \in 1 .. Len(ops) /\ OfOp(oof[z]) = k
    BY DEF OpsFor
  <2>3. OpDone(of, oof, z)
    BY <1>1, <2>2 DEF Held, OpsHeld, OpHeld
  <2>4. /\ o.way \in Seq(Nat) /\ Len(o.way) >= 2
        /\ o.it.op = "closure" => /\ Len(o.it.body) \in Nat /\ DOMAIN o.it.body = 1 .. Len(o.it.body)
    BY <1>1, <2>1, OpNodeOf
  <2>5. CASE o.it.op = "closure"
    <3>1. /\ ops[z].at \in Nat /\ ops[z].count = Len(o.it.body) /\ ops[z].at + Len(o.it.body) <= Len(ops)
          /\ \A n \in 1 .. Len(o.it.body) :
               oof[ops[z].at + n] = [way |-> Append(o.way, n), it |-> o.it.body[n]]
      BY <2>1, <2>3, <2>5 DEF OpDone, BodyHeld
    <3>2. ASSUME NEW n \in DOMAIN o.it.body
          PROVE  [way |-> Append(o.way, n), it |-> o.it.body[n]] \in T
      <4>1. ops[z].at + n \in 1 .. Len(ops) /\ n \in Nat
        <5>1. ops[z].at \in Nat /\ ops[z].at + Len(o.it.body) <= Len(ops)
          BY <3>1
        <5>2. Len(o.it.body) \in Nat /\ n \in 1 .. Len(o.it.body)
          BY <2>4, <2>5
        <5>. QED BY <1>1, <5>1, <5>2
      <4>2. oof[ops[z].at + n] = [way |-> Append(o.way, n), it |-> o.it.body[n]]
        BY <2>4, <2>5, <3>1
      <4>3. Append(o.way, n)[1] = o.way[1]
        <5>1. Len(o.way) >= 1 BY <2>4, LenProperties
        <5>. QED BY <2>4, <4>1, <5>1, WaysOn
      <4>4. ops[z].at + n \in OpsFor(oof, k)
        BY <2>1, <2>2, <4>1, <4>2, <4>3 DEF OpsFor, OfOp
      <4>. QED BY <4>2, <4>4
    <3>3. BodyOf(o.it) = o.it.body BY <2>5 DEF BodyOf
    <3>. QED BY <3>2, <3>3 DEF Nodes
  <2>6. CASE o.it.op # "closure"
    <3>1. BodyOf(o.it) = <<>> BY <2>6 DEF BodyOf
    <3>2. \A n \in DOMAIN <<>> : FALSE OBVIOUS
    <3>. QED BY <3>1, <3>2 DEF Nodes
  <2>. QED BY <2>5, <2>6
<1> HIDE DEF T
<1>4. CodeIn(k) \subseteq T
  BY <1>1, <1>2, <1>3, CodeWithin
<1>. QED
  BY <1>4 DEF T

LEMMA ValuesPlaced ==
  ASSUME Shapes, NEW of, NEW oof, Held(of, oof), NEW k \in DOMAIN loaded
  PROVE  ValuesIn(k) \subseteq {of[x] : x \in PlacesFor(of, k)}
<1> DEFINE T == {of[x] : x \in PlacesFor(of, k)}
<1>1. /\ Len(terms) \in Nat /\ parsed \in Nat /\ StatedWell /\ k \in 1 .. Len(loaded) /\ k # This /\ k \in Nat
      /\ k \in DOMAIN stated
  BY HeldPools DEF Held, RootsHeld, This
<1>2. RootsIn(k) \subseteq T
  <2>1. CASE stated[k].kind = "predicate"
    <3>1. Rooted(of, oof, loaded[k], k)
      BY <1>1 DEF Held, RootsHeld
    <3>2. stated[k].terms \in Seq(WireValues)
      BY <1>1, <2>1, StatedPart
    <3>3. Len(stated[k].terms) \in Nat /\ DOMAIN stated[k].terms = 1 .. Len(stated[k].terms)
      BY <3>2, LenProperties
    <3>4. /\ loaded[k].at \in Nat /\ loaded[k].count = Len(stated[k].terms)
          /\ loaded[k].at >= parsed /\ loaded[k].at + loaded[k].count <= Len(terms)
          /\ \A n \in 1 .. loaded[k].count :
               of[loaded[k].at + n] = [way |-> Append(<< <<k>> >>, n), it |-> stated[k].terms[n]]
      BY <2>1, <3>1 DEF Rooted
    <3>5. ASSUME NEW n \in DOMAIN stated[k].terms
          PROVE  [way |-> Append(<< <<k>> >>, n), it |-> stated[k].terms[n]] \in T
      <4>1. loaded[k].at + n \in TermPlaces /\ n \in Nat
        BY <1>1, <3>3, <3>4 DEF TermPlaces
      <4>2. of[loaded[k].at + n] = [way |-> Append(<< <<k>> >>, n), it |-> stated[k].terms[n]]
        BY <3>3, <3>4
      <4>3. Append(<< <<k>> >>, n)[1] = <<k>>
        <5>0. <<k>> \in Seq(Nat) BY <1>1
        <5>1. <<k>> \in Step /\ n \in Step BY <4>1, <5>0 DEF Step
        <5>2. << <<k>> >> \in Seq(Step) /\ Len(<< <<k>> >>) >= 1 /\ << <<k>> >>[1] = <<k>> BY <5>1
        <5>. QED BY <5>1, <5>2, WaysOn
      <4>4. loaded[k].at + n \in PlacesFor(of, k)
        BY <4>1, <4>2, <4>3 DEF PlacesFor, OfValue
      <4>. QED BY <4>2, <4>4
    <3>. QED BY <2>1, <3>5 DEF RootsIn, Nodes
  <2>2. CASE stated[k].kind # "predicate"
    <3>1. ASSUME NEW o \in CodeIn(k), o.it.op = "value"
          PROVE  Nodes(<<o.way>>, <<o.it.term>>) \subseteq T
      <4>1. PICK z \in OpsFor(oof, k) : o = oof[z]
        BY CodePlaced
      <4>2. z \in 1 .. Len(ops) /\ OfOp(oof[z]) = k
        BY DEF OpsFor
      <4>3. OpDone(of, oof, z)
        BY <1>1, <4>2 DEF Held, OpsHeld, OpHeld
      <4>4. /\ ops[z].term + 1 \in TermPlaces
            /\ of[ops[z].term + 1] = [way |-> Append(<<o.way>>, 1), it |-> o.it.term]
        BY <3>1, <4>1, <4>3 DEF OpDone
      <4>5. o.way \in Seq(Nat)
        BY <1>1, <4>1, OpNodeOf
      <4>6. Append(<<o.way>>, 1)[1] = o.way
        <5>1. o.way \in Step /\ 1 \in Step BY <4>5 DEF Step
        <5>2. <<o.way>> \in Seq(Step) /\ Len(<<o.way>>) >= 1 /\ <<o.way>>[1] = o.way BY <5>1
        <5>. QED BY <5>1, <5>2, WaysOn
      <4>7. ops[z].term + 1 \in PlacesFor(of, k)
        BY <4>1, <4>2, <4>4, <4>6 DEF PlacesFor, OfValue, OfOp
      <4>8. [way |-> Append(<<o.way>>, 1), it |-> o.it.term] \in T
        BY <4>4, <4>7
      <4>9. \A n \in DOMAIN <<o.it.term>> : n = 1 /\ <<o.it.term>>[n] = o.it.term
        OBVIOUS
      <4> HIDE DEF T
      <4>. QED BY <4>8, <4>9 DEF Nodes
    <3>. QED BY <2>2, <3>1 DEF RootsIn
  <2>. QED BY <2>1, <2>2
<1>3. ASSUME NEW v \in ValuesIn(k), v \in T PROVE Nodes(v.way, ItemsOf(v.it)) \subseteq T
  <2>1. PICK x \in PlacesFor(of, k) : v = of[x]
    BY <1>3
  <2>2. x \in TermPlaces /\ OfValue(of[x]) = k
    BY DEF PlacesFor
  <2>3. ValueDone(of, x) /\ ValuesHeld(of)
    BY <1>1, <2>2 DEF Held, ValuesHeld, ValueHeld
  <2>4. v.way \in Seq(Step) /\ Len(v.way) >= 1
    <3>1. v \in ValueNode /\ Level(v) \in 0 .. MaxDepth BY <1>1, ValueNodes
    <3>2. v.way \in Seq(Step) BY <3>1 DEF ValueNode
    <3>. QED BY <3>1, <3>2, LenProperties, ExpandAssumption DEF Level
  <2>5. IsContainer(v.it) =>
          /\ Len(v.it.items) \in Nat /\ DOMAIN v.it.items = 1 .. Len(v.it.items)
    BY <1>1, <2>1, NodeValue
  <2>6. CASE IsContainer(v.it)
    <3>1. /\ terms[x].at \in Nat /\ terms[x].at >= parsed /\ terms[x].at + Len(v.it.items) <= Len(terms)
          /\ \A n \in 1 .. Len(v.it.items) :
               of[terms[x].at + n] = [way |-> Append(v.way, n), it |-> v.it.items[n]]
      BY <2>1, <2>3, <2>6 DEF ValueDone, Listed
    <3>2. ASSUME NEW n \in DOMAIN v.it.items
          PROVE  [way |-> Append(v.way, n), it |-> v.it.items[n]] \in T
      <4>1. terms[x].at + n \in TermPlaces /\ n \in Nat
        <5>1. terms[x].at \in Nat /\ terms[x].at >= parsed /\ terms[x].at + Len(v.it.items) <= Len(terms)
          BY <3>1
        <5>2. Len(v.it.items) \in Nat /\ n \in 1 .. Len(v.it.items)
          BY <2>5, <2>6
        <5>. QED BY <1>1, <5>1, <5>2 DEF TermPlaces
      <4>2. of[terms[x].at + n] = [way |-> Append(v.way, n), it |-> v.it.items[n]]
        BY <2>5, <2>6, <3>1
      <4>3. Append(v.way, n)[1] = v.way[1]
        <5>1. n \in Step BY <4>1 DEF Step
        <5>. QED BY <2>4, <5>1, WaysOn
      <4>4. terms[x].at + n \in PlacesFor(of, k)
        BY <2>1, <2>2, <4>1, <4>2, <4>3 DEF PlacesFor, OfValue
      <4>. QED BY <4>2, <4>4
    <3>3. ItemsOf(v.it) = v.it.items BY <2>6 DEF ItemsOf
    <3>. QED BY <3>2, <3>3 DEF Nodes
  <2>7. CASE ~IsContainer(v.it)
    <3>1. ItemsOf(v.it) = <<>> BY <2>7 DEF ItemsOf
    <3>2. \A n \in DOMAIN <<>> : FALSE OBVIOUS
    <3>. QED BY <3>1, <3>2 DEF Nodes
  <2>. QED BY <2>6, <2>7
<1> HIDE DEF T
<1>4. ValuesIn(k) \subseteq T
  BY <1>1, <1>2, <1>3, ValueWithin
<1>. QED
  BY <1>4 DEF T

\* What has been loaded was not too deep, and nothing in it to be refused.
LEMMA LoadedWell ==
  ASSUME Shapes, NEW of, NEW oof, Held(of, oof), NEW k \in DOMAIN loaded
  PROVE  ~TooDeepIn(k) /\ ~Refusable(k)
<1>1. /\ StatedWell /\ k # This /\ k \in DOMAIN stated
  BY HeldPools DEF Held, RootsHeld, This
<1>2. \A v \in ValuesIn(k) :
        /\ Level(v) # MaxDepth /\ Loadable(v.it)
        /\ IsContainer(v.it) => Holdable(v.it)
  <2>1. TAKE v \in ValuesIn(k)
  <2>2. PICK x \in PlacesFor(of, k) : v = of[x]
    BY ValuesPlaced
  <2>3. x \in TermPlaces /\ OfValue(of[x]) = k
    BY DEF PlacesFor
  <2>4. ValueHeld(of, x)
    BY <2>3 DEF Held, ValuesHeld
  <2>5. Level(v) # MaxDepth /\ Loadable(v.it) /\ ValueDone(of, x)
    BY <1>1, <2>2, <2>3, <2>4 DEF ValueHeld
  <2>. QED BY <2>2, <2>5 DEF ValueDone, Listed
<1>3. \A o \in CodeIn(k) : Level(o) # MaxDepth
  <2>1. TAKE o \in CodeIn(k)
  <2>2. PICK z \in OpsFor(oof, k) : o = oof[z]
    BY CodePlaced
  <2>3. z \in 1 .. Len(ops) /\ OfOp(oof[z]) = k
    BY DEF OpsFor
  <2>. QED BY <1>1, <2>2, <2>3 DEF Held, OpsHeld, OpHeld
<1>4. ~TooDeepIn(k)
  BY <1>1, <1>2, <1>3, CodeNodes, ValueNodes DEF TooDeepIn
<1>. QED
  BY <1>2, <1>4 DEF Refusable

LEMMA LoadedRight ==
  ASSUME Shapes, NEW of, NEW oof, Held(of, oof), NEW k \in DOMAIN loaded
  PROVE  SaysWhat(loaded[k], stated[k])
<1>1. /\ Len(terms) \in Nat /\ parsed \in Nat /\ Len(ops) \in Nat /\ StatedWell
      /\ k \in 1 .. Len(loaded) /\ k # This /\ k \in Nat /\ k \in DOMAIN stated
  BY HeldPools DEF Held, RootsHeld, This
<1>2. Rooted(of, oof, loaded[k], k) /\ loaded[k].kind = stated[k].kind
  BY <1>1 DEF Held, RootsHeld
<1>3. CASE stated[k].kind = "predicate"
  <2>1. stated[k].terms \in Seq(WireValues)
    BY <1>1, <1>3, StatedPart
  <2> DEFINE list == stated[k].terms
             r == loaded[k]
  <2>2. Len(list) \in Nat /\ DOMAIN list = 1 .. Len(list)
    BY <2>1, LenProperties
  <2>3. /\ r.at \in Nat /\ r.count = Len(list) /\ r.at >= parsed /\ r.at + r.count <= Len(terms)
        /\ \A n \in 1 .. r.count : of[r.at + n] = [way |-> Append(<< <<k>> >>, n), it |-> list[n]]
    BY <1>2, <1>3 DEF Rooted
  <2>4. ASSUME NEW n \in DOMAIN list
        PROVE  r.at + n \in TermPlaces /\ OfValue(of[r.at + n]) = k /\ of[r.at + n].it = list[n]
    <3>1. r.at + n \in TermPlaces /\ n \in Nat
      BY <1>1, <2>2, <2>3 DEF TermPlaces
    <3>2. of[r.at + n] = [way |-> Append(<< <<k>> >>, n), it |-> list[n]]
      BY <2>2, <2>3
    <3>3. Append(<< <<k>> >>, n)[1] = <<k>>
      <4>0. <<k>> \in Seq(Nat) BY <1>1
      <4>1. <<k>> \in Step /\ n \in Step BY <3>1, <4>0 DEF Step
      <4>2. << <<k>> >> \in Seq(Step) /\ Len(<< <<k>> >>) >= 1 /\ << <<k>> >>[1] = <<k>> BY <4>1
      <4>. QED BY <4>1, <4>2, WaysOn
    <3>. QED BY <3>1, <3>2, <3>3 DEF OfValue
  <2>5. HoldsValues(r, list)
    <3>1. ValuesHeld(of) BY DEF Held
    <3>2. PICK ll, rr : ll = list /\ rr = r OBVIOUS
    <3>3. /\ DOMAIN ll = 1 .. Len(ll)
          /\ \A n \in DOMAIN ll : /\ rr.at + n \in TermPlaces /\ OfValue(of[rr.at + n]) = k
                                  /\ of[rr.at + n].it = ll[n]
      <4> HIDE DEF list, r
      <4>. QED BY <2>2, <2>4, <3>2
    <3>4. HoldsValues(rr, ll)
      BY <1>1, <3>1, <3>3, ValuesRead
    <3>. QED BY <3>2, <3>4
  <2>. QED BY <1>2, <1>3, <2>3, <2>5 DEF SaysWhat
<1>4. CASE stated[k].kind # "predicate"
  <2>1. stated[k].ops \in Seq(WireOps)
    BY <1>1, <1>4, StatedPart
  <2> DEFINE code == stated[k].ops
             r == loaded[k]
  <2>2. Len(code) \in Nat /\ DOMAIN code = 1 .. Len(code)
    BY <2>1, LenProperties
  <2>3. /\ r.at \in Nat /\ r.count = Len(code) /\ r.at + r.count <= Len(ops)
        /\ \A n \in 1 .. r.count : oof[r.at + n] = [way |-> Append(<<k>>, n), it |-> code[n]]
    BY <1>2, <1>4 DEF Rooted
  <2>4. ASSUME NEW n \in DOMAIN code
        PROVE  r.at + n \in 1 .. Len(ops) /\ OfOp(oof[r.at + n]) = k /\ oof[r.at + n].it = code[n]
    <3>1. r.at + n \in 1 .. Len(ops) /\ n \in Nat
      BY <1>1, <2>2, <2>3
    <3>2. oof[r.at + n] = [way |-> Append(<<k>>, n), it |-> code[n]]
      BY <2>2, <2>3
    <3>3. Append(<<k>>, n)[1] = k
      <4>1. <<k>> \in Seq(Nat) /\ Len(<<k>>) >= 1 /\ <<k>>[1] = k BY <1>1
      <4>. QED BY <3>1, <4>1, WaysOn
    <3>. QED BY <3>1, <3>2, <3>3 DEF OfOp
  <2>5. HoldsCode(r, code)
    <3>1. ValuesHeld(of) /\ OpsHeld(of, oof) BY DEF Held
    <3>2. PICK cc, rr : cc = code /\ rr = r OBVIOUS
    <3>3. /\ DOMAIN cc = 1 .. Len(cc)
          /\ \A n \in DOMAIN cc : /\ rr.at + n \in 1 .. Len(ops) /\ OfOp(oof[rr.at + n]) = k
                                  /\ oof[rr.at + n].it = cc[n]
      <4> HIDE DEF code, r
      <4>. QED BY <2>2, <2>4, <3>2
    <3>4. HoldsCode(rr, cc)
      BY <1>1, <3>1, <3>3, CodeRead
    <3>. QED BY <3>2, <3>4
  <2>. QED BY <1>2, <1>4, <2>3, <2>5 DEF SaysWhat
<1>. QED
  BY <1>3, <1>4

-----------------------------------------------------------------------------
(* A pool grows: what its places stand for, and how many there can be.     *)

Apart(f, S) == \A x, y \in S : f[x].way = f[y].way => x = y
Unused(f, S, way) == \A x \in S : \A n \in Nat : f[x].way # Append(way, n)
Grown(f, end, way, list) ==
  [x \in Nat |-> IF x <= end THEN f[x] ELSE [way |-> Append(way, x - end), it |-> list[x - end]]]

LEMMA NodeParts ==
  ASSUME NEW way, NEW it, NEW e, e = [way |-> way, it |-> it]
  PROVE  e.way = way /\ e.it = it
OBVIOUS

LEMMA GrownWell ==
  ASSUME NEW f, NEW first \in Nat, NEW end \in Nat, NEW W, Nat \subseteq W, NEW way \in Seq(W),
         NEW list, Len(list) \in Nat, Apart(f, first .. end), Unused(f, first .. end, way)
  PROVE  /\ \A x \in first .. end : Grown(f, end, way, list)[x] = f[x]
         /\ \A n \in 1 .. Len(list) :
              Grown(f, end, way, list)[end + n] = [way |-> Append(way, n), it |-> list[n]]
         /\ Apart(Grown(f, end, way, list), first .. end + Len(list))
<1> DEFINE g == Grown(f, end, way, list)
<1>1. \A x \in first .. end : g[x] = f[x]
  BY DEF Grown
<1>2. ASSUME NEW n \in 1 .. Len(list)
      PROVE  g[end + n] = [way |-> Append(way, n), it |-> list[n]]
  <2>1. end + n \in Nat /\ ~(end + n <= end) /\ (end + n) - end = n
    OBVIOUS
  <2>2. g[end + n] = [way |-> Append(way, (end + n) - end), it |-> list[(end + n) - end]]
    BY <2>1 DEF Grown
  <2>. QED BY <2>1, <2>2
<1> HIDE DEF g
<1>3. \A n, m \in Nat : Append(way, n) = Append(way, m) => n = m
  BY AppendInjective
<1>4. ASSUME NEW x \in first .. end + Len(list), NEW y \in first .. end + Len(list), g[x].way = g[y].way
      PROVE  x = y
  <2>1. x \in first .. end \/ \E n \in 1 .. Len(list) : x = end + n
    <3>1. x \in first .. end \/ (x - end \in 1 .. Len(list) /\ x = end + (x - end))
      OBVIOUS
    <3>. QED BY <3>1
  <2>2. y \in first .. end \/ \E m \in 1 .. Len(list) : y = end + m
    <3>1. y \in first .. end \/ (y - end \in 1 .. Len(list) /\ y = end + (y - end))
      OBVIOUS
    <3>. QED BY <3>1
  <2>3. CASE x \in first .. end /\ y \in first .. end
    BY <1>1, <1>4, <2>3 DEF Apart
  <2>4. ASSUME x \in first .. end, NEW m \in 1 .. Len(list), y = end + m PROVE FALSE
    <3>1. g[end + m].way = Append(way, m)
      <4>1. g[end + m] = [way |-> Append(way, m), it |-> list[m]] BY <1>2
      <4>. QED BY <4>1, NodeParts
    <3>2. f[x].way = Append(way, m) BY <1>1, <1>4, <2>4, <3>1
    <3>. QED BY <2>4, <3>2 DEF Unused
  <2>5. ASSUME y \in first .. end, NEW n \in 1 .. Len(list), x = end + n PROVE FALSE
    <3>1. g[end + n].way = Append(way, n)
      <4>1. g[end + n] = [way |-> Append(way, n), it |-> list[n]] BY <1>2
      <4>. QED BY <4>1, NodeParts
    <3>2. f[y].way = Append(way, n) BY <1>1, <1>4, <2>5, <3>1
    <3>. QED BY <2>5, <3>2 DEF Unused
  <2>6. ASSUME NEW n \in 1 .. Len(list), x = end + n, NEW m \in 1 .. Len(list), y = end + m PROVE x = y
    <3>1. g[end + n].way = Append(way, n)
      <4>1. g[end + n] = [way |-> Append(way, n), it |-> list[n]] BY <1>2
      <4>. QED BY <4>1, NodeParts
    <3>2. g[end + m].way = Append(way, m)
      <4>1. g[end + m] = [way |-> Append(way, m), it |-> list[m]] BY <1>2
      <4>. QED BY <4>1, NodeParts
    <3>3. n = m BY <1>3, <1>4, <2>6, <3>1, <3>2
    <3>. QED BY <2>6, <3>3
  <2>. QED BY <2>1, <2>2, <2>3, <2>4, <2>5, <2>6
<1>5. Apart(g, first .. end + Len(list))
  BY <1>4 DEF Apart
<1>. QED
  BY <1>1, <1>2, <1>5 DEF g

LEMMA RoomFor ==
  ASSUME NEW f, NEW first \in Nat, NEW n \in Nat, NEW S, IsFiniteSet(S),
         Apart(f, first + 1 .. first + n), \A x \in first + 1 .. first + n : f[x] \in S
  PROVE  n <= Cardinality(S) /\ Cardinality(S) \in Nat
<1> DEFINE T == first + 1 .. first + n
           g == [x \in T |-> f[x]]
<1>1. IsFiniteSet(T) /\ Cardinality(T) = n
  BY FS_Interval
<1>2. g \in Injection(T, S)
  BY DEF Injection, Apart, IsInjective
<1> HIDE DEF T, g
<1>. QED
  BY <1>1, <1>2, FS_Injection, FS_CardinalityType

LEMMA BegunFinite ==
  ASSUME Shapes, Left
  PROVE  /\ This \in DOMAIN stated /\ Begun \subseteq DOMAIN stated
         /\ IsFiniteSet(UNION {ValuesIn(k) : k \in Begun})
         /\ IsFiniteSet(UNION {CodeIn(k) : k \in Begun})
         /\ IsFiniteSet(UNION {ParamsIn(k) : k \in Begun})
         /\ \A k \in Begun : IsFiniteSet(ParamsIn(k))
<1>1. /\ Len(loaded) \in Nat /\ DOMAIN stated = 1 .. Len(stated) /\ Len(stated) \in Nat /\ StatedWell
  BY HeldPools
<1>2. This \in DOMAIN stated /\ Begun \subseteq DOMAIN stated
  BY <1>1 DEF This, Begun, Left
<1>3. IsFiniteSet(Begun)
  <2>1. Len(loaded) + 1 \in Nat BY <1>1
  <2>. QED BY <2>1, FS_Interval DEF Begun
<1>4. ASSUME NEW k \in Begun PROVE IsFiniteSet(ParamsIn(k))
  <2>1. k \in DOMAIN stated BY <1>2
  <2> DEFINE f == [o \in CodeIn(k) |-> Nodes(o.way, ParamsOf(o.it))]
  <2>2. IsFiniteSet(CodeIn(k)) BY <1>1, <2>1, CodeNodes
  <2>3. ASSUME NEW o \in CodeIn(k) PROVE IsFiniteSet(f[o])
    <3>1. o \in OpNode /\ Level(o) \in 0 .. MaxDepth BY <1>1, <2>1, CodeNodes
    <3>2. o.way \in Seq(Nat) /\ o.it \in WireOps BY <3>1 DEF OpNode
    <3>3. Len(o.way) >= 1 BY <3>1, <3>2, LenProperties, ExpandAssumption DEF Level
    <3>4. ParamsOf(o.it) \in Seq(STRING)
      <4>1. CASE o.it.op = "closure" BY <3>2, <4>1, WireOp DEF ParamsOf
      <4>2. CASE o.it.op # "closure"
        <5>1. <<>> \in Seq(STRING) BY EmptySeq
        <5>. QED BY <4>2, <5>1 DEF ParamsOf
      <4>. QED BY <4>1, <4>2
    <3>5. IsFiniteSet(Nodes(o.way, ParamsOf(o.it))) BY <3>2, <3>3, <3>4, NodesDeeper
    <3>. QED BY <3>5
  <2>4. \A u \in ParamsIn(k) : \E o \in CodeIn(k) : u \in f[o]
    BY DEF ParamsIn
  <2>5. DOMAIN f = CodeIn(k) OBVIOUS
  <2> HIDE DEF f
  <2>. QED BY <2>2, <2>3, <2>4, <2>5, ManyFinite
<1>5. IsFiniteSet(UNION {ValuesIn(k) : k \in Begun})
  <2> DEFINE f == [k \in Begun |-> ValuesIn(k)]
  <2>1. \A k \in Begun : IsFiniteSet(f[k]) BY <1>1, <1>2, ValueNodes
  <2>2. PICK U : U = UNION {ValuesIn(k) : k \in Begun} OBVIOUS
  <2>3. \A u \in U : \E k \in Begun : u \in f[k] BY <2>2
  <2>4. DOMAIN f = Begun OBVIOUS
  <2> HIDE DEF f
  <2>5. IsFiniteSet(U) BY <1>3, <2>1, <2>3, <2>4, ManyFinite
  <2>. QED BY <2>2, <2>5
<1>6. IsFiniteSet(UNION {CodeIn(k) : k \in Begun})
  <2> DEFINE f == [k \in Begun |-> CodeIn(k)]
  <2>1. \A k \in Begun : IsFiniteSet(f[k]) BY <1>1, <1>2, CodeNodes
  <2>2. PICK U : U = UNION {CodeIn(k) : k \in Begun} OBVIOUS
  <2>3. \A u \in U : \E k \in Begun : u \in f[k] BY <2>2
  <2>4. DOMAIN f = Begun OBVIOUS
  <2> HIDE DEF f
  <2>5. IsFiniteSet(U) BY <1>3, <2>1, <2>3, <2>4, ManyFinite
  <2>. QED BY <2>2, <2>5
<1>7. IsFiniteSet(UNION {ParamsIn(k) : k \in Begun})
  <2> DEFINE f == [k \in Begun |-> ParamsIn(k)]
  <2>1. \A k \in Begun : IsFiniteSet(f[k]) BY <1>4
  <2>2. PICK U : U = UNION {ParamsIn(k) : k \in Begun} OBVIOUS
  <2>3. \A u \in U : \E k \in Begun : u \in f[k] BY <2>2
  <2>4. DOMAIN f = Begun OBVIOUS
  <2> HIDE DEF f
  <2>5. IsFiniteSet(U) BY <1>3, <2>1, <2>3, <2>4, ManyFinite
  <2>. QED BY <2>2, <2>5
<1>. QED
  BY <1>2, <1>4, <1>5, <1>6, <1>7

LEMMA NodesStay ==
  ASSUME UNCHANGED stated, NEW k
  PROVE  /\ CodeIn(k)' = CodeIn(k) /\ ValuesIn(k)' = ValuesIn(k) /\ ParamsIn(k)' = ParamsIn(k)
         /\ RootsIn(k)' = RootsIn(k)
         /\ (TooDeepIn(k)' <=> TooDeepIn(k)) /\ (Refusable(k)' <=> Refusable(k))
<1>1. CodeAt(k)' = CodeAt(k)
  BY Zenon DEF CodeAt
<1>2. CodeIn(k)' = CodeIn(k)
  BY <1>1, Zenon DEF CodeIn
<1>3. ParamsIn(k)' = ParamsIn(k)
  BY <1>2, Zenon DEF ParamsIn
<1>4. RootsIn(k)' = RootsIn(k)
  BY <1>2, Zenon DEF RootsIn
<1>5. ValuesAt(k)' = ValuesAt(k)
  BY <1>4, Zenon DEF ValuesAt
<1>6. ValuesIn(k)' = ValuesIn(k)
  BY <1>5, Zenon DEF ValuesIn
<1>7. TooDeepIn(k)' <=> TooDeepIn(k)
  BY <1>1, <1>5, Zenon DEF TooDeepIn
<1>8. Refusable(k)' <=> Refusable(k)
  BY <1>6 DEF Refusable
<1>. QED
  BY <1>2, <1>3, <1>4, <1>6, <1>7, <1>8

-----------------------------------------------------------------------------
(* While a block is loaded.                                                *)

\* A closure whose body has been placed, or is being placed.
Opened(z) == ops[z].op = "closure" \/ (Placing /\ odepth # 0 /\ z = oi + 1)
OpPlaces == 1 .. Len(ops)

ValuesApart(of) ==
  /\ Apart(of, TermPlaces)
  /\ \A y \in TermPlaces : Len(of[y].way) > 2 =>
       \E x \in TermPlaces : terms[x].kind # "pending" /\ \E n \in Nat : of[y].way = Append(of[x].way, n)
ValuesOfOps(of, oof) ==
  \A y \in TermPlaces :
    \/ Len(of[y].way[1]) = 1
    \/ \E z \in OpPlaces : ops[z].op = "value" /\ oof[z].way = of[y].way[1]
OpsApart(oof) ==
  /\ Apart(oof, OpPlaces)
  /\ \A y \in OpPlaces : Len(oof[y].way) > 2 =>
       \E z \in OpPlaces : Opened(z) /\ \E n \in Nat : oof[y].way = Append(oof[z].way, n)
ParamsApart(oof, pof) ==
  /\ Apart(pof, 1 .. Len(params))
  /\ \A p \in 1 .. Len(params) :
       /\ \E k \in Begun : pof[p] \in ParamsIn(k)
       /\ \E z \in OpPlaces : Opened(z) /\ \E n \in Nat : pof[p].way = Append(oof[z].way, n)

\* The scans come by level after level, and never come to the last.
ScanHeld(of) ==
  /\ pc = "terms" =>
       /\ depth \in 1 .. MaxDepth /\ level_end \in Nat /\ level_end <= Len(terms) /\ i >= parsed
       /\ \A x \in TermPlaces : x > i =>
            OfValue(of[x]) = This /\ Level(of[x]) = IF x <= level_end THEN depth - 1 ELSE depth
  /\ \A x \in TermPlaces : Level(of[x]) = MaxDepth => pc = "terms" /\ x > i
OpScanHeld(oof) ==
  /\ odepth <= MaxDepth
  /\ Expanding =>
       /\ olevel_end \in Nat /\ olevel_end <= Len(ops)
       /\ \A z \in OpPlaces : z > oi =>
            /\ OfOp(oof[z]) = This
            /\ Level(oof[z]) = IF odepth = 0 THEN 0 ELSE IF z <= olevel_end THEN odepth - 1 ELSE odepth
  /\ Placing /\ odepth # 0 => oi + 1 <= olevel_end
  /\ \A z \in OpPlaces : Level(oof[z]) = MaxDepth => Expanding /\ z > oi

\* The run being placed has the operations still to place.
RunHeld(oof) ==
  Placing =>
    /\ \A n \in 1 .. Len(source) : /\ ops[slot + n - 1].op = "unplaced"
                                   /\ oof[slot + n - 1].it = source[n]
    /\ odepth # 0 => /\ ops[oi + 1].op = "pending"
                     /\ BodyHeld(oof, oof[oi + 1], run)
                     /\ ParamsHeld(oof[oi + 1].it, ops[oi + 1].param_at)

PartHeld(of, oof) ==
  /\ pc = "next" => /\ \A x \in TermPlaces : OfValue(of[x]) # This
                    /\ \A z \in OpPlaces : OfOp(oof[z]) # This
  /\ pc # "next" => Left /\ Rooted(of, oof, root, This)

Running(of, oof, pof) ==
  /\ ValuesApart(of) /\ ValuesOfOps(of, oof) /\ OpsApart(oof) /\ ParamsApart(oof, pof)
  /\ ScanHeld(of) /\ OpScanHeld(oof) /\ RunHeld(oof) /\ PartHeld(of, oof)

Spread(of, oof, pof) == Held(of, oof) /\ (pc # "stopped" => Running(of, oof, pof))

\* Why a load has ended.
Causes ==
  /\ status = "OK" => Len(loaded) = Len(stated)
  /\ status = "DEPTH" => TooDeepIn(This)
  /\ status = "MALFORMED" => Refusable(This)
  /\ status = "NOMEM" => \E pool \in {"terms", "ops", "params"} : Needed(pool) > limits[pool]

\* `of', `oof' and `pof' are what the places of the three pools stand for.
NestingInv ==
  /\ limits \in [terms : Nat, ops : Nat, params : Nat, text : Nat]
  /\ \E of, oof, pof : Spread(of, oof, pof)
  /\ Causes

-----------------------------------------------------------------------------
(* What a step leaves as it is.                                            *)

Kept(f, g, S) == \A x \in S : g[x] = f[x]
PoolsKept == /\ Len(terms) <= Len(terms') /\ Len(ops) <= Len(ops') /\ Len(params) <= Len(params')
             /\ Len(params') \in Nat /\ Len(terms') \in Nat /\ Len(ops') \in Nat
             /\ \A p \in 1 .. Len(params) : params'[p] = params[p]

LEMMA ValueStays ==
  ASSUME Shapes, NEW of, NEW of2, ValuesHeld(of), UNCHANGED <<stated, parsed, loaded>>, PoolsKept,
         Kept(of, of2, TermPlaces), NEW x \in TermPlaces, terms'[x] = terms[x]
  PROVE  ValueHeld(of2, x)'
<1>1. /\ Len(terms) \in Nat /\ parsed \in Nat /\ StatedWell
  BY HeldPools
<1>2. of2[x] = of[x] /\ ValueHeld(of, x)
  BY DEF Kept, ValuesHeld
<1>3. This' = This
  BY DEF This
<1>4. ValuesIn(OfValue(of[x]))' = ValuesIn(OfValue(of[x]))
  BY NodesStay
<1>5. IsContainer(of[x].it) => Len(of[x].it.items) \in Nat
  BY <1>1, <1>2, NodeValue DEF ValueHeld
<1>6. ASSUME IsContainer(of[x].it), Listed(of, x) PROVE Listed(of2, x)'
  <2> DEFINE v == of[x].it
  <2>1. /\ terms[x].kind = v.kind /\ terms[x].count = Len(v.items) /\ Holdable(v)
        /\ terms[x].at \in Nat /\ terms[x].at >= parsed /\ terms[x].at + Len(v.items) <= Len(terms)
        /\ \A n \in 1 .. Len(v.items) :
             of[terms[x].at + n] = [way |-> Append(of[x].way, n), it |-> v.items[n]]
    BY <1>6 DEF Listed
  <2>2. ASSUME NEW n \in 1 .. Len(v.items) PROVE of2[terms[x].at + n] = of[terms[x].at + n]
    <3>1. terms[x].at + n \in TermPlaces
      <4>1. Len(v.items) \in Nat BY <1>5, <1>6
      <4>2. terms[x].at \in Nat /\ terms[x].at >= parsed /\ terms[x].at + Len(v.items) <= Len(terms) BY <2>1
      <4> HIDE DEF v
      <4>. QED BY <1>1, <4>1, <4>2 DEF TermPlaces
    <3>. QED BY <3>1 DEF Kept
  <2>3. terms[x].at + Len(v.items) <= Len(terms')
    <3>1. Len(v.items) \in Nat BY <1>5, <1>6
    <3>2. terms[x].at \in Nat /\ terms[x].at + Len(v.items) <= Len(terms) BY <2>1
    <3>3. Len(terms) <= Len(terms') /\ Len(terms') \in Nat BY DEF PoolsKept
    <3> HIDE DEF v
    <3>. QED BY <1>1, <3>1, <3>2, <3>3
  <2>. QED BY <1>2, <2>1, <2>2, <2>3 DEF Listed
<1>7. ValueDone(of, x) => ValueDone(of2, x)'
  BY <1>2, <1>6 DEF ValueDone
<1>8. ValueAhead(of, x) => ValueAhead(of2, x)'
  BY <1>2 DEF ValueAhead
<1>. QED
  BY <1>2, <1>3, <1>4, <1>7, <1>8 DEF ValueHeld

LEMMA OpStays ==
  ASSUME Shapes, NEW of, NEW of2, NEW oof, NEW oof2, ValuesHeld(of), OpsHeld(of, oof),
         UNCHANGED <<stated, parsed, loaded>>, PoolsKept,
         Kept(of, of2, TermPlaces), Kept(oof, oof2, OpPlaces), NEW z \in OpPlaces, ops'[z] = ops[z]
  PROVE  OpHeld(of2, oof2, z)'
<1>1. /\ Len(ops) \in Nat /\ Len(terms) \in Nat /\ parsed \in Nat /\ StatedWell
      /\ DOMAIN params = 1 .. Len(params) /\ Len(params) \in Nat
  BY HeldPools, SeqShape DEF OpsHeld
<1>2. oof2[z] = oof[z] /\ OpHeld(of, oof, z)
  BY DEF Kept, OpsHeld, OpPlaces
<1>3. This' = This
  BY DEF This
<1>4. CodeIn(OfOp(oof[z]))' = CodeIn(OfOp(oof[z]))
  BY NodesStay
<1> DEFINE o == oof[z].it
<1>5. /\ o.op \in {"value", "unary", "binary", "closure"}
      /\ o.op = "closure" => Len(o.body) \in Nat /\ Len(o.params) \in Nat
  BY <1>1, <1>2, OpNodeOf DEF OpHeld
<1>6. ASSUME OpDone(of, oof, z) PROVE OpDone(of2, oof2, z)'
  <2>1. CASE o.op = "value"
    <3>1. /\ ops[z].op = "value" /\ ops[z].term \in Nat /\ ops[z].term + 1 \in TermPlaces
          /\ of[ops[z].term + 1] = [way |-> Append(<<oof[z].way>>, 1), it |-> o.term]
      BY <1>6, <2>1 DEF OpDone
    <3>2. of2[ops[z].term + 1] = of[ops[z].term + 1] /\ (ops[z].term + 1 \in TermPlaces)'
      BY <1>1, <3>1 DEF Kept, TermPlaces, PoolsKept
    <3>. QED BY <1>2, <2>1, <3>1, <3>2 DEF OpDone
  <2>2. CASE o.op = "closure"
    <3>1. /\ ops[z].op = "closure" /\ ops[z].param_count = Len(o.params)
          /\ BodyHeld(oof, oof[z], ops[z]) /\ ParamsHeld(o, ops[z].param_at)
      BY <1>6, <2>2 DEF OpDone
    <3>2. BodyHeld(oof2, oof2[z], ops[z])'
      <4>1. /\ ops[z].at \in Nat /\ ops[z].count = Len(o.body) /\ ops[z].at + Len(o.body) <= Len(ops)
            /\ \A n \in 1 .. Len(o.body) : oof[ops[z].at + n] = [way |-> Append(oof[z].way, n), it |-> o.body[n]]
        BY <3>1 DEF BodyHeld
      <4>2. ASSUME NEW n \in 1 .. Len(o.body) PROVE oof2[ops[z].at + n] = oof[ops[z].at + n]
        <5>1. Len(o.body) \in Nat BY <1>5, <2>2
        <5>2. ops[z].at \in Nat /\ ops[z].at + Len(o.body) <= Len(ops) BY <4>1
        <5> HIDE DEF o
        <5>3. ops[z].at + n \in OpPlaces BY <1>1, <5>1, <5>2 DEF OpPlaces
        <5>. QED BY <5>3 DEF Kept
      <4>3. ops[z].at + Len(o.body) <= Len(ops')
        <5>1. Len(o.body) \in Nat BY <1>5, <2>2
        <5>2. ops[z].at \in Nat /\ ops[z].at + Len(o.body) <= Len(ops) BY <4>1
        <5>3. Len(ops) <= Len(ops') /\ Len(ops') \in Nat BY DEF PoolsKept
        <5> HIDE DEF o
        <5>. QED BY <1>1, <5>1, <5>2, <5>3
      <4>. QED BY <1>2, <4>1, <4>2, <4>3 DEF BodyHeld
    <3>3. ParamsHeld(o, ops[z].param_at)'
      <4>1. /\ ops[z].param_at \in Nat /\ ops[z].param_at + Len(o.params) <= Len(params)
            /\ \A n \in 1 .. Len(o.params) : params[ops[z].param_at + n] = o.params[n]
        BY <3>1 DEF ParamsHeld
      <4>2. Len(o.params) \in Nat BY <1>5, <2>2
      <4>3. /\ Len(params) <= Len(params') /\ Len(params') \in Nat
            /\ \A p \in 1 .. Len(params) : params'[p] = params[p]
        BY DEF PoolsKept
      <4> HIDE DEF o
      <4>4. /\ ops[z].param_at + Len(o.params) <= Len(params')
            /\ \A n \in 1 .. Len(o.params) : params'[ops[z].param_at + n] = o.params[n]
        <5>1. PICK at, m : at = ops[z].param_at /\ m = Len(o.params) OBVIOUS
        <5>2. at \in Nat /\ m \in Nat /\ at + m <= Len(params) /\ \A n \in 1 .. m : params[at + n] = o.params[n]
          BY <4>1, <4>2, <5>1
        <5>3. at + m <= Len(params') BY <1>1, <4>3, <5>2
        <5>4. ASSUME NEW n \in 1 .. m PROVE params'[at + n] = o.params[n]
          <6>1. at + n \in 1 .. Len(params) BY <1>1, <5>2
          <6>. QED BY <4>3, <5>2, <6>1
        <5>. QED BY <5>1, <5>3, <5>4
      <4>. QED BY <4>1, <4>4 DEF ParamsHeld
    <3>. QED BY <1>2, <2>2, <3>1, <3>2, <3>3 DEF OpDone
  <2>3. CASE o.op \in {"unary", "binary"}
    BY <1>2, <1>6, <2>3 DEF OpDone
  <2>. QED BY <1>5, <2>1, <2>2, <2>3
<1>7. OpAhead(oof, z) => OpAhead(oof2, z)'
  BY <1>2 DEF OpAhead
<1>. QED
  BY <1>2, <1>3, <1>4, <1>6, <1>7 DEF OpHeld

LEMMA RootStays ==
  ASSUME Shapes, NEW of, NEW of2, NEW oof, NEW oof2, UNCHANGED <<stated, parsed>>, PoolsKept,
         Kept(of, of2, TermPlaces), Kept(oof, oof2, OpPlaces), NEW r, NEW k \in DOMAIN stated,
         Rooted(of, oof, r, k)
  PROVE  Rooted(of2, oof2, r, k)'
<1>1. /\ Len(ops) \in Nat /\ Len(terms) \in Nat /\ parsed \in Nat /\ StatedWell
  BY HeldPools
<1>2. /\ Len(terms) <= Len(terms') /\ Len(terms') \in Nat /\ Len(ops) <= Len(ops') /\ Len(ops') \in Nat
  BY DEF PoolsKept
<1>3. CASE stated[k].kind = "predicate"
  <2>1. stated[k].terms \in Seq(WireValues)
    BY <1>1, <1>3, StatedPart
  <2>2. Len(stated[k].terms) \in Nat
    BY <2>1, LenProperties
  <2>3. /\ r.at \in Nat /\ r.count = Len(stated[k].terms) /\ r.at >= parsed /\ r.at + r.count <= Len(terms)
        /\ \A n \in 1 .. r.count : of[r.at + n] = [way |-> Append(<< <<k>> >>, n), it |-> stated[k].terms[n]]
    BY <1>3 DEF Rooted
  <2>4. \A n \in 1 .. r.count : of2[r.at + n] = of[r.at + n]
    BY <1>1, <2>2, <2>3 DEF Kept, TermPlaces
  <2>5. r.at + r.count <= Len(terms')
    BY <1>1, <1>2, <2>2, <2>3
  <2>. QED BY <1>3, <2>3, <2>4, <2>5 DEF Rooted
<1>4. CASE stated[k].kind # "predicate"
  <2>1. stated[k].ops \in Seq(WireOps)
    BY <1>1, <1>4, StatedPart
  <2>2. Len(stated[k].ops) \in Nat
    BY <2>1, LenProperties
  <2>3. /\ r.at \in Nat /\ r.count = Len(stated[k].ops) /\ r.at + r.count <= Len(ops)
        /\ \A n \in 1 .. r.count : oof[r.at + n] = [way |-> Append(<<k>>, n), it |-> stated[k].ops[n]]
    BY <1>4 DEF Rooted
  <2>4. \A n \in 1 .. r.count : oof2[r.at + n] = oof[r.at + n]
    BY <1>1, <2>2, <2>3 DEF Kept, OpPlaces
  <2>5. r.at + r.count <= Len(ops')
    BY <1>1, <1>2, <2>2, <2>3
  <2>. QED BY <1>4, <2>3, <2>4, <2>5 DEF Rooted
<1>. QED
  BY <1>3, <1>4

LEMMA RootsStay ==
  ASSUME Shapes, NEW of, NEW of2, NEW oof, NEW oof2, UNCHANGED <<stated, parsed, loaded>>, PoolsKept,
         Kept(of, of2, TermPlaces), Kept(oof, oof2, OpPlaces), RootsHeld(of, oof)
  PROVE  RootsHeld(of2, oof2)'
<1>1. /\ Len(loaded) \in Nat /\ DOMAIN stated = 1 .. Len(stated) /\ Len(stated) \in Nat
  BY HeldPools
<1>2. ASSUME NEW k \in 1 .. Len(loaded)
      PROVE  loaded[k].kind = stated[k].kind /\ Rooted(of2, oof2, loaded[k], k)'
  <2>1. k \in DOMAIN stated /\ loaded[k].kind = stated[k].kind /\ Rooted(of, oof, loaded[k], k)
    BY <1>1 DEF RootsHeld
  <2>2. PICK r : r = loaded[k]
    OBVIOUS
  <2>3. Rooted(of2, oof2, r, k)'
    BY <2>1, <2>2, RootStays
  <2>4. loaded'[k] = r
    BY <2>2
  <2>. QED BY <2>1, <2>2, <2>3
<1>. QED
  BY <1>2 DEF RootsHeld

LEMMA HeldStays ==
  ASSUME Shapes, NEW of, NEW oof, Held(of, oof), UNCHANGED <<stated, parsed, loaded, terms, ops>>,
         PoolsKept, AnySeq(params')
  PROVE  Held(of, oof)'
<1>1. Kept(of, of, TermPlaces) /\ Kept(oof, oof, OpPlaces)
  BY DEF Kept
<1>2. ValuesHeld(of) /\ OpsHeld(of, oof) /\ RootsHeld(of, oof)
  BY DEF Held
<1>3. ASSUME NEW x \in TermPlaces' PROVE ValueHeld(of, x)'
  <2>1. x \in TermPlaces BY DEF TermPlaces
  <2>. QED BY <1>1, <1>2, <2>1, ValueStays
<1>4. ASSUME NEW z \in 1 .. Len(ops') PROVE OpHeld(of, oof, z)'
  <2>1. z \in OpPlaces BY DEF OpPlaces
  <2>. QED BY <1>1, <1>2, <2>1, OpStays
<1>5. RootsHeld(of, oof)'
  BY <1>1, <1>2, RootsStay
<1>6. ValuesHeld(of)' /\ OpsHeld(of, oof)'
  BY <1>3, <1>4 DEF ValuesHeld, OpsHeld
<1>. QED
  BY <1>5, <1>6 DEF Held

LEMMA KeptAsTheyAre ==
  ASSUME Shapes, NEW of, NEW oof, Held(of, oof), UNCHANGED <<terms, ops, params>>
  PROVE  PoolsKept /\ AnySeq(params')
<1>1. Len(terms) \in Nat /\ Len(ops) \in Nat
  BY HeldPools
<1>2. AnySeq(params) /\ Len(params) \in Nat
  BY SeqShape DEF Held, OpsHeld
<1>. QED
  BY <1>1, <1>2 DEF PoolsKept

LEMMA OpenedStays ==
  ASSUME UNCHANGED ops, Placing => Placing', UNCHANGED <<odepth, oi>>, NEW z, Opened(z)
  PROVE  Opened(z)'
BY DEF Opened

LEMMA AllApart ==
  ASSUME NEW of, NEW oof, NEW pof, Running(of, oof, pof),
         UNCHANGED <<stated, parsed, loaded, terms, ops, params>>, \A z \in OpPlaces : Opened(z) => Opened(z)'
  PROVE  /\ ValuesApart(of)' /\ ValuesOfOps(of, oof)' /\ OpsApart(oof)' /\ ParamsApart(oof, pof)'
<1>1. TermPlaces' = TermPlaces /\ OpPlaces' = OpPlaces /\ Begun' = Begun
  BY DEF TermPlaces, OpPlaces, Begun
<1>2. ValuesApart(of)' /\ ValuesOfOps(of, oof)'
  BY <1>1 DEF Running, ValuesApart, ValuesOfOps, Apart
<1>3. OpsApart(oof)'
  BY <1>1 DEF Running, OpsApart, Apart
<1>4. \A k \in Begun : ParamsIn(k)' = ParamsIn(k)
  BY NodesStay
<1>5. ASSUME NEW p \in 1 .. Len(params)
      PROVE  /\ \E k \in Begun' : pof[p] \in ParamsIn(k)'
             /\ \E z \in OpPlaces : Opened(z)' /\ \E n \in Nat : pof[p].way = Append(oof[z].way, n)
  BY <1>1, <1>4 DEF Running, ParamsApart
<1>6. ParamsApart(oof, pof)'
  BY <1>1, <1>5 DEF Running, ParamsApart, Apart
<1>. QED
  BY <1>2, <1>3, <1>6

\* Refused, or at the end.
LEMMA NestsStopped ==
  ASSUME Shapes, NestingInv, pc # "stopped", UNCHANGED <<stated, parsed, loaded, terms, ops, limits>>,
         Len(params) <= Len(params'), AnySeq(params'), \A p \in 1 .. Len(params) : params'[p] = params[p],
         pc' = "stopped", Causes'
  PROVE  NestingInv'
<1>1. PICK of, oof, pof : Spread(of, oof, pof)
  BY DEF NestingInv
<1>2. Held(of, oof)
  BY <1>1 DEF Spread
<1>3. PoolsKept
  BY HeldPools, SeqShape DEF PoolsKept
<1>4. Held(of, oof)'
  BY <1>2, <1>3, HeldStays
<1>5. Spread(of, oof, pof)'
  BY <1>4 DEF Spread
<1>6. \E of2, oof2, pof2 : Spread(of2, oof2, pof2)'
  BY <1>5
<1>. QED
  BY <1>6 DEF NestingInv

LEMMA NestsWhileRunning ==
  ASSUME NestingInv, UNCHANGED limits, status' = "none", NEW of, NEW oof, NEW pof,
         Held(of, oof)', Running(of, oof, pof)'
  PROVE  NestingInv'
<1>1. Spread(of, oof, pof)'
  BY DEF Spread
<1>2. \E of2, oof2, pof2 : Spread(of2, oof2, pof2)'
  BY <1>1
<1>. QED
  BY <1>2 DEF NestingInv, Causes

-----------------------------------------------------------------------------
(* The turns that place nothing.                                           *)

LEMMA LevelsTurned ==
  ASSUME Shapes, NEW of, ScanHeld(of), Turning
  PROVE  /\ TurnDepth \in 1 .. MaxDepth /\ TurnEnd \in Nat /\ TurnEnd <= Len(terms)
         /\ i + 1 <= TurnEnd /\ i + 1 \in TermPlaces
         /\ OfValue(of[i + 1]) = This /\ Level(of[i + 1]) = TurnDepth - 1
         /\ \A x \in TermPlaces : x > i + 1 =>
              OfValue(of[x]) = This /\ Level(of[x]) = IF x <= TurnEnd THEN TurnDepth - 1 ELSE TurnDepth
<1>1. Len(terms) \in Nat /\ i \in Nat /\ parsed \in Nat /\ MaxDepth \in Nat
  BY HeldPools, ExpandAssumption DEF Shapes
<1>2. /\ pc = "terms" /\ i < Len(terms) /\ TurnDepth <= MaxDepth
      /\ depth \in 1 .. MaxDepth /\ level_end \in Nat /\ level_end <= Len(terms) /\ i >= parsed
      /\ \A x \in TermPlaces : x > i =>
           OfValue(of[x]) = This /\ Level(of[x]) = IF x <= level_end THEN depth - 1 ELSE depth
  BY DEF Turning, ScanHeld
<1>3. i + 1 \in TermPlaces /\ \A x \in TermPlaces : x \in Nat /\ x <= Len(terms)
  BY <1>1, <1>2 DEF TermPlaces
<1>4. CASE i >= level_end
  BY <1>1, <1>2, <1>3, <1>4 DEF TurnDepth, TurnEnd, DeeperAt
<1>5. CASE i < level_end
  BY <1>1, <1>2, <1>3, <1>5 DEF TurnDepth, TurnEnd, DeeperAt
<1>. QED
  BY <1>1, <1>2, <1>4, <1>5

LEMMA NestsPassed ==
  ASSUME Shapes, TermsInv, OpsInv, NestingInv, PassTerm
  PROVE  NestingInv'
<1>1. /\ pc = "terms" /\ UNCHANGED <<hostVars, poolVars, runVars, opScan, controlVars>> /\ Turning
      /\ i' = i + 1 /\ level_end' = TurnEnd /\ depth' = TurnDepth
  BY DEF PassTerm, Turning, Scanned
<1>2. /\ UNCHANGED <<stated, limits, parsed, terms, ops, params, loaded, root>>
      /\ UNCHANGED <<oi, olevel_end, odepth, source, run, slot, pc, status>>
  BY <1>1 DEF hostVars, poolVars, runVars, opScan, controlVars
<1>3. PICK of, oof, pof : Spread(of, oof, pof)
  BY DEF NestingInv
<1>4. Held(of, oof) /\ Running(of, oof, pof)
  BY <1>1, <1>3 DEF Spread
<1>5. Held(of, oof)'
  BY <1>2, <1>4, KeptAsTheyAre, HeldStays
<1>6. Placing' = Placing /\ Expanding' = Expanding /\ This' = This /\ TermPlaces' = TermPlaces /\ OpPlaces' = OpPlaces
  BY <1>2 DEF Placing, Expanding, This, Current, TermPlaces, OpPlaces
<1>7. ValuesApart(of)' /\ ValuesOfOps(of, oof)' /\ OpsApart(oof)' /\ ParamsApart(oof, pof)'
  BY <1>2, <1>4, <1>6, AllApart, OpenedStays
<1>8. ScanHeld(of)'
  <2>1. /\ TurnDepth \in 1 .. MaxDepth /\ TurnEnd \in Nat /\ TurnEnd <= Len(terms)
        /\ Level(of[i + 1]) = TurnDepth - 1
        /\ \A x \in TermPlaces : x > i + 1 =>
             OfValue(of[x]) = This /\ Level(of[x]) = IF x <= TurnEnd THEN TurnDepth - 1 ELSE TurnDepth
    BY <1>1, <1>4, LevelsTurned DEF Running
  <2>2. \A x \in TermPlaces : Level(of[x]) = MaxDepth => x > i + 1
    <3>1. \A x \in TermPlaces : Level(of[x]) = MaxDepth => x > i
      BY <1>4 DEF Running, ScanHeld
    <3>2. i \in Nat /\ (\A x \in TermPlaces : x \in Nat) /\ MaxDepth \in Nat
      BY HeldPools, ExpandAssumption DEF TermPlaces, Shapes
    <3>3. Level(of[i + 1]) # MaxDepth
      BY <2>1, <3>2
    <3>. QED BY <3>1, <3>2, <3>3
  <2>3. i >= parsed /\ i \in Nat /\ parsed \in Nat
    BY <1>1, <1>4 DEF Running, ScanHeld, Shapes
  <2>. QED BY <1>1, <1>2, <1>6, <2>1, <2>2, <2>3 DEF ScanHeld
<1>9. OpScanHeld(oof)' /\ RunHeld(oof)'
  BY <1>2, <1>4, <1>6 DEF Running, OpScanHeld, RunHeld, BodyHeld, ParamsHeld
<1>10. PartHeld(of, oof)'
  BY <1>2, <1>4, <1>6 DEF Running, PartHeld, Rooted, Left
<1>11. Running(of, oof, pof)'
  BY <1>7, <1>8, <1>9, <1>10 DEF Running
<1>. QED
  BY <1>1, <1>2, <1>5, <1>11, NestsWhileRunning DEF Shapes

\* A part is loaded.
LEMMA NestsLoaded ==
  ASSUME Shapes, NestingInv, pc \notin {"next", "stopped"}, Loaded, pc' = "next", UNCHANGED status,
         UNCHANGED <<stated, limits, parsed, terms, ops, params>>, odepth' \in {odepth, 0}, ~Placing,
         \A k \in DOMAIN terms : terms[k].kind # "pending",
         \A k \in DOMAIN ops : ops[k].op # "unplaced" /\ ops[k].op # "pending",
         pc = "terms" => i >= Len(terms), pc = "ops" => oi >= Len(ops)
  PROVE  NestingInv'
<1>1. PICK of, oof, pof : Spread(of, oof, pof)
  BY DEF NestingInv
<1>2. Held(of, oof) /\ Running(of, oof, pof) /\ Left /\ Rooted(of, oof, root, This)
  BY <1>1 DEF Spread, Running, PartHeld
<1>3. /\ Len(terms) \in Nat /\ DOMAIN terms = 1 .. Len(terms) /\ parsed \in Nat /\ TermPlaces \subseteq DOMAIN terms
      /\ Len(ops) \in Nat /\ DOMAIN ops = 1 .. Len(ops)
      /\ Len(loaded) \in Nat /\ DOMAIN loaded = 1 .. Len(loaded)
      /\ Len(stated) \in Nat /\ DOMAIN stated = 1 .. Len(stated) /\ StatedWell
  BY HeldPools
<1>4. PICK one : one = [kind |-> Current.kind, at |-> root.at, count |-> root.count]
  OBVIOUS
<1>5. loaded' = Append(loaded, one)
  BY <1>4 DEF Loaded
<1>6. /\ Len(loaded') = Len(loaded) + 1 /\ loaded'[Len(loaded) + 1] = one
      /\ \A k \in 1 .. Len(loaded) : loaded'[k] = loaded[k]
  <2>1. loaded \in Seq(Range(loaded) \cup {one})
    BY SeqMonotonic DEF Shapes, AnySeq
  <2>2. /\ Len(Append(loaded, one)) = Len(loaded) + 1 /\ Append(loaded, one)[Len(loaded) + 1] = one
        /\ \A k \in 1 .. Len(loaded) : Append(loaded, one)[k] = loaded[k]
    BY <2>1, AppendProperties
  <2>. QED BY <1>5, <2>2
<1>7. This' = This + 1 /\ This \in Nat /\ This = Len(loaded) + 1 /\ This \in DOMAIN stated
  BY <1>2, <1>3, <1>6 DEF This, Left
<1>8. TermPlaces' = TermPlaces /\ OpPlaces' = OpPlaces
  BY DEF TermPlaces, OpPlaces
<1>9. ~Placing' /\ ~Expanding'
  BY DEF Placing, Expanding
<1>10. \A x \in TermPlaces : Level(of[x]) # MaxDepth
  BY <1>2, <1>3 DEF Running, ScanHeld, TermPlaces, Shapes
<1>11. \A z \in OpPlaces : Level(oof[z]) # MaxDepth
  BY <1>2, <1>3 DEF Running, OpScanHeld, OpPlaces, Expanding, Shapes
<1>12. ValuesHeld(of)'
  <2>1. ASSUME NEW x \in TermPlaces PROVE ValueHeld(of, x)'
    <3>1. ValueHeld(of, x)
      BY <1>2 DEF Held, ValuesHeld
    <3>2. terms[x].kind # "pending"
      BY <1>3
    <3>3. ValueDone(of, x)
      BY <3>1, <3>2 DEF ValueHeld, ValueAhead
    <3>4. ValueDone(of, x)'
      BY <3>3 DEF ValueDone, Listed
    <3>5. ValuesIn(OfValue(of[x]))' = ValuesIn(OfValue(of[x]))
      BY NodesStay
    <3>6. OfValue(of[x]) \in 1 .. This'
      BY <1>7, <3>1 DEF ValueHeld
    <3>. QED BY <1>10, <3>1, <3>4, <3>5, <3>6 DEF ValueHeld
  <2>. QED BY <1>8, <2>1 DEF ValuesHeld
<1>13. OpsHeld(of, oof)'
  <2>1. ASSUME NEW z \in OpPlaces PROVE OpHeld(of, oof, z)'
    <3>1. OpHeld(of, oof, z)
      BY <1>2 DEF Held, OpsHeld, OpPlaces
    <3>2. ops[z].op # "unplaced" /\ ops[z].op # "pending"
      BY <1>3 DEF OpPlaces
    <3>3. OpDone(of, oof, z)
      BY <3>1, <3>2 DEF OpHeld, OpAhead
    <3>4. OpDone(of, oof, z)'
      BY <1>8, <3>3 DEF OpDone, BodyHeld, ParamsHeld
    <3>5. CodeIn(OfOp(oof[z]))' = CodeIn(OfOp(oof[z]))
      BY NodesStay
    <3>6. OfOp(oof[z]) \in 1 .. This'
      BY <1>7, <3>1 DEF OpHeld
    <3>. QED BY <1>11, <3>1, <3>4, <3>5, <3>6 DEF OpHeld
  <2>2. AnySeq(params')
    BY <1>2 DEF Held, OpsHeld
  <2>. QED BY <1>8, <2>1, <2>2 DEF OpsHeld, OpPlaces
<1>14. RootsHeld(of, oof)'
  <2>0. PICK t : t = This
    OBVIOUS
  <2>1. ASSUME NEW k \in 1 .. Len(loaded), NEW r, r = loaded'[k]
        PROVE  r.kind = stated[k].kind /\ Rooted(of, oof, r, k)'
    <3>1. loaded[k].kind = stated[k].kind /\ Rooted(of, oof, loaded[k], k)
      BY <1>2 DEF Held, RootsHeld
    <3>2. r = loaded[k]
      BY <1>6, <2>1
    <3>. QED BY <3>1, <3>2 DEF Rooted
  <2>2. one.kind = stated[t].kind /\ Rooted(of, oof, one, t)'
    <3>1. one.kind = stated[t].kind /\ one.at = root.at /\ one.count = root.count
      BY <1>4, <1>7, <2>0 DEF Current
    <3>2. Rooted(of, oof, root, t)
      BY <1>2, <2>0
    <3>. QED BY <3>1, <3>2 DEF Rooted
  <2>3. ASSUME NEW k \in 1 .. Len(loaded')
        PROVE  loaded'[k].kind = stated'[k].kind /\ Rooted(of, oof, loaded[k], k)'
    <3>1. PICK r : r = loaded'[k]
      OBVIOUS
    <3>2. r.kind = stated[k].kind /\ Rooted(of, oof, r, k)'
      <4>1. CASE k \in 1 .. Len(loaded)
        BY <2>1, <3>1, <4>1
      <4>2. CASE k \notin 1 .. Len(loaded)
        <5>1. k = t /\ r = one
          BY <1>3, <1>6, <1>7, <2>0, <3>1, <4>2
        <5>. QED BY <2>2, <5>1
      <4>. QED BY <4>1, <4>2
    <3>. QED BY <3>1, <3>2
  <2>4. Len(loaded') <= Len(stated')
    BY <1>3, <1>6, <1>7
  <2>. QED BY <2>3, <2>4 DEF RootsHeld
<1>15. Held(of, oof)'
  BY <1>12, <1>13, <1>14 DEF Held
<1>16. \A z \in OpPlaces : Opened(z) => ops[z].op = "closure"
  BY DEF Opened
<1>17. ValuesApart(of)' /\ ValuesOfOps(of, oof)' /\ OpsApart(oof)'
  BY <1>2, <1>8, <1>16 DEF Running, ValuesApart, ValuesOfOps, OpsApart, Apart, Opened
<1>18. ParamsApart(oof, pof)'
  <2>1. \A k \in Begun : ParamsIn(k)' = ParamsIn(k) /\ k \in Begun'
    BY <1>6, <1>3, NodesStay DEF Begun
  <2>2. ASSUME NEW p \in 1 .. Len(params)
        PROVE  /\ \E k \in Begun' : pof[p] \in ParamsIn(k)'
               /\ \E z \in OpPlaces : Opened(z)' /\ \E n \in Nat : pof[p].way = Append(oof[z].way, n)
    <3>1. \E k \in Begun : pof[p] \in ParamsIn(k)
      BY <1>2 DEF Running, ParamsApart
    <3>2. \E z \in OpPlaces : Opened(z) /\ \E n \in Nat : pof[p].way = Append(oof[z].way, n)
      BY <1>2 DEF Running, ParamsApart
    <3>3. \A z \in OpPlaces : Opened(z) => Opened(z)'
      BY <1>16 DEF Opened
    <3>. QED BY <2>1, <3>1, <3>2, <3>3
  <2>. QED BY <1>2, <1>8, <2>2 DEF Running, ParamsApart, Apart
<1>19. ScanHeld(of)' /\ OpScanHeld(oof)' /\ RunHeld(oof)'
  <2>1. odepth' <= MaxDepth
    BY <1>2, ExpandAssumption DEF Running, OpScanHeld
  <2>. QED BY <1>8, <1>9, <1>10, <1>11, <2>1 DEF ScanHeld, OpScanHeld, RunHeld
<1>20. PartHeld(of, oof)'
  <2>1. \A x \in TermPlaces : OfValue(of[x]) # This'
    BY <1>2, <1>7 DEF Held, ValuesHeld, ValueHeld
  <2>2. \A z \in OpPlaces : OfOp(oof[z]) # This'
    BY <1>2, <1>7 DEF Held, OpsHeld, OpHeld, OpPlaces
  <2>. QED BY <1>8, <2>1, <2>2 DEF PartHeld
<1>21. Running(of, oof, pof)'
  BY <1>17, <1>18, <1>19, <1>20 DEF Running
<1>22. status' = "none"
  BY DEF Shapes
<1>. QED
  BY <1>15, <1>21, <1>22, NestsWhileRunning

LEMMA NestsTermsEnd ==
  ASSUME Shapes, TermsInv, OpsInv, NestingInv, EndTerms
  PROVE  NestingInv'
<1>1. /\ pc = "terms" /\ i >= Len(terms) /\ UNCHANGED <<hostVars, poolVars, root, termScan, opScan>> /\ UNCHANGED status
  BY DEF EndTerms, Goto
<1>2. UNCHANGED <<stated, limits, parsed, terms, ops, params, i, level_end, depth, oi, olevel_end, odepth, source, run, slot>>
  BY <1>1 DEF hostVars, poolVars, termScan, opScan
<1>3. Sound
  BY <1>1 DEF Sound, Shapes
<1>4. CASE Current.kind = "predicate" /\ Loaded /\ pc' = "next"
  <2>1. ~Placing /\ ~Expanding
    BY <1>1, <1>4 DEF Placing, Expanding
  <2>2. \A k \in DOMAIN ops : ops[k].op # "unplaced" /\ ops[k].op # "pending"
    BY <1>3, <2>1, NothingPending
  <2>3. \A k \in DOMAIN terms : terms[k].kind # "pending"
    BY <1>1, <1>3, HeldPools DEF TermsInv, Shapes
  <2>. QED BY <1>1, <1>2, <1>4, <2>1, <2>2, <2>3, NestsLoaded
<1>5. CASE Current.kind = "expression" /\ pc' = "run" /\ UNCHANGED loaded
  <2>1. PICK of, oof, pof : Spread(of, oof, pof)
    BY DEF NestingInv
  <2>2. Held(of, oof) /\ Running(of, oof, pof)
    BY <1>1, <2>1 DEF Spread
  <2>3. Held(of, oof)'
    BY <1>2, <1>5, <2>2, KeptAsTheyAre, HeldStays
  <2>4. /\ Placing' /\ Placing /\ Expanding' /\ Expanding /\ This' = This
        /\ TermPlaces' = TermPlaces /\ OpPlaces' = OpPlaces
    BY <1>1, <1>2, <1>5 DEF Placing, Expanding, This, TermPlaces, OpPlaces
  <2>5. ValuesApart(of)' /\ ValuesOfOps(of, oof)' /\ OpsApart(oof)' /\ ParamsApart(oof, pof)'
    BY <1>2, <1>5, <2>2, <2>4, AllApart, OpenedStays
  <2>6. ScanHeld(of)'
    <3>1. \A x \in TermPlaces : Level(of[x]) # MaxDepth
      BY <1>1, <2>2, HeldPools DEF Running, ScanHeld, TermPlaces, Shapes
    <3>. QED BY <1>5, <2>4, <3>1 DEF ScanHeld
  <2>7. OpScanHeld(oof)' /\ RunHeld(oof)'
    BY <1>2, <2>2, <2>4 DEF Running, OpScanHeld, RunHeld, BodyHeld, ParamsHeld
  <2>8. PartHeld(of, oof)'
    BY <1>1, <1>2, <1>5, <2>2, <2>4 DEF Running, PartHeld, Rooted, Left
  <2>9. Running(of, oof, pof)'
    BY <2>5, <2>6, <2>7, <2>8 DEF Running
  <2>. QED BY <1>1, <1>2, <2>3, <2>9, NestsWhileRunning DEF Shapes
<1>. QED
  BY <1>4, <1>5 DEF EndTerms, Goto

LEMMA NestsOpsEnd ==
  ASSUME Shapes, TermsInv, OpsInv, NestingInv, EndOps
  PROVE  NestingInv'
<1>1. /\ pc = "ops" /\ oi >= Len(ops) /\ Loaded /\ odepth' = 0 /\ pc' = "next" /\ UNCHANGED status
      /\ UNCHANGED <<stated, limits, parsed, terms, ops, params>>
  BY DEF EndOps, Goto, hostVars, poolVars
<1>2. Sound /\ ~Placing
  BY <1>1 DEF Sound, Shapes, Placing
<1>3. \A k \in DOMAIN ops : ops[k].op # "unplaced" /\ ops[k].op # "pending"
  BY <1>1, <1>2, NothingPending
<1>4. \A k \in DOMAIN terms : terms[k].kind # "pending"
  BY <1>1, <1>2 DEF TermsInv
<1>. QED
  BY <1>1, <1>2, <1>3, <1>4, NestsLoaded

LEMMA OpLevelsTurned ==
  ASSUME Shapes, OpsInv, NEW oof, OpScanHeld(oof), OpTurning
  PROVE  /\ OpDepth \in 1 .. MaxDepth /\ OpEnd \in Nat /\ OpEnd <= Len(ops)
         /\ oi + 1 <= OpEnd /\ oi + 1 \in OpPlaces
         /\ OfOp(oof[oi + 1]) = This /\ Level(oof[oi + 1]) = OpDepth - 1
         /\ \A z \in OpPlaces : z > oi =>
              OfOp(oof[z]) = This /\ Level(oof[z]) = IF z <= OpEnd THEN OpDepth - 1 ELSE OpDepth
<1>1. Len(ops) \in Nat /\ oi \in Nat /\ odepth \in Nat /\ MaxDepth \in Nat
  BY HeldPools, ExpandAssumption DEF Shapes
<1>2. /\ pc = "ops" /\ oi < Len(ops) /\ OpDepth <= MaxDepth /\ odepth # 0 /\ odepth <= MaxDepth
      /\ olevel_end \in Nat /\ olevel_end <= Len(ops)
      /\ \A z \in OpPlaces : z > oi =>
           OfOp(oof[z]) = This /\ Level(oof[z]) = IF z <= olevel_end THEN odepth - 1 ELSE odepth
  BY DEF OpTurning, OpScanHeld, OpsInv, Expanding
<1>3. oi + 1 \in OpPlaces /\ \A z \in OpPlaces : z \in Nat /\ z <= Len(ops)
  BY <1>1, <1>2 DEF OpPlaces
<1>4. CASE oi >= olevel_end
  BY <1>1, <1>2, <1>3, <1>4 DEF OpDepth, OpEnd, DeeperAt
<1>5. CASE oi < olevel_end
  BY <1>1, <1>2, <1>3, <1>5 DEF OpDepth, OpEnd, DeeperAt
<1>. QED
  BY <1>1, <1>2, <1>4, <1>5

LEMMA NestsOpPassed ==
  ASSUME Shapes, TermsInv, OpsInv, NestingInv, PassOp
  PROVE  NestingInv'
<1>1. /\ pc = "ops" /\ OpTurning /\ oi' = oi + 1 /\ olevel_end' = OpEnd /\ odepth' = OpDepth
      /\ UNCHANGED <<hostVars, poolVars, runVars, termScan, controlVars>>
  BY DEF PassOp, OpTurning, OpScanned
<1>2. UNCHANGED <<stated, limits, parsed, terms, ops, params, loaded, root, i, level_end, depth, pc, status>>
  BY <1>1 DEF hostVars, poolVars, runVars, termScan, controlVars
<1>3. PICK of, oof, pof : Spread(of, oof, pof)
  BY DEF NestingInv
<1>4. Held(of, oof) /\ Running(of, oof, pof)
  BY <1>1, <1>3 DEF Spread
<1>5. Held(of, oof)'
  BY <1>2, <1>4, KeptAsTheyAre, HeldStays
<1>6. /\ ~Placing' /\ ~Placing /\ Expanding' /\ Expanding /\ This' = This
      /\ TermPlaces' = TermPlaces /\ OpPlaces' = OpPlaces
  BY <1>1, <1>2 DEF Placing, Expanding, This, TermPlaces, OpPlaces
<1>7. ValuesApart(of)' /\ ValuesOfOps(of, oof)' /\ OpsApart(oof)' /\ ParamsApart(oof, pof)'
  <2>1. \A z \in OpPlaces : Opened(z) => Opened(z)'
    BY <1>2, <1>6 DEF Opened
  <2>. QED BY <1>2, <1>4, <2>1, AllApart
<1>8. ScanHeld(of)' /\ RunHeld(oof)'
  BY <1>2, <1>4, <1>6 DEF Running, ScanHeld, RunHeld
<1>9. OpScanHeld(oof)'
  <2>1. /\ OpDepth \in 1 .. MaxDepth /\ OpEnd \in Nat /\ OpEnd <= Len(ops)
        /\ Level(oof[oi + 1]) = OpDepth - 1
        /\ \A z \in OpPlaces : z > oi =>
             OfOp(oof[z]) = This /\ Level(oof[z]) = IF z <= OpEnd THEN OpDepth - 1 ELSE OpDepth
    BY <1>1, <1>4, OpLevelsTurned DEF Running
  <2>2. MaxDepth \in Nat /\ oi \in Nat /\ \A z \in OpPlaces : z \in Nat
    BY HeldPools, ExpandAssumption DEF OpPlaces, Shapes
  <2>3. \A z \in OpPlaces : Level(oof[z]) = MaxDepth => z > oi + 1
    <3>1. \A z \in OpPlaces : Level(oof[z]) = MaxDepth => z > oi
      BY <1>4 DEF Running, OpScanHeld
    <3>. QED BY <2>1, <2>2, <3>1
  <2>4. \A z \in OpPlaces : z > oi + 1 => z > oi
    BY <2>2
  <2>5. odepth' # 0 /\ odepth' <= MaxDepth
    BY <1>1, <2>1, <2>2
  <2>. QED BY <1>1, <1>2, <1>6, <2>1, <2>3, <2>4, <2>5 DEF OpScanHeld
<1>10. PartHeld(of, oof)'
  BY <1>1, <1>2, <1>4, <1>6 DEF Running, PartHeld, Rooted, Left
<1>11. Running(of, oof, pof)'
  BY <1>7, <1>8, <1>9, <1>10 DEF Running
<1>. QED
  BY <1>1, <1>2, <1>5, <1>11, NestsWhileRunning DEF Shapes

\* What is asked of a part does not change while it is loaded.
LEMMA NeededStays ==
  ASSUME UNCHANGED <<stated, loaded, parsed>>
  PROVE  \A pool : Needed(pool)' = Needed(pool)
<1>1. Begun' = Begun
  BY DEF Begun
<1>2. \A k : CodeIn(k)' = CodeIn(k) /\ ValuesIn(k)' = ValuesIn(k) /\ ParamsIn(k)' = ParamsIn(k)
  BY NodesStay
<1>3. (UNION {ValuesIn(k) : k \in Begun})' = UNION {ValuesIn(k) : k \in Begun}
  BY <1>1, <1>2
<1>4. (UNION {CodeIn(k) : k \in Begun})' = UNION {CodeIn(k) : k \in Begun}
  BY <1>1, <1>2
<1>5. (UNION {ParamsIn(k) : k \in Begun})' = UNION {ParamsIn(k) : k \in Begun}
  BY <1>1, <1>2
<1>. QED
  BY <1>3, <1>4, <1>5, Zenon DEF Needed

LEMMA CausesStop ==
  ASSUME UNCHANGED <<stated, loaded, parsed, limits>>,
         \/ status' = "DEPTH" /\ TooDeepIn(This)
         \/ status' = "MALFORMED" /\ Refusable(This)
         \/ status' = "NOMEM" /\ \E pool \in {"terms", "ops", "params"} : Needed(pool) > limits[pool]
  PROVE  Causes'
<1>1. This' = This
  BY DEF This
<1>2. PICK t : t = This
  OBVIOUS
<1>3. TooDeepIn(t)' <=> TooDeepIn(t)
  BY NodesStay
<1>4. Refusable(t)' <=> Refusable(t)
  BY NodesStay
<1>5. CASE status' = "DEPTH" /\ TooDeepIn(This)
  BY <1>1, <1>2, <1>3, <1>5 DEF Causes
<1>6. CASE status' = "MALFORMED" /\ Refusable(This)
  BY <1>1, <1>2, <1>4, <1>6 DEF Causes
<1>7. CASE status' = "NOMEM" /\ \E pool \in {"terms", "ops", "params"} : Needed(pool) > limits[pool]
  <2>1. PICK pool \in {"terms", "ops", "params"} : Needed(pool) > limits[pool]
    BY <1>7
  <2>2. Needed(pool)' = Needed(pool)
    BY NeededStays
  <2>3. \E p \in {"terms", "ops", "params"} : Needed(p)' > limits'[p]
    BY <2>1, <2>2
  <2>. QED BY <1>7, <2>3 DEF Causes
<1>. QED
  BY <1>5, <1>6, <1>7

\* A refusal that places nothing.
LEMMA NestsRefused ==
  ASSUME Shapes, NestingInv, pc # "stopped", UNCHANGED <<stated, parsed, loaded, terms, ops, params, limits>>,
         pc' = "stopped",
         \/ status' = "DEPTH" /\ TooDeepIn(This)
         \/ status' = "MALFORMED" /\ Refusable(This)
         \/ status' = "NOMEM" /\ \E pool \in {"terms", "ops", "params"} : Needed(pool) > limits[pool]
  PROVE  NestingInv'
<1>1. Causes'
  BY CausesStop
<1>2. AnySeq(params)
  BY DEF NestingInv, Spread, Held, OpsHeld
<1>3. Len(params) \in Nat
  BY <1>2, SeqShape
<1>. QED
  BY <1>1, <1>2, <1>3, NestsStopped

LEMMA NestsTooDeep ==
  ASSUME Shapes, NestingInv, TooDeep
  PROVE  NestingInv'
<1>1. /\ pc = "terms" /\ i < Len(terms) /\ TurnDepth > MaxDepth
      /\ pc' = "stopped" /\ status' = "DEPTH"
      /\ UNCHANGED <<hostVars, poolVars, runVars, termScan, opScan>>
  BY DEF TooDeep, Refuse
<1>2. UNCHANGED <<stated, parsed, loaded, terms, ops, params, limits>>
  BY <1>1 DEF hostVars, poolVars, runVars
<1>3. PICK of, oof, pof : Spread(of, oof, pof)
  BY DEF NestingInv
<1>4. Held(of, oof) /\ Running(of, oof, pof)
  BY <1>1, <1>3 DEF Spread
<1>5. Len(terms) \in Nat /\ i \in Nat /\ parsed \in Nat /\ MaxDepth \in Nat /\ StatedWell
  BY HeldPools, ExpandAssumption DEF Shapes
<1>6. /\ depth \in 1 .. MaxDepth /\ level_end \in Nat /\ i >= parsed
      /\ \A x \in TermPlaces : x > i =>
           OfValue(of[x]) = This /\ Level(of[x]) = IF x <= level_end THEN depth - 1 ELSE depth
  BY <1>1, <1>4 DEF Running, ScanHeld
<1>7. depth = MaxDepth /\ i >= level_end
  BY <1>1, <1>5, <1>6 DEF TurnDepth, DeeperAt
<1>8. i + 1 \in TermPlaces /\ i + 1 > i /\ ~(i + 1 <= level_end)
  BY <1>1, <1>5, <1>6, <1>7 DEF TermPlaces
<1>9. OfValue(of[i + 1]) = This /\ Level(of[i + 1]) = MaxDepth
  BY <1>6, <1>7, <1>8
<1>10. of[i + 1] \in ValuesIn(This) /\ This \in DOMAIN stated
  BY <1>4, <1>8, <1>9 DEF Held, ValuesHeld, ValueHeld
<1>11. TooDeepIn(This)
  BY <1>5, <1>9, <1>10, ValueNodes
<1>. QED
  BY <1>1, <1>2, <1>11, NestsRefused

LEMMA NestsOpTooDeep ==
  ASSUME Shapes, OpsInv, NestingInv, OpTooDeep
  PROVE  NestingInv'
<1>1. /\ pc = "ops" /\ oi < Len(ops) /\ OpDepth > MaxDepth
      /\ pc' = "stopped" /\ status' = "DEPTH"
      /\ UNCHANGED <<hostVars, poolVars, runVars, termScan, opScan>>
  BY DEF OpTooDeep, Refuse
<1>2. UNCHANGED <<stated, parsed, loaded, terms, ops, params, limits>>
  BY <1>1 DEF hostVars, poolVars, runVars
<1>3. PICK of, oof, pof : Spread(of, oof, pof)
  BY DEF NestingInv
<1>4. Held(of, oof) /\ Running(of, oof, pof)
  BY <1>1, <1>3 DEF Spread
<1>5. Len(ops) \in Nat /\ oi \in Nat /\ odepth \in Nat /\ MaxDepth \in Nat /\ StatedWell
  BY HeldPools, ExpandAssumption DEF Shapes
<1>6. /\ odepth # 0 /\ odepth <= MaxDepth /\ olevel_end \in Nat
      /\ \A z \in OpPlaces : z > oi =>
           OfOp(oof[z]) = This /\ Level(oof[z]) = IF z <= olevel_end THEN odepth - 1 ELSE odepth
  BY <1>1, <1>4 DEF Running, OpScanHeld, OpsInv, Expanding
<1>7. odepth = MaxDepth /\ oi >= olevel_end
  BY <1>1, <1>5, <1>6 DEF OpDepth, DeeperAt
<1>8. oi + 1 \in OpPlaces /\ oi + 1 > oi /\ ~(oi + 1 <= olevel_end)
  BY <1>1, <1>5, <1>6, <1>7 DEF OpPlaces
<1>9. OfOp(oof[oi + 1]) = This /\ Level(oof[oi + 1]) = MaxDepth
  BY <1>6, <1>7, <1>8
<1>10. oof[oi + 1] \in CodeIn(This) /\ This \in DOMAIN stated
  BY <1>4, <1>8, <1>9 DEF Held, OpsHeld, OpHeld, OpPlaces
<1>11. TooDeepIn(This)
  BY <1>5, <1>9, <1>10, CodeNodes
<1>. QED
  BY <1>1, <1>2, <1>11, NestsRefused

LEMMA NestsAllLoaded ==
  ASSUME Shapes, NestingInv, AllLoaded
  PROVE  NestingInv'
<1>1. /\ pc = "next" /\ ~Left /\ pc' = "stopped" /\ status' = "OK"
      /\ UNCHANGED <<hostVars, poolVars, runVars, termScan, opScan>>
  BY DEF AllLoaded
<1>2. UNCHANGED <<stated, parsed, loaded, terms, ops, params, limits>>
  BY <1>1 DEF hostVars, poolVars, runVars
<1>3. Len(loaded) <= Len(stated) /\ AnySeq(params)
  BY DEF NestingInv, Spread, Held, RootsHeld, OpsHeld
<1>4. Len(loaded) = Len(stated)
  <2>1. Len(loaded) \in Nat /\ Len(stated) \in Nat BY HeldPools
  <2>2. ~(Len(loaded) < Len(stated)) BY <1>1 DEF Left
  <2>. QED BY <1>3, <2>1, <2>2
<1>5. Causes'
  BY <1>1, <1>2, <1>4 DEF Causes
<1>6. Len(params) \in Nat
  BY <1>3, SeqShape
<1>. QED
  BY <1>1, <1>2, <1>3, <1>5, <1>6, NestsStopped

\* The values placed at the end of the pool.
LEMMA ValuesNeeded ==
  ASSUME Shapes, Left, NEW of, ValuesHeld(of), Apart(of, TermPlaces),
         limits \in [terms : Nat, ops : Nat, params : Nat, text : Nat],
         NEW way \in Seq(Step), NEW list \in Seq(WireValues), Unused(of, TermPlaces, way),
         Nodes(way, list) \subseteq ValuesIn(This), ~TermRoom(Len(list))
  PROVE  Needed("terms") > limits["terms"]
<1>1. PICK n, end, first : n = Len(list) /\ end = Len(terms) /\ first = parsed
  OBVIOUS
<1>2. /\ n \in Nat /\ end \in Nat /\ first \in Nat /\ DOMAIN list = 1 .. n /\ Nat \subseteq Step
      /\ first <= end /\ TermPlaces = first + 1 .. end
  BY <1>1, HeldPools, LenProperties DEF Step, TermPlaces, Shapes
<1>3. PICK g : g = Grown(of, end, way, list)
  OBVIOUS
<1>4. /\ \A x \in first + 1 .. end : g[x] = of[x]
      /\ \A m \in 1 .. n : g[end + m] = [way |-> Append(way, m), it |-> list[m]]
      /\ Apart(g, first + 1 .. end + n)
  <2>1. /\ first + 1 \in Nat /\ end \in Nat /\ Nat \subseteq Step /\ way \in Seq(Step) /\ Len(list) \in Nat
        /\ Apart(of, first + 1 .. end) /\ Unused(of, first + 1 .. end, way)
    BY <1>1, <1>2
  <2>2. /\ \A x \in first + 1 .. end : Grown(of, end, way, list)[x] = of[x]
        /\ \A m \in 1 .. Len(list) :
             Grown(of, end, way, list)[end + m] = [way |-> Append(way, m), it |-> list[m]]
        /\ Apart(Grown(of, end, way, list), first + 1 .. end + Len(list))
    BY ONLY <2>1, GrownWell
  <2>3. g = Grown(of, end, way, list) /\ n = Len(list)
    BY <1>1, <1>3
  <2>. QED BY <2>2, <2>3
<1>5. PICK S : S = UNION {ValuesIn(k) : k \in Begun}
  OBVIOUS
<1>6. IsFiniteSet(S) /\ This \in Begun
  BY <1>5, BegunFinite, HeldPools DEF This, Begun
<1>7. ASSUME NEW x \in first + 1 .. end + n PROVE g[x] \in S
  <2>1. CASE x \in first + 1 .. end
    <3>1. of[x] \in ValuesIn(OfValue(of[x])) /\ OfValue(of[x]) \in Begun
      BY <1>2, <2>1 DEF ValuesHeld, ValueHeld, This, Begun
    <3>. QED BY <1>4, <1>5, <2>1, <3>1
  <2>2. CASE x \notin first + 1 .. end
    <3>1. x - end \in 1 .. n /\ x = end + (x - end)
      BY <1>2, <2>2
    <3>2. g[x] = [way |-> Append(way, x - end), it |-> list[x - end]]
      BY <1>4, <3>1
    <3>3. g[x] \in Nodes(way, list)
      BY <1>2, <3>1, <3>2 DEF Nodes
    <3>. QED BY <1>5, <1>6, <3>3
  <2>. QED BY <2>1, <2>2
<1>8. end + n - first <= Cardinality(S) /\ Cardinality(S) \in Nat
  <2>1. PICK m : m = end + n - first
    OBVIOUS
  <2>2. m \in Nat /\ first + m = end + n
    BY <1>2, <2>1
  <2>3. /\ first \in Nat /\ m \in Nat /\ IsFiniteSet(S)
        /\ Apart(g, first + 1 .. first + m) /\ \A x \in first + 1 .. first + m : g[x] \in S
    BY <1>2, <1>4, <1>6, <1>7, <2>2
  <2>4. m <= Cardinality(S) /\ Cardinality(S) \in Nat
    BY ONLY <2>3, RoomFor
  <2>. QED BY <2>1, <2>4
<1>9. Needed("terms") = first + Cardinality(S)
  BY <1>1, <1>5 DEF Needed
<1>10. ~(end + n <= limits.terms) /\ limits.terms \in Nat
  BY <1>1 DEF TermRoom
<1>. QED
  BY <1>2, <1>8, <1>9, <1>10

ValuesAdded(of, of2, way, list) ==
  /\ Kept(of, of2, TermPlaces) /\ Apart(of2, TermPlaces') /\ TermPlaces \subseteq TermPlaces'
  /\ \A n \in 1 .. Len(list) :
       /\ Len(terms) + n \in TermPlaces'
       /\ of2[Len(terms) + n] = [way |-> Append(way, n), it |-> list[n]]
  /\ \A x \in TermPlaces' \ TermPlaces :
       /\ x > Len(terms) /\ ValueHeld(of2, x)'
       /\ OfValue(of2[x]) = This /\ Level(of2[x]) = Len(way) - 1
       /\ \E n \in Nat : of2[x].way = Append(way, n)

LEMMA ValuesGrow ==
  ASSUME Shapes, Left, NEW of, ValuesHeld(of), Apart(of, TermPlaces),
         NEW way \in Seq(Step), Len(way) >= 1, NEW list \in Seq(WireValues), Unused(of, TermPlaces, way),
         Nodes(way, list) \subseteq ValuesIn(This), \A n \in 1 .. Len(list) : Loadable(list[n]),
         UNCHANGED <<stated, parsed, loaded>>, Len(terms') = Len(terms) + Len(list),
         \A n \in 1 .. Len(list) : terms'[Len(terms) + n] = Shallow(list[n]),
         NEW of2, of2 = Grown(of, Len(terms), way, list)
  PROVE  ValuesAdded(of, of2, way, list)
<1>1. PICK n, end, first : n = Len(list) /\ end = Len(terms) /\ first = parsed
  OBVIOUS
<1>2. /\ n \in Nat /\ end \in Nat /\ first \in Nat /\ DOMAIN list = 1 .. n /\ Nat \subseteq Step
      /\ first <= end /\ TermPlaces = first + 1 .. end /\ TermPlaces' = first + 1 .. end + n
      /\ Len(way) \in Nat
  BY <1>1, HeldPools, LenProperties DEF Step, TermPlaces, Shapes
<1>3. /\ \A x \in first + 1 .. end : of2[x] = of[x]
      /\ \A m \in 1 .. n : of2[end + m] = [way |-> Append(way, m), it |-> list[m]]
      /\ Apart(of2, first + 1 .. end + n)
  <2>1. /\ first + 1 \in Nat /\ end \in Nat /\ Nat \subseteq Step /\ way \in Seq(Step) /\ Len(list) \in Nat
        /\ Apart(of, first + 1 .. end) /\ Unused(of, first + 1 .. end, way)
    BY <1>1, <1>2
  <2>2. /\ \A x \in first + 1 .. end : Grown(of, end, way, list)[x] = of[x]
        /\ \A m \in 1 .. Len(list) :
             Grown(of, end, way, list)[end + m] = [way |-> Append(way, m), it |-> list[m]]
        /\ Apart(Grown(of, end, way, list), first + 1 .. end + Len(list))
    BY ONLY <2>1, GrownWell
  <2>3. of2 = Grown(of, end, way, list) /\ n = Len(list)
    BY <1>1
  <2>. QED BY <2>2, <2>3
<1>4. Kept(of, of2, TermPlaces) /\ Apart(of2, TermPlaces') /\ TermPlaces \subseteq TermPlaces'
  BY <1>2, <1>3 DEF Kept
<1>5. \A m \in 1 .. n : end + m \in TermPlaces'
  BY <1>2
<1>6. This \in DOMAIN stated /\ This' = This /\ This \in 1 .. This /\ StatedWell
  <2>1. This \in DOMAIN stated /\ Len(loaded) \in Nat /\ StatedWell
    BY BegunFinite, HeldPools
  <2>2. This' = This
    BY DEF This
  <2>3. This \in 1 .. This
    BY <2>1 DEF This
  <2>. QED BY <2>1, <2>2, <2>3
<1>7. ASSUME NEW x \in TermPlaces' \ TermPlaces
      PROVE  /\ x > end /\ ValueHeld(of2, x)'
             /\ OfValue(of2[x]) = This /\ Level(of2[x]) = Len(way) - 1
             /\ \E m \in Nat : of2[x].way = Append(way, m)
  <2>1. PICK m \in 1 .. n : x = end + m
    <3>1. x - end \in 1 .. n /\ x = end + (x - end) BY <1>2
    <3>. QED BY <3>1
  <2>2. of2[x] = [way |-> Append(way, m), it |-> list[m]]
    BY <1>3, <2>1
  <2>3. of2[x].way = Append(way, m) /\ of2[x].it = list[m]
    BY <2>2, NodeParts
  <2>4. of2[x] \in ValuesIn(This)
    BY <1>2, <2>2 DEF Nodes
  <2>5. of2[x].way[1][1] = This /\ of2[x].it.kind # "pending"
    <3>1. of2[x].way[1][1] = This BY <1>6, <2>4, ValueNodes
    <3>2. of2[x].it.kind # "pending" BY <1>6, <2>4, NodeValue
    <3>. QED BY <3>1, <3>2
  <2>6. OfValue(of2[x]) = This
    BY <2>5 DEF OfValue
  <2>7. Level(of2[x]) = Len(way) - 1
    <3>1. m \in Step BY <1>2
    <3>2. Len(Append(way, m)) = Len(way) + 1 BY <3>1, WaysOn
    <3>. QED BY <1>2, <2>3, <3>2 DEF Level
  <2>8. terms'[x] = Shallow(of2[x].it) /\ Loadable(of2[x].it)
    BY <1>1, <2>1, <2>3
  <2>9. ValueDone(of2, x)' \/ ValueAhead(of2, x)'
    <3>1. CASE IsContainer(of2[x].it)
      <4>1. terms'[x] = [kind |-> "pending", source |-> of2[x].it]
        BY <2>8, <3>1 DEF Shallow
      <4>. QED BY <3>1, <4>1 DEF ValueAhead
    <3>2. CASE ~IsContainer(of2[x].it)
      BY <2>8, <3>2 DEF Shallow, ValueDone
    <3>. QED BY <3>1, <3>2
  <2>10. ValuesIn(This)' = ValuesIn(This)
    <3>1. PICK t : t = This OBVIOUS
    <3>2. ValuesIn(t)' = ValuesIn(t) BY NodesStay
    <3>. QED BY <1>6, <3>1, <3>2
  <2>11. OfValue(of2[x]) = This' /\ of2[x] \in ValuesIn(OfValue(of2[x]))'
    <3>1. PICK t : t = This OBVIOUS
    <3>2. ValuesIn(t)' = ValuesIn(t) BY NodesStay
    <3>. QED BY <1>6, <2>4, <2>6, <3>1, <3>2
  <2>12. ValueHeld(of2, x)'
    BY <1>6, <2>6, <2>8, <2>9, <2>11 DEF ValueHeld
  <2>13. x > end
    BY <1>2, <2>1
  <2>. QED BY <1>2, <2>3, <2>6, <2>7, <2>12, <2>13
<1>. QED
  BY <1>1, <1>3, <1>4, <1>5, <1>7 DEF ValuesAdded

LEMMA HeldGrows ==
  ASSUME Shapes, NEW of, NEW of2, NEW oof, NEW oof2, Held(of, oof),
         UNCHANGED <<stated, parsed, loaded>>, PoolsKept, AnySeq(params'),
         Kept(of, of2, TermPlaces), Kept(oof, oof2, OpPlaces),
         \A x \in TermPlaces' : (x \in TermPlaces /\ terms'[x] = terms[x]) \/ ValueHeld(of2, x)',
         \A z \in OpPlaces' : (z \in OpPlaces /\ ops'[z] = ops[z]) \/ OpHeld(of2, oof2, z)'
  PROVE  Held(of2, oof2)'
<1>1. ValuesHeld(of) /\ OpsHeld(of, oof) /\ RootsHeld(of, oof)
  BY DEF Held
<1>2. ASSUME NEW x \in TermPlaces' PROVE ValueHeld(of2, x)'
  BY <1>1, <1>2, ValueStays
<1>3. ASSUME NEW z \in OpPlaces' PROVE OpHeld(of2, oof2, z)'
  BY <1>1, <1>3, OpStays
<1>4. RootsHeld(of2, oof2)'
  BY <1>1, RootsStay
<1>5. ValuesHeld(of2)' /\ OpsHeld(of2, oof2)'
  BY <1>2, <1>3 DEF ValuesHeld, OpsHeld, OpPlaces
<1>. QED
  BY <1>4, <1>5 DEF Held

LEMMA OpsStayApart ==
  ASSUME NEW oof, NEW pof, OpsApart(oof), ParamsApart(oof, pof),
         UNCHANGED <<stated, loaded, params>>, Len(ops') = Len(ops), \A z \in OpPlaces : Opened(z) => Opened(z)'
  PROVE  OpsApart(oof)' /\ ParamsApart(oof, pof)'
<1>1. OpPlaces' = OpPlaces /\ Begun' = Begun
  BY DEF OpPlaces, Begun
<1>2. OpsApart(oof)'
  BY <1>1 DEF OpsApart, Apart
<1>3. \A k \in Begun : ParamsIn(k)' = ParamsIn(k)
  BY NodesStay
<1>4. ASSUME NEW p \in 1 .. Len(params)
      PROVE  /\ \E k \in Begun' : pof[p] \in ParamsIn(k)'
             /\ \E z \in OpPlaces : Opened(z)' /\ \E n \in Nat : pof[p].way = Append(oof[z].way, n)
  BY <1>1, <1>3 DEF ParamsApart
<1>5. ParamsApart(oof, pof)'
  BY <1>1, <1>4 DEF ParamsApart, Apart
<1>. QED
  BY <1>2, <1>5

\* A pool with values placed behind it.
LEMMA PlacedBehind ==
  ASSUME NEW pool, AnySeq(pool), NEW list \in Seq(WireValues), NEW p, p = pool \o ShallowAll(list)
  PROVE  /\ Len(p) = Len(pool) + Len(list) /\ AnySeq(p)
         /\ \A k \in 1 .. Len(pool) : p[k] = pool[k]
         /\ \A n \in 1 .. Len(list) : p[Len(pool) + n] = Shallow(list[n])
<1>1. PICK new, m, end : new = ShallowAll(list) /\ m = Len(list) /\ end = Len(pool)
  OBVIOUS
<1>2. m \in Nat /\ DOMAIN list = 1 .. m /\ end \in Nat
  BY <1>1, LenProperties, SeqShape
<1>3. new = [k \in 1 .. m |-> new[k]] /\ \A k \in 1 .. m : new[k] = Shallow(list[k])
  BY <1>1, <1>2 DEF ShallowAll
<1>4. AnySeq(new) /\ Len(new) = m
  BY ONLY <1>2, <1>3, MadeSeq
<1>5. AnySeq(pool) /\ p = pool \o new
  BY <1>1
<1>6. /\ Len(p) = Len(pool) + Len(new) /\ AnySeq(p)
      /\ \A k \in 1 .. Len(pool) + Len(new) : p[k] = IF k <= Len(pool) THEN pool[k] ELSE new[k - Len(pool)]
  BY ONLY <1>4, <1>5, JoinedSeq
<1>7. /\ Len(p) = end + m
      /\ \A k \in 1 .. end + m : p[k] = IF k <= end THEN pool[k] ELSE new[k - end]
  BY <1>1, <1>4, <1>6
<1>8. \A k \in 1 .. end : p[k] = pool[k]
  BY <1>2, <1>7
<1>9. ASSUME NEW n \in 1 .. m PROVE p[end + n] = Shallow(list[n])
  <2>1. end + n \in 1 .. end + m /\ ~(end + n <= end) /\ (end + n) - end = n
    BY <1>2
  <2>. QED BY <1>3, <1>7, <2>1
<1>. QED
  BY <1>1, <1>6, <1>7, <1>8, <1>9

\* The values of a predicate.
LEMMA NestsPredicate ==
  ASSUME Shapes, TermsInv, OpsInv, NestingInv, LoadPredicate
  PROVE  NestingInv'
<1>1. /\ pc = "next" /\ Left /\ Current.kind = "predicate" /\ UNCHANGED <<hostVars, ops, params, loaded, opScan>>
  BY DEF LoadPredicate
<1>2. UNCHANGED <<stated, parsed, limits, ops, params, loaded, oi, olevel_end, odepth, source, run, slot>>
  BY <1>1 DEF hostVars, opScan
<1>3. PICK of, oof, pof : Spread(of, oof, pof)
  BY DEF NestingInv
<1>4. Held(of, oof) /\ Running(of, oof, pof) /\ ValuesHeld(of) /\ Apart(of, TermPlaces)
  BY <1>1, <1>3 DEF Spread, Running, Held, ValuesApart
<1>5. /\ Len(terms) \in Nat /\ Len(ops) \in Nat /\ parsed \in Nat /\ parsed <= Len(terms) /\ StatedWell
      /\ This \in DOMAIN stated /\ limits \in [terms : Nat, ops : Nat, params : Nat, text : Nat]
      /\ AnySeq(terms) /\ MaxDepth \in Nat \ {0}
  BY <1>1, HeldPools, BegunFinite, ExpandAssumption DEF NestingInv, Shapes
<1>6. PICK t, list : t = This /\ list = Current.terms
  OBVIOUS
<1>7. /\ stated[t].kind = "predicate" /\ list = stated[t].terms /\ list \in Seq(WireValues)
      /\ t \in Nat /\ Len(list) \in Nat /\ DOMAIN list = 1 .. Len(list)
  <2>1. Current = stated[t] BY <1>6 DEF Current, This
  <2>2. list \in Seq(WireValues) BY <1>1, <1>6, CurrentPart
  <2>3. t \in Nat BY <1>5, <1>6, StatedPart
  <2>. QED BY <1>1, <1>6, <2>1, <2>2, <2>3, LenProperties
<1>8. PICK way : way = << <<t>> >>
  OBVIOUS
<1>9. way \in Seq(Step) /\ Len(way) = 1 /\ way[1] = <<t>> /\ <<t>>[1] = t /\ Len(<<t>>) = 1 /\ Nat \subseteq Step
  <2>1. <<t>> \in Seq(Nat) /\ <<t>>[1] = t /\ Len(<<t>>) = 1 BY <1>7
  <2>2. <<t>> \in Step /\ Nat \subseteq Step BY <2>1 DEF Step
  <2>. QED BY <1>8, <2>1, <2>2
<1>10. \A n \in Nat : Append(way, n)[1] = <<t>>
  BY <1>9, WaysOn
<1>11. Unused(of, TermPlaces, way)
  <2>1. ASSUME NEW x \in TermPlaces, NEW n \in Nat, of[x].way = Append(way, n) PROVE FALSE
    <3>1. OfValue(of[x]) = This BY <1>6, <1>9, <1>10, <2>1 DEF OfValue
    <3>. QED BY <1>1, <1>4, <2>1, <3>1 DEF Running, PartHeld
  <2>. QED BY <2>1 DEF Unused
<1>12. Nodes(way, list) = RootsIn(t) /\ Nodes(way, list) \subseteq ValuesIn(t)
  <2>1. Nodes(way, list) = RootsIn(t) BY <1>7, <1>8 DEF RootsIn
  <2>. QED BY <1>5, <1>6, <2>1, ValueNodes
<1>13. CASE ~TermRoom(Len(list)) /\ Refuse("NOMEM") /\ UNCHANGED terms
  <2>1. Needed("terms") > limits["terms"]
    BY <1>1, <1>4, <1>5, <1>6, <1>7, <1>9, <1>11, <1>12, <1>13, ValuesNeeded
  <2>. QED BY <1>1, <1>2, <1>13, <2>1, NestsRefused DEF Refuse
<1>14. CASE (\E k \in DOMAIN list : ~Loadable(list[k])) /\ Refuse("MALFORMED") /\ UNCHANGED terms
  <2>1. PICK k \in DOMAIN list : ~Loadable(list[k])
    BY <1>14
  <2>2. PICK e : e = [way |-> Append(way, k), it |-> list[k]]
    OBVIOUS
  <2>3. e \in ValuesIn(t) /\ e.it = list[k]
    BY <1>12, <2>2, NodeParts DEF Nodes
  <2>4. Refusable(t)
    BY <2>1, <2>3 DEF Refusable
  <2>. QED BY <1>1, <1>2, <1>6, <1>14, <2>4, NestsRefused DEF Refuse
<1>15. CASE /\ \A k \in DOMAIN list : Loadable(list[k])
            /\ PlaceValues(list) /\ ScanTerms(Len(terms), Len(terms) + Len(list))
            /\ root' = [at |-> Len(terms), count |-> Len(list)] /\ Goto("terms")
  <2>1. /\ pc' = "terms" /\ UNCHANGED status /\ i' = Len(terms) /\ level_end' = Len(terms) + Len(list) /\ depth' = 1
        /\ root'.at = Len(terms) /\ root'.count = Len(list)
        /\ terms' = terms \o ShallowAll(list)
    BY <1>15 DEF Goto, ScanTerms, PlaceValues, ShallowAll
  <2>2. /\ Len(terms') = Len(terms) + Len(list)
        /\ \A k \in 1 .. Len(terms) : terms'[k] = terms[k]
        /\ \A n \in 1 .. Len(list) : terms'[Len(terms) + n] = Shallow(list[n])
    <3>1. AnySeq(terms) /\ list \in Seq(WireValues) /\ terms' = terms \o ShallowAll(list)
      BY <1>5, <1>7, <2>1
    <3>. QED BY ONLY <3>1, PlacedBehind
  <2>3. PICK of2 : of2 = Grown(of, Len(terms), way, list)
    OBVIOUS
  <2>4. /\ Kept(of, of2, TermPlaces) /\ Apart(of2, TermPlaces') /\ TermPlaces \subseteq TermPlaces'
        /\ \A n \in 1 .. Len(list) :
             /\ Len(terms) + n \in TermPlaces'
             /\ of2[Len(terms) + n] = [way |-> Append(way, n), it |-> list[n]]
        /\ \A x \in TermPlaces' \ TermPlaces :
             /\ x > Len(terms) /\ ValueHeld(of2, x)'
             /\ OfValue(of2[x]) = This /\ Level(of2[x]) = Len(way) - 1
             /\ \E n \in Nat : of2[x].way = Append(way, n)
    <3>1. Len(way) >= 1 /\ Nodes(way, list) \subseteq ValuesIn(This) /\ \A n \in 1 .. Len(list) : Loadable(list[n])
      BY <1>6, <1>7, <1>9, <1>12, <1>15
    <3>2. /\ Shapes /\ Left /\ ValuesHeld(of) /\ Apart(of, TermPlaces)
          /\ way \in Seq(Step) /\ list \in Seq(WireValues) /\ Unused(of, TermPlaces, way)
          /\ UNCHANGED <<stated, parsed, loaded>> /\ Len(terms') = Len(terms) + Len(list)
          /\ \A n \in 1 .. Len(list) : terms'[Len(terms) + n] = Shallow(list[n])
      BY <1>1, <1>2, <1>4, <1>7, <1>9, <1>11, <2>2
    <3>3. ValuesAdded(of, of2, way, list)
      BY ONLY <2>3, <3>1, <3>2, ValuesGrow
    <3>. QED BY <3>3 DEF ValuesAdded
  <2>5. AnySeq(params) /\ Len(params) \in Nat
    BY <1>4, SeqShape DEF Held, OpsHeld
  <2>6. PoolsKept
    BY <1>2, <1>5, <1>7, <2>2, <2>5 DEF PoolsKept
  <2>7. OpPlaces' = OpPlaces /\ This' = This /\ Kept(oof, oof, OpPlaces)
    BY <1>2 DEF OpPlaces, This, Kept
  <2>8. \A x \in TermPlaces : terms'[x] = terms[x] /\ x \in Nat /\ x <= Len(terms)
    BY <1>5, <2>2 DEF TermPlaces
  <2>9. Held(of2, oof)'
    BY <1>2, <1>4, <2>4, <2>5, <2>6, <2>7, <2>8, HeldGrows
  <2>10. ~Placing /\ ~Expanding /\ ~Placing' /\ ~Expanding'
    BY <1>1, <1>2, <2>1 DEF Placing, Expanding, Current
  <2>11. \A x \in TermPlaces : of2[x] = of[x]
    BY <2>4 DEF Kept
  <2>12. \A x \in TermPlaces' : x \in TermPlaces \/ (x \in TermPlaces' \ TermPlaces)
    OBVIOUS
  <2>13. \A x \in TermPlaces' \ TermPlaces : of2[x].way[1] = <<t>> /\ ~(Len(of2[x].way) > 2) /\ Level(of2[x]) = 0
    <3>1. ASSUME NEW x \in TermPlaces' \ TermPlaces PROVE of2[x].way[1] = <<t>> /\ Len(of2[x].way) = 2
      <4>1. PICK n \in Nat : of2[x].way = Append(way, n) BY <2>4
      <4>2. n \in Step /\ way \in Seq(Step) /\ Len(way) >= 1 BY <1>9
      <4>3. Len(Append(way, n)) = Len(way) + 1 BY ONLY <4>2, WaysOn
      <4>. QED BY <1>9, <1>10, <4>1, <4>3
    <3>2. ASSUME NEW x \in TermPlaces' \ TermPlaces PROVE Level(of2[x]) = 0
      <4>1. Level(of2[x]) = Len(way) - 1 BY <2>4
      <4>. QED BY <1>9, <4>1
    <3>3. ASSUME NEW x \in TermPlaces' \ TermPlaces PROVE ~(Len(of2[x].way) > 2)
      <4>1. Len(of2[x].way) = 2 BY <3>1
      <4>2. ~(2 > 2) OBVIOUS
      <4>. QED BY <4>1, <4>2
    <3>. QED BY <3>1, <3>2, <3>3
  <2>14. ValuesApart(of2)'
    <3>1. ASSUME NEW y \in TermPlaces', Len(of2[y].way) > 2
          PROVE  \E x \in TermPlaces' : terms'[x].kind # "pending" /\ \E n \in Nat : of2[y].way = Append(of2[x].way, n)
      <4>1. y \in TermPlaces BY <2>12, <2>13, <3>1
      <4>2. PICK x \in TermPlaces : terms[x].kind # "pending" /\ \E n \in Nat : of[y].way = Append(of[x].way, n)
        BY <1>4, <2>11, <3>1, <4>1 DEF Running, ValuesApart
      <4>. QED BY <2>4, <2>8, <2>11, <4>1, <4>2
    <3>. QED BY <2>4, <3>1 DEF ValuesApart
  <2>15. ValuesOfOps(of2, oof)'
    <3>1. ASSUME NEW y \in TermPlaces'
          PROVE  \/ Len(of2[y].way[1]) = 1
                 \/ \E z \in OpPlaces' : ops'[z].op = "value" /\ oof[z].way = of2[y].way[1]
      <4>1. CASE y \in TermPlaces
        BY <1>2, <1>4, <2>7, <2>11, <4>1 DEF Running, ValuesOfOps
      <4>2. CASE y \notin TermPlaces
        BY <1>9, <2>13, <4>2
      <4>. QED BY <4>1, <4>2
    <3>. QED BY <3>1 DEF ValuesOfOps
  <2>16. OpsApart(oof)' /\ ParamsApart(oof, pof)'
    <3>1. \A z \in OpPlaces : Opened(z) => Opened(z)'
      BY <1>2, <2>10 DEF Opened
    <3>. QED BY <1>2, <1>4, <3>1, OpsStayApart DEF Running
  <2>17. ScanHeld(of2)'
    <3>1. depth' \in 1 .. MaxDepth /\ level_end' \in Nat /\ level_end' <= Len(terms') /\ i' >= parsed'
      BY <1>2, <1>5, <1>7, <2>1, <2>2
    <3>2. \A x \in TermPlaces' : x > i' =>
            OfValue(of2[x]) = This' /\ Level(of2[x]) = IF x <= level_end' THEN depth' - 1 ELSE depth'
      <4>1. ASSUME NEW x \in TermPlaces', x > i'
            PROVE  OfValue(of2[x]) = This' /\ Level(of2[x]) = IF x <= level_end' THEN depth' - 1 ELSE depth'
        <5>1. x \in TermPlaces' \ TermPlaces BY <1>5, <2>1, <2>8, <4>1
        <5>2. x <= level_end' BY <1>2, <1>5, <1>7, <2>1, <2>2 DEF TermPlaces
        <5>. QED BY <2>1, <2>4, <2>7, <2>13, <5>1, <5>2
      <4>. QED BY <4>1
    <3>3. \A x \in TermPlaces' : Level(of2[x]) = MaxDepth => pc' = "terms" /\ x > i'
      <4>1. \A x \in TermPlaces : Level(of2[x]) # MaxDepth
        BY <1>1, <1>4, <2>11 DEF Running, ScanHeld
      <4>2. \A x \in TermPlaces' \ TermPlaces : Level(of2[x]) # MaxDepth
        BY <1>5, <2>13
      <4>. QED BY <2>12, <4>1, <4>2
    <3>. QED BY <3>1, <3>2, <3>3 DEF ScanHeld
  <2>18. OpScanHeld(oof)' /\ RunHeld(oof)'
    BY <1>2, <1>4, <2>7, <2>10 DEF Running, OpScanHeld, RunHeld
  <2>19. PartHeld(of2, oof)'
    <3>1. Rooted(of2, oof, root, t)'
      BY <1>2, <1>5, <1>7, <1>8, <2>1, <2>2, <2>4 DEF Rooted
    <3>. QED BY <1>1, <1>2, <1>6, <2>1, <2>7, <3>1 DEF PartHeld, Left
  <2>20. Running(of2, oof, pof)'
    BY <2>14, <2>15, <2>16, <2>17, <2>18, <2>19 DEF Running
  <2>. QED BY <1>1, <1>2, <2>1, <2>9, <2>20, NestsWhileRunning DEF Shapes
<1>. QED
  BY <1>6, <1>13, <1>14, <1>15 DEF LoadPredicate

\* What waits for the scan is what it holds as its source.
LEMMA WaitingValue ==
  ASSUME Shapes, NEW of, ValuesHeld(of), NEW n \in TermPlaces, terms[n].kind = "pending"
  PROVE  /\ terms[n].source = of[n].it /\ IsContainer(of[n].it) /\ OfValue(of[n]) = This
         /\ of[n] \in ValuesIn(This) /\ This \in DOMAIN stated
         /\ of[n].it.items \in Seq(WireValues) /\ of[n].way \in Seq(Step) /\ Len(of[n].way) >= 2
<1>1. ValueHeld(of, n) /\ StatedWell
  BY HeldPools DEF ValuesHeld
<1>2. of[n] \in ValuesIn(OfValue(of[n])) /\ OfValue(of[n]) \in DOMAIN stated
  BY <1>1 DEF ValueHeld
<1>3. /\ of[n].it.kind # "pending" /\ of[n].way \in Seq(Step)
      /\ IsContainer(of[n].it) => of[n].it.items \in Seq(WireValues)
  BY <1>1, <1>2, NodeValue
<1>4. ~ValueDone(of, n)
  BY <1>3 DEF ValueDone, Listed
<1>5. ValueAhead(of, n) /\ OfValue(of[n]) = This
  BY <1>1, <1>4 DEF ValueHeld
<1>6. Level(of[n]) \in 0 .. MaxDepth
  BY <1>1, <1>2, ValueNodes
<1>7. Len(of[n].way) >= 2
  <2>1. Len(of[n].way) \in Nat BY <1>3, LenProperties
  <2>. QED BY <1>6, <2>1, ExpandAssumption DEF Level
<1>. QED
  BY <1>2, <1>3, <1>5, <1>7 DEF ValueAhead

\* A node's way is that of one that waits and one step on: no place has it.
LEMMA NoneBelowWaiting ==
  ASSUME Shapes, NEW of, ValuesHeld(of), ValuesApart(of), NEW n \in TermPlaces, terms[n].kind = "pending"
  PROVE  Unused(of, TermPlaces, of[n].way)
<1>1. of[n].way \in Seq(Step) /\ Len(of[n].way) >= 2 /\ Len(of[n].way) \in Nat /\ Nat \subseteq Step
  BY WaitingValue, LenProperties DEF Step
<1>2. ASSUME NEW x \in TermPlaces, NEW m \in Nat, of[x].way = Append(of[n].way, m)
      PROVE  FALSE
  <2>1. m \in Step /\ of[n].way \in Seq(Step) /\ Len(of[n].way) >= 1 BY <1>1
  <2>2. Len(Append(of[n].way, m)) = Len(of[n].way) + 1 BY ONLY <2>1, WaysOn
  <2>3. Len(of[x].way) > 2 BY <1>1, <1>2, <2>2
  <2>4. PICK y \in TermPlaces : terms[y].kind # "pending" /\ \E k \in Nat : of[x].way = Append(of[y].way, k)
    BY <2>3 DEF ValuesApart
  <2>5. PICK k \in Nat : of[x].way = Append(of[y].way, k) BY <2>4
  <2>6. of[y] \in ValuesIn(OfValue(of[y])) /\ OfValue(of[y]) \in DOMAIN stated /\ StatedWell
    BY HeldPools DEF ValuesHeld, ValueHeld
  <2>7. of[y].way \in Seq(Step) BY <2>6, NodeValue
  <2>8. k \in Step BY <1>1
  <2>9. of[y].way = of[n].way
    <3>1. Append(of[n].way, m) = Append(of[y].way, k) BY <1>2, <2>5
    <3>2. PICK a, b : a = of[n].way /\ b = of[y].way OBVIOUS
    <3>3. a \in Seq(Step) /\ b \in Seq(Step) /\ m \in Step /\ k \in Step /\ Append(a, m) = Append(b, k)
      BY <2>1, <2>7, <2>8, <3>1, <3>2
    <3>4. a = b BY ONLY <3>3, AppendInjective
    <3>. QED BY <3>2, <3>4
  <2>10. y = n BY <2>9 DEF ValuesApart, Apart
  <2>. QED BY <2>4, <2>10
<1>. QED
  BY <1>2 DEF Unused

\* The values nested in a container.
LEMMA NestsExpanded ==
  ASSUME Shapes, TermsInv, OpsInv, NestingInv, ExpandTerm
  PROVE  NestingInv'
<1>1. /\ pc = "terms" /\ Turning /\ terms[i + 1].kind = "pending"
      /\ UNCHANGED <<hostVars, ops, params, runVars, opScan>>
  BY DEF ExpandTerm, Turning
<1>2. UNCHANGED <<stated, parsed, limits, ops, params, loaded, root, oi, olevel_end, odepth, source, run, slot>>
  BY <1>1 DEF hostVars, opScan, runVars
<1>3. PICK of, oof, pof : Spread(of, oof, pof)
  BY DEF NestingInv
<1>4. /\ Held(of, oof) /\ Running(of, oof, pof) /\ ValuesHeld(of) /\ Apart(of, TermPlaces) /\ ValuesApart(of)
      /\ ScanHeld(of) /\ Left
  BY <1>1, <1>3 DEF Spread, Running, Held, ValuesApart, PartHeld
<1>5. /\ Len(terms) \in Nat /\ Len(ops) \in Nat /\ parsed \in Nat /\ parsed <= Len(terms) /\ StatedWell
      /\ This \in DOMAIN stated /\ limits \in [terms : Nat, ops : Nat, params : Nat, text : Nat]
      /\ AnySeq(terms) /\ MaxDepth \in Nat \ {0} /\ i \in Nat /\ DOMAIN terms = 1 .. Len(terms)
  BY <1>4, HeldPools, BegunFinite, ExpandAssumption DEF NestingInv, Shapes
<1>6. PICK n, t : n = i + 1 /\ t = This
  OBVIOUS
<1>7. PICK v, way, list : v = terms[n].source /\ way = of[n].way /\ list = v.items
  OBVIOUS
<1>8. /\ TurnDepth \in 1 .. MaxDepth /\ TurnEnd \in Nat /\ TurnEnd <= Len(terms)
      /\ n <= TurnEnd /\ n \in TermPlaces
      /\ OfValue(of[n]) = This /\ Level(of[n]) = TurnDepth - 1
      /\ \A x \in TermPlaces : x > n =>
           OfValue(of[x]) = This /\ Level(of[x]) = IF x <= TurnEnd THEN TurnDepth - 1 ELSE TurnDepth
  BY <1>1, <1>4, <1>6, LevelsTurned
<1>9. /\ of[n].it = v /\ IsContainer(v) /\ of[n] \in ValuesIn(t) /\ list \in Seq(WireValues)
      /\ way \in Seq(Step) /\ Len(way) >= 2 /\ Len(way) \in Nat /\ Nat \subseteq Step
      /\ Len(list) \in Nat /\ DOMAIN list = 1 .. Len(list) /\ t \in DOMAIN stated
  <2>1. terms[n].kind = "pending" /\ n \in TermPlaces BY <1>1, <1>6, <1>8
  <2>2. /\ terms[n].source = of[n].it /\ IsContainer(of[n].it) /\ OfValue(of[n]) = This
        /\ of[n] \in ValuesIn(This) /\ This \in DOMAIN stated
        /\ of[n].it.items \in Seq(WireValues) /\ of[n].way \in Seq(Step) /\ Len(of[n].way) >= 2
    BY <1>4, <2>1, WaitingValue
  <2>. QED BY <1>6, <1>7, <2>2, LenProperties DEF Step
<1>10. Unused(of, TermPlaces, way)
  BY <1>1, <1>4, <1>6, <1>7, <1>8, NoneBelowWaiting
<1>11. Nodes(way, list) \subseteq ValuesIn(t)
  <2>1. Level(of[n]) < MaxDepth BY <1>5, <1>8
  <2>2. Nodes(of[n].way, ItemsOf(of[n].it)) \subseteq ValuesIn(t) BY <1>5, <1>9, <2>1, ValueNodes
  <2>3. ItemsOf(of[n].it) = list BY <1>7, <1>9 DEF ItemsOf
  <2>. QED BY <1>7, <2>2, <2>3
<1>12. CASE ~TermRoom(Len(list)) /\ Refuse("NOMEM") /\ UNCHANGED terms
  <2>1. Needed("terms") > limits["terms"]
    BY <1>4, <1>5, <1>6, <1>9, <1>10, <1>11, <1>12, ValuesNeeded
  <2>. QED BY <1>1, <1>2, <1>12, <2>1, NestsRefused DEF Refuse
<1>13. CASE ~Holdable(v) /\ Refuse("MALFORMED") /\ UNCHANGED terms
  <2>1. Refusable(This)
    BY <1>6, <1>9, <1>13 DEF Refusable
  <2>. QED BY <1>1, <1>2, <1>13, <2>1, NestsRefused DEF Refuse
<1>14. CASE /\ Holdable(v) /\ Scanned /\ UNCHANGED controlVars
            /\ terms' = [terms EXCEPT ![n] = [kind |-> v.kind, at |-> Len(terms), count |-> Len(list)]]
                        \o ShallowAll(list)
  <2>1. /\ UNCHANGED <<pc, status>> /\ i' = n /\ level_end' = TurnEnd /\ depth' = TurnDepth
    BY <1>6, <1>14 DEF Scanned, controlVars
  <2>2. PICK r : r = [kind |-> v.kind, at |-> Len(terms), count |-> Len(list)]
    OBVIOUS
  <2>3. n \in DOMAIN terms /\ AnySeq(terms)
    BY <1>5, <1>8, HeldPools
  <2>4. PICK pool : pool = Changed(terms, n, r)
    OBVIOUS
  <2>5. AnySeq(pool) /\ Len(pool) = Len(terms) /\ \A j \in 1 .. Len(terms) : pool[j] = IF j = n THEN r ELSE terms[j]
    BY ONLY <2>3, <2>4, ChangedSeq
  <2>6. terms' = pool \o ShallowAll(list)
    BY <1>14, <2>2, <2>4 DEF Changed
  <2>7. /\ Len(terms') = Len(pool) + Len(list) /\ AnySeq(terms')
        /\ \A k \in 1 .. Len(pool) : terms'[k] = pool[k]
        /\ \A m \in 1 .. Len(list) : terms'[Len(pool) + m] = Shallow(list[m])
    <3>1. AnySeq(pool) /\ list \in Seq(WireValues) BY <1>9, <2>5
    <3>. QED BY ONLY <2>6, <3>1, PlacedBehind
  <2>8. /\ Len(terms') = Len(terms) + Len(list) /\ terms'[n] = r
        /\ \A k \in 1 .. Len(terms) : k # n => terms'[k] = terms[k]
        /\ \A m \in 1 .. Len(list) : terms'[Len(terms) + m] = Shallow(list[m])
    BY <1>5, <2>3, <2>5, <2>7
  <2>9. PICK of2 : of2 = Grown(of, Len(terms), way, list)
    OBVIOUS
  <2>10. ValuesAdded(of, of2, way, list)
    <3>1. Len(way) >= 1 /\ Nodes(way, list) \subseteq ValuesIn(This) /\ \A m \in 1 .. Len(list) : Loadable(list[m])
      <4>1. \A m \in 1 .. Len(list) : Loadable(list[m])
        BY <1>7, <1>9, <1>14 DEF Holdable, Loadable, IsKey
      <4>. QED BY <1>6, <1>9, <1>11, <4>1
    <3>2. /\ Shapes /\ Left /\ ValuesHeld(of) /\ Apart(of, TermPlaces)
          /\ way \in Seq(Step) /\ list \in Seq(WireValues) /\ Unused(of, TermPlaces, way)
          /\ UNCHANGED <<stated, parsed, loaded>> /\ Len(terms') = Len(terms) + Len(list)
          /\ \A m \in 1 .. Len(list) : terms'[Len(terms) + m] = Shallow(list[m])
      BY <1>2, <1>4, <1>9, <1>10, <2>8
    <3>. QED BY ONLY <2>9, <3>1, <3>2, ValuesGrow
  <2>11. /\ Kept(of, of2, TermPlaces) /\ Apart(of2, TermPlaces') /\ TermPlaces \subseteq TermPlaces'
         /\ \A m \in 1 .. Len(list) :
              /\ Len(terms) + m \in TermPlaces'
              /\ of2[Len(terms) + m] = [way |-> Append(way, m), it |-> list[m]]
         /\ \A x \in TermPlaces' \ TermPlaces :
              /\ x > Len(terms) /\ ValueHeld(of2, x)'
              /\ OfValue(of2[x]) = This /\ Level(of2[x]) = Len(way) - 1
              /\ \E m \in Nat : of2[x].way = Append(way, m)
    BY <2>10 DEF ValuesAdded
  <2>12. \A x \in TermPlaces : of2[x] = of[x] /\ x \in Nat /\ x <= Len(terms) /\ (x # n => terms'[x] = terms[x])
    BY <1>5, <2>8, <2>11 DEF Kept, TermPlaces
  <2>13. AnySeq(params) /\ Len(params) \in Nat
    BY <1>4, SeqShape DEF Held, OpsHeld
  <2>14. PoolsKept
    BY <1>2, <1>5, <1>9, <2>8, <2>13 DEF PoolsKept
  <2>15. OpPlaces' = OpPlaces /\ This' = This /\ Kept(oof, oof, OpPlaces) /\ Placing' = Placing /\ Expanding' = Expanding
    BY <1>2, <2>1 DEF OpPlaces, This, Kept, Placing, Expanding, Current
  <2>16. ValueHeld(of2, n)'
    <3>1. ValueHeld(of, n) BY <1>4, <1>8 DEF ValuesHeld
    <3>2. of2[n] = of[n] BY <1>8, <2>12
    <3>3. r.kind = v.kind /\ r.at = Len(terms) /\ r.count = Len(list) BY <2>2
    <3>4. Listed(of2, n)'
      <4>1. Len(terms) \in Nat /\ Len(terms) >= parsed' /\ Len(terms) + Len(list) <= Len(terms')
        BY <1>2, <1>5, <1>9, <2>8
      <4>2. of2[n].it = v /\ of2[n].way = way /\ v.items = list
        BY <1>7, <1>9, <3>2
      <4>3. terms'[n].kind = v.kind /\ terms'[n].count = Len(list) /\ terms'[n].at = Len(terms)
        BY <2>8, <3>3
      <4>4. \A m \in 1 .. Len(list) : of2[Len(terms) + m] = [way |-> Append(way, m), it |-> list[m]]
        BY <2>11
      <4>. QED BY <1>14, <4>1, <4>2, <4>3, <4>4 DEF Listed
    <3>5. ValueDone(of2, n)' BY <1>9, <3>2, <3>4 DEF ValueDone
    <3>6. ValuesIn(OfValue(of[n]))' = ValuesIn(OfValue(of[n])) BY <1>2, NodesStay
    <3>. QED BY <1>2, <2>15, <3>1, <3>2, <3>5, <3>6 DEF ValueHeld
  <2>17. Held(of2, oof)'
    <3>1. \A x \in TermPlaces' : (x \in TermPlaces /\ terms'[x] = terms[x]) \/ ValueHeld(of2, x)'
      BY <2>11, <2>12, <2>16
    <3>. QED BY <1>2, <1>4, <2>11, <2>13, <2>14, <2>15, <3>1, HeldGrows
  <2>18. r.kind # "pending"
    BY <1>9, <2>2 DEF IsContainer, ContainerKinds
  <2>19. \A x \in TermPlaces : terms[x].kind # "pending" => terms'[x].kind # "pending"
    BY <2>8, <2>12, <2>18
  <2>20. \A x \in TermPlaces' : x \in TermPlaces \/ (x \in TermPlaces' \ TermPlaces)
    OBVIOUS
  <2>21. ValuesApart(of2)'
    <3>1. ASSUME NEW y \in TermPlaces', Len(of2[y].way) > 2
          PROVE  \E x \in TermPlaces' : terms'[x].kind # "pending" /\ \E m \in Nat : of2[y].way = Append(of2[x].way, m)
      <4>1. CASE y \in TermPlaces
        <5>1. PICK x \in TermPlaces : terms[x].kind # "pending" /\ \E m \in Nat : of[y].way = Append(of[x].way, m)
          BY <1>4, <2>12, <3>1, <4>1 DEF ValuesApart
        <5>. QED BY <2>11, <2>12, <2>19, <4>1, <5>1
      <4>2. CASE y \notin TermPlaces
        <5>1. \E m \in Nat : of2[y].way = Append(way, m) BY <2>11, <4>2
        <5>2. n \in TermPlaces' /\ of2[n].way = way /\ terms'[n].kind # "pending"
          BY <1>7, <1>8, <2>8, <2>11, <2>12, <2>18
        <5>. QED BY <5>1, <5>2
      <4>. QED BY <4>1, <4>2
    <3>. QED BY <2>11, <3>1 DEF ValuesApart
  <2>22. ValuesOfOps(of2, oof)'
    <3>0. \A y \in TermPlaces : \/ Len(of[y].way[1]) = 1
                                \/ \E z \in OpPlaces : ops[z].op = "value" /\ oof[z].way = of[y].way[1]
      BY <1>4 DEF Running, ValuesOfOps
    <3>1. ASSUME NEW y \in TermPlaces'
          PROVE  \/ Len(of2[y].way[1]) = 1
                 \/ \E z \in OpPlaces' : ops'[z].op = "value" /\ oof[z].way = of2[y].way[1]
      <4>1. \E x \in TermPlaces : of2[y].way[1] = of[x].way[1]
        <5>1. CASE y \in TermPlaces BY <2>12, <5>1
        <5>2. CASE y \notin TermPlaces
          <6>1. PICK m \in Nat : of2[y].way = Append(way, m) BY <2>11, <5>2
          <6>2. m \in Step /\ way \in Seq(Step) /\ Len(way) >= 1 BY <1>9
          <6>3. Append(way, m)[1] = way[1] BY ONLY <6>2, WaysOn
          <6>. QED BY <1>7, <1>8, <6>1, <6>3
        <5>. QED BY <5>1, <5>2
      <4>. QED BY <1>2, <2>15, <3>0, <4>1
    <3>. QED BY <3>1 DEF ValuesOfOps
  <2>23. OpsApart(oof)' /\ ParamsApart(oof, pof)'
    <3>1. \A z \in OpPlaces : Opened(z) => Opened(z)'
      BY <1>2, <2>15 DEF Opened
    <3>. QED BY <1>2, <1>4, <3>1, OpsStayApart DEF Running
  <2>24. \A x \in TermPlaces' \ TermPlaces : Level(of2[x]) = TurnDepth
    <3>1. ASSUME NEW x \in TermPlaces' \ TermPlaces PROVE Level(of2[x]) = TurnDepth
      <4>1. Level(of2[x]) = Len(way) - 1 BY <2>11
      <4>2. Len(way) - 2 = TurnDepth - 1 BY <1>7, <1>8 DEF Level
      <4>. QED BY <1>8, <1>9, <4>1, <4>2
    <3>. QED BY <3>1
  <2>25. ScanHeld(of2)'
    <3>1. depth' \in 1 .. MaxDepth /\ level_end' \in Nat /\ level_end' <= Len(terms') /\ i' >= parsed'
      <4>1. i >= parsed BY <1>1, <1>4 DEF ScanHeld
      <4>. QED BY <1>2, <1>5, <1>6, <1>8, <1>9, <2>1, <2>8, <4>1
    <3>2. ASSUME NEW x \in TermPlaces', x > i'
          PROVE  OfValue(of2[x]) = This' /\ Level(of2[x]) = IF x <= level_end' THEN depth' - 1 ELSE depth'
      <4>1. CASE x \in TermPlaces
        BY <1>8, <2>1, <2>12, <2>15, <3>2, <4>1
      <4>2. CASE x \notin TermPlaces
        <5>1. x > Len(terms) /\ OfValue(of2[x]) = This /\ Level(of2[x]) = TurnDepth BY <2>11, <2>24, <4>2
        <5>2. x \in Nat BY <1>2, <1>5, <1>9, <2>8 DEF TermPlaces
        <5>. QED BY <1>5, <1>8, <2>1, <2>15, <5>1, <5>2
      <4>. QED BY <4>1, <4>2
    <3>3. ASSUME NEW x \in TermPlaces', Level(of2[x]) = MaxDepth PROVE x > i'
      <4>1. CASE x \in TermPlaces
        <5>1. x > i BY <1>4, <2>12, <3>3, <4>1 DEF ScanHeld
        <5>2. x # n BY <1>5, <1>8, <2>12, <3>3, <4>1
        <5>. QED BY <1>5, <1>6, <2>1, <2>12, <4>1, <5>1, <5>2
      <4>2. CASE x \notin TermPlaces
        <5>1. x > Len(terms) /\ x \in Nat BY <1>2, <1>5, <1>9, <2>8, <2>11, <4>2 DEF TermPlaces
        <5>. QED BY <1>5, <1>8, <2>1, <2>12, <5>1
      <4>. QED BY <4>1, <4>2
    <3>. QED BY <1>1, <2>1, <3>1, <3>2, <3>3 DEF ScanHeld
  <2>26. OpScanHeld(oof)' /\ RunHeld(oof)'
    BY <1>2, <1>4, <2>15 DEF Running, OpScanHeld, RunHeld, BodyHeld, ParamsHeld
  <2>27. PartHeld(of2, oof)'
    <3>1. Rooted(of, oof, root, t) BY <1>1, <1>4, <1>6 DEF Running, PartHeld
    <3>2. PICK ro : ro = root OBVIOUS
    <3>3. Rooted(of2, oof, ro, t)'
      BY <1>2, <1>9, <2>11, <2>14, <2>15, <3>1, <3>2, RootStays
    <3>. QED BY <1>1, <1>2, <1>4, <1>6, <2>1, <2>15, <3>2, <3>3 DEF PartHeld, Left
  <2>28. Running(of2, oof, pof)'
    BY <2>21, <2>22, <2>23, <2>25, <2>26, <2>27 DEF Running
  <2>. QED BY <1>1, <1>2, <2>1, <2>17, <2>28, NestsWhileRunning DEF Shapes
<1>. QED
  BY <1>6, <1>7, <1>12, <1>13, <1>14 DEF ExpandTerm, ShallowAll

\* The next operation of the run has its place.
LEMMA PutsOp ==
  ASSUME Shapes, OpsInv, pc = "run", source # <<>>, NEW oof, RunHeld(oof), OpScanHeld(oof), NEW o, PutOp(o),
         UNCHANGED <<stated, parsed, loaded, params, oi, olevel_end, odepth, run>>, pc' \in {"run", "terms"}
  PROVE  /\ slot \in OpPlaces /\ Len(ops') = Len(ops) /\ ops'[slot] = o
         /\ OpPlaces' = OpPlaces /\ (\A z \in OpPlaces : z # slot => ops'[z] = ops[z])
         /\ ops[slot].op = "unplaced" /\ oof[slot].it = source[1] /\ source[1] \in WireOps
         /\ OfOp(oof[slot]) = This
         /\ RunHeld(oof)' /\ OpScanHeld(oof)' /\ Placing' /\ Current.kind = "expression"
         /\ \A z \in OpPlaces : Opened(z) => Opened(z)'
<1>1. /\ Len(ops) \in Nat /\ DOMAIN ops = 1 .. Len(ops) /\ AnySeq(ops) /\ slot \in Nat /\ oi \in Nat
      /\ source \in Seq(WireOps) /\ run.at \in Nat /\ run.count \in Nat /\ odepth \in Nat
  BY Pools DEF Shapes
<1>2. Placing /\ Current.kind = "expression" /\ Place /\ Expanding
  BY DEF OpsInv, Placing, Expanding
<1>3. PICK m : m = Len(source)
  OBVIOUS
<1>4. m \in Nat \ {0} /\ DOMAIN source = 1 .. m
  BY <1>1, <1>3, EmptySeq, LenProperties
<1>5. /\ slot > run.at /\ slot + m = Len(ops) + 1 /\ slot \in OpPlaces /\ slot > oi
      /\ odepth # 0 => oi + 1 # slot
  <2>1. /\ slot > run.at /\ slot + m = Len(ops) + 1
        /\ odepth = 0 => oi = run.at
        /\ odepth # 0 => oi < run.at
    BY <1>2, <1>3 DEF Place
  <2>. QED BY <1>1, <1>4, <2>1 DEF OpPlaces
<1>6. ops' = Changed(ops, slot, o) /\ slot' = slot + 1 /\ source' = Tail(source)
  BY DEF PutOp, Changed
<1>7. Len(ops') = Len(ops) /\ \A z \in OpPlaces : ops'[z] = IF z = slot THEN o ELSE ops[z]
  <2>1. AnySeq(ops) /\ slot \in DOMAIN ops
    BY <1>1, <1>5 DEF OpPlaces
  <2>2. /\ Len(Changed(ops, slot, o)) = Len(ops)
        /\ \A k \in 1 .. Len(ops) : Changed(ops, slot, o)[k] = IF k = slot THEN o ELSE ops[k]
    BY ONLY <2>1, ChangedSeq
  <2>. QED BY <1>6, <2>2 DEF OpPlaces
<1>8. /\ ops'[slot] = o /\ \A z \in OpPlaces : z # slot => ops'[z] = ops[z]
  BY <1>5, <1>7
<1>9. OpPlaces' = OpPlaces /\ Current' = Current /\ This' = This
  BY <1>7 DEF OpPlaces, Current, This
<1>10. Placing' /\ Expanding'
  BY <1>2, <1>9 DEF Placing, Expanding
<1>11. /\ \A n \in 1 .. m : /\ ops[slot + n - 1].op = "unplaced"
                            /\ oof[slot + n - 1].it = source[n]
       /\ odepth # 0 => /\ ops[oi + 1].op = "pending"
                        /\ BodyHeld(oof, oof[oi + 1], run)
                        /\ ParamsHeld(oof[oi + 1].it, ops[oi + 1].param_at)
  BY <1>2, <1>3 DEF RunHeld
<1>12. ops[slot].op = "unplaced" /\ oof[slot].it = source[1] /\ source[1] \in WireOps
  <2>1. 1 \in 1 .. m /\ slot + 1 - 1 = slot BY <1>1, <1>4
  <2>2. source[1] \in WireOps BY <1>1, <1>3, <2>1, ElementOfSeq
  <2>. QED BY <1>11, <2>1, <2>2
<1>13. OfOp(oof[slot]) = This
  BY <1>2, <1>5 DEF OpScanHeld
<1>14. RunHeld(oof)'
  <2>1. Len(source') = m - 1 /\ \A n \in 1 .. m - 1 : source'[n] = source[n + 1]
    <3>1. /\ Len(Tail(source)) = Len(source) - 1
          /\ \A n \in 1 .. Len(Tail(source)) : Tail(source)[n] = source[n + 1]
      BY <1>1, HeadTailProperties
    <3>. QED BY <1>3, <1>6, <3>1
  <2>2. ASSUME NEW n \in 1 .. m - 1
        PROVE  ops'[slot' + n - 1].op = "unplaced" /\ oof[slot' + n - 1].it = source'[n]
    <3>1. n + 1 \in 1 .. m /\ slot' + n - 1 = slot + n /\ slot + (n + 1) - 1 = slot + n
          /\ slot + n \in OpPlaces /\ slot + n # slot
      BY <1>1, <1>4, <1>5, <1>6 DEF OpPlaces
    <3>2. ops[slot + n].op = "unplaced" /\ oof[slot + n].it = source[n + 1]
      BY <1>11, <3>1
    <3>. QED BY <1>8, <2>1, <3>1, <3>2
  <2>3. ASSUME odepth # 0
        PROVE  /\ ops'[oi + 1].op = "pending" /\ BodyHeld(oof, oof[oi + 1], run)'
               /\ ParamsHeld(oof[oi + 1].it, ops[oi + 1].param_at)'
    <3>1. oi + 1 \in OpPlaces /\ oi + 1 # slot
      <4>1. oi < run.at BY <1>2, <2>3 DEF Place
      <4>. QED BY <1>1, <1>5, <2>3, <4>1 DEF OpPlaces
    <3>2. ops'[oi + 1] = ops[oi + 1] BY <1>8, <3>1
    <3>. QED BY <1>7, <1>11, <2>3, <3>2 DEF BodyHeld, ParamsHeld
  <2>4. \A n \in 1 .. Len(source') : /\ ops'[slot' + n - 1].op = "unplaced"
                                     /\ oof[slot' + n - 1].it = source'[n]
    BY <2>1, <2>2
  <2>. QED BY <2>3, <2>4 DEF RunHeld
<1>15. OpScanHeld(oof)'
  BY <1>2, <1>7, <1>9, <1>10 DEF OpScanHeld
<1>16. ASSUME NEW z \in OpPlaces, Opened(z) PROVE Opened(z)'
  BY <1>8, <1>10, <1>12, <1>16 DEF Opened
<1>. QED
  BY <1>2, <1>5, <1>7, <1>8, <1>9, <1>10, <1>12, <1>13, <1>14, <1>15, <1>16

\* An operator, and a closure that waits for the scan.
LEMMA NestsPlaced ==
  ASSUME Shapes, OpsInv, NestingInv, pc = "run", source # <<>>, NEW o, PutOp(o),
         UNCHANGED <<hostVars, terms, params, runVars, termScan, oi, olevel_end, odepth, run, controlVars>>,
         \/ source[1].op \in {"unary", "binary"} /\ o = source[1]
         \/ source[1].op = "closure" /\ o = [op |-> "pending", source |-> source[1]]
  PROVE  NestingInv'
<1>1. UNCHANGED <<stated, parsed, limits, terms, params, loaded, root, i, level_end, depth, oi, olevel_end, odepth, run, pc, status>>
  BY DEF hostVars, runVars, termScan, controlVars
<1>2. PICK of, oof, pof : Spread(of, oof, pof)
  BY DEF NestingInv
<1>3. /\ Held(of, oof) /\ Running(of, oof, pof) /\ RunHeld(oof) /\ OpScanHeld(oof) /\ Left
      /\ OpsHeld(of, oof) /\ OpsApart(oof) /\ ParamsApart(oof, pof)
  BY <1>2 DEF Spread, Running, Held, PartHeld
<1>4. /\ slot \in OpPlaces /\ Len(ops') = Len(ops) /\ ops'[slot] = o
      /\ OpPlaces' = OpPlaces /\ (\A z \in OpPlaces : z # slot => ops'[z] = ops[z])
      /\ ops[slot].op = "unplaced" /\ oof[slot].it = source[1] /\ source[1] \in WireOps
      /\ OfOp(oof[slot]) = This
      /\ RunHeld(oof)' /\ OpScanHeld(oof)' /\ Placing' /\ Current.kind = "expression"
      /\ \A z \in OpPlaces : Opened(z) => Opened(z)'
  BY <1>1, <1>3, PutsOp
<1>5. TermPlaces' = TermPlaces /\ This' = This /\ Kept(of, of, TermPlaces) /\ Kept(oof, oof, OpPlaces)
  BY <1>1 DEF TermPlaces, This, Kept
<1>6. AnySeq(params) /\ Len(params) \in Nat /\ Len(ops) \in Nat /\ Len(terms) \in Nat
  BY <1>3, SeqShape, HeldPools DEF OpsHeld
<1>7. PoolsKept
  BY <1>1, <1>4, <1>6 DEF PoolsKept
<1>8. PICK s : s = slot
  OBVIOUS
<1>9. Held(of, oof)'
  <2>1. OpHeld(of, oof, s) /\ oof[s].it = source[1] /\ OfOp(oof[s]) = This /\ ops'[s] = o
    BY <1>3, <1>4, <1>8 DEF OpsHeld, OpPlaces
  <2>2. CodeIn(OfOp(oof[s]))' = CodeIn(OfOp(oof[s])) BY <1>1, NodesStay
  <2>3. OpDone(of, oof, s)' \/ OpAhead(oof, s)'
    <3>1. CASE source[1].op \in {"unary", "binary"} /\ o = source[1]
      BY <2>1, <3>1 DEF OpDone
    <3>2. CASE source[1].op = "closure" /\ o = [op |-> "pending", source |-> source[1]]
      BY <2>1, <3>2 DEF OpAhead
    <3>. QED BY <3>1, <3>2
  <2>4. OpHeld(of, oof, s)'
    BY <1>1, <1>5, <2>1, <2>2, <2>3 DEF OpHeld
  <2>5. \A x \in TermPlaces' : (x \in TermPlaces /\ terms'[x] = terms[x]) \/ ValueHeld(of, x)'
    BY <1>1, <1>5
  <2>6. \A z \in OpPlaces' : (z \in OpPlaces /\ ops'[z] = ops[z]) \/ OpHeld(of, oof, z)'
    BY <1>4, <1>8, <2>4
  <2>. QED BY <1>1, <1>3, <1>5, <1>6, <1>7, <2>5, <2>6, HeldGrows
<1>10. ValuesApart(of)'
  BY <1>1, <1>3, <1>5 DEF Running, ValuesApart, Apart
<1>11. ValuesOfOps(of, oof)'
  <2>1. \A z \in OpPlaces : ops[z].op = "value" => ops'[z].op = "value"
    BY <1>4
  <2>. QED BY <1>3, <1>4, <1>5, <2>1 DEF Running, ValuesOfOps
<1>12. OpsApart(oof)' /\ ParamsApart(oof, pof)'
  BY <1>1, <1>3, <1>4, OpsStayApart
<1>13. ScanHeld(of)'
  BY <1>1, <1>3, <1>5 DEF Running, ScanHeld
<1>14. PartHeld(of, oof)'
  <2>1. PICK t, ro : t = This /\ ro = root OBVIOUS
  <2>2. Rooted(of, oof, ro, t) /\ t \in DOMAIN stated
    BY <1>3, <2>1, BegunFinite DEF Running, PartHeld
  <2>3. Rooted(of, oof, ro, t)'
    BY <1>1, <1>5, <1>7, <2>2, RootStays
  <2>. QED BY <1>1, <1>3, <1>5, <2>1, <2>3 DEF PartHeld, Left
<1>15. Running(of, oof, pof)'
  BY <1>4, <1>10, <1>11, <1>12, <1>13, <1>14 DEF Running
<1>16. status' = "none"
  BY <1>1 DEF Shapes
<1>. QED
  BY <1>1, <1>9, <1>15, <1>16, NestsWhileRunning

LEMMA NestsOpPlaced ==
  ASSUME Shapes, OpsInv, NestingInv, PlaceOperator \/ PlaceClosure
  PROVE  NestingInv'
<1>1. CASE PlaceOperator
  BY <1>1, NestsPlaced DEF PlaceOperator
<1>2. CASE PlaceClosure
  BY <1>2, NestsPlaced DEF PlaceClosure
<1>. QED
  BY <1>1, <1>2

\* The value of an operation.
LEMMA NestsValuePlaced ==
  ASSUME Shapes, OpsInv, NestingInv, PlaceValue
  PROVE  NestingInv'
<1>1. /\ pc = "run" /\ source # <<>> /\ source[1].op = "value"
      /\ UNCHANGED <<hostVars, params, runVars, oi, olevel_end, odepth, run>>
  BY DEF PlaceValue
<1>2. UNCHANGED <<stated, parsed, limits, params, loaded, root, oi, olevel_end, odepth, run>>
  BY <1>1 DEF hostVars, runVars
<1>3. PICK of, oof, pof : Spread(of, oof, pof)
  BY DEF NestingInv
<1>4. /\ Held(of, oof) /\ Running(of, oof, pof) /\ ValuesHeld(of) /\ Apart(of, TermPlaces) /\ ValuesApart(of)
      /\ ScanHeld(of) /\ Left /\ RunHeld(oof) /\ OpScanHeld(oof)
      /\ OpsHeld(of, oof) /\ OpsApart(oof) /\ ParamsApart(oof, pof) /\ ValuesOfOps(of, oof)
  BY <1>1, <1>3 DEF Spread, Running, Held, ValuesApart, PartHeld
<1>5. /\ Len(terms) \in Nat /\ Len(ops) \in Nat /\ parsed \in Nat /\ parsed <= Len(terms) /\ StatedWell
      /\ This \in DOMAIN stated /\ limits \in [terms : Nat, ops : Nat, params : Nat, text : Nat]
      /\ AnySeq(terms) /\ MaxDepth \in Nat \ {0} /\ source \in Seq(WireOps) /\ DOMAIN ops = 1 .. Len(ops)
      /\ slot \in Nat
  BY <1>4, HeldPools, BegunFinite, ExpandAssumption DEF NestingInv, Shapes
<1>6. PICK s, t, list : s = slot /\ t = This /\ list = <<source[1].term>>
  OBVIOUS
<1>7. /\ s \in OpPlaces /\ ops[s].op = "unplaced" /\ oof[s].it = source[1] /\ source[1] \in WireOps
      /\ OfOp(oof[s]) = This /\ oof[s] \in CodeIn(t) /\ t \in DOMAIN stated
      /\ Current.kind = "expression"
  <2>1. Placing /\ Place /\ Expanding /\ Current.kind = "expression"
    BY <1>1 DEF OpsInv, Placing, Expanding
  <2>2. Len(source) \in Nat \ {0} /\ DOMAIN source = 1 .. Len(source)
    BY <1>1, <1>5, EmptySeq, LenProperties
  <2>3. slot \in OpPlaces /\ slot > oi
    <3>1. /\ slot > run.at /\ slot + Len(source) = Len(ops) + 1
          /\ odepth = 0 => oi = run.at
          /\ odepth # 0 => oi < run.at
      BY <2>1 DEF Place
    <3>2. run.at \in Nat /\ oi \in Nat BY DEF Shapes
    <3>. QED BY <1>5, <2>2, <3>1, <3>2 DEF OpPlaces
  <2>4. ops[slot].op = "unplaced" /\ oof[slot].it = source[1]
    <3>1. 1 \in 1 .. Len(source) /\ slot + 1 - 1 = slot BY <1>5, <2>2
    <3>. QED BY <1>4, <2>1, <3>1 DEF RunHeld
  <2>5. source[1] \in WireOps BY <1>5, <2>2, ElementOfSeq
  <2>6. OfOp(oof[slot]) = This BY <1>4, <2>1, <2>3 DEF OpScanHeld
  <2>7. oof[slot] \in CodeIn(OfOp(oof[slot])) BY <1>4, <2>3 DEF OpsHeld, OpHeld, OpPlaces
  <2>. QED BY <1>5, <1>6, <2>1, <2>3, <2>4, <2>5, <2>6, <2>7
<1>8. PICK w, way : w = oof[s].way /\ way = <<w>>
  OBVIOUS
<1>9. /\ w \in Seq(Nat) /\ Len(w) >= 2 /\ Len(w) \in Nat
      /\ way \in Seq(Step) /\ Len(way) = 1 /\ way[1] = w /\ Nat \subseteq Step
  <2>1. w \in Seq(Nat) /\ Len(w) >= 2 /\ Len(w) \in Nat BY <1>5, <1>7, <1>8, OpNodeOf
  <2>2. w \in Step /\ Nat \subseteq Step BY <2>1 DEF Step
  <2>. QED BY <1>8, <2>1, <2>2
<1>10. /\ list \in Seq(WireValues) /\ Len(list) = 1 /\ DOMAIN list = {1} /\ list[1] = source[1].term
  <2>1. source[1].term \in WireValues BY <1>1, <1>7, WireOp
  <2>. QED BY <1>6, <2>1
<1>11. ASSUME NEW n \in Nat PROVE Append(way, n)[1] = w
  <2>1. n \in Step /\ way \in Seq(Step) /\ Len(way) >= 1 BY <1>9
  <2>2. Append(way, n)[1] = way[1] BY ONLY <2>1, WaysOn
  <2>. QED BY <1>9, <2>2
<1>12. Unused(of, TermPlaces, way)
  <2>1. ASSUME NEW x \in TermPlaces, NEW n \in Nat, of[x].way = Append(way, n) PROVE FALSE
    <3>1. of[x].way[1] = w
      <4>1. Append(way, n)[1] = w BY <1>11
      <4>. QED BY <2>1, <4>1
    <3>2. Len(w) # 1
      <4>1. PICK l : l = Len(w) OBVIOUS
      <4>2. l >= 2 /\ l \in Nat BY <1>9, <4>1
      <4>. QED BY <4>1, <4>2
    <3>3. PICK z \in OpPlaces : ops[z].op = "value" /\ oof[z].way = w
      BY <1>4, <3>1, <3>2 DEF ValuesOfOps
    <3>4. z = s BY <1>4, <1>7, <1>8, <3>3 DEF OpsApart, Apart
    <3>. QED BY <1>7, <3>3, <3>4
  <2>. QED BY <2>1 DEF Unused
<1>13. Nodes(way, list) \subseteq RootsIn(t) /\ Nodes(way, list) \subseteq ValuesIn(t)
  <2>1. stated[t].kind # "predicate" BY <1>6, <1>7 DEF Current, This
  <2>2. oof[s] \in {c \in CodeIn(t) : c.it.op = "value"} BY <1>1, <1>7
  <2>3. Nodes(way, list) = Nodes(<<oof[s].way>>, <<oof[s].it.term>>) BY <1>6, <1>7, <1>8
  <2>4. Nodes(way, list) \subseteq RootsIn(t) BY <2>1, <2>2, <2>3 DEF RootsIn
  <2>. QED BY <1>5, <1>7, <2>4, ValueNodes
<1>14. CASE ~TermRoom(1) /\ Refuse("NOMEM") /\ UNCHANGED <<terms, ops>>
  <2>1. ~TermRoom(Len(list)) BY <1>10, <1>14
  <2>2. Needed("terms") > limits["terms"]
    BY <1>4, <1>5, <1>6, <1>9, <1>10, <1>12, <1>13, <2>1, ValuesNeeded
  <2>. QED BY <1>1, <1>2, <1>14, <2>2, NestsRefused DEF Refuse
<1>15. CASE ~Loadable(source[1].term) /\ Refuse("MALFORMED") /\ UNCHANGED <<terms, ops>>
  <2>1. PICK e : e = [way |-> Append(way, 1), it |-> list[1]]
    OBVIOUS
  <2>2. e \in ValuesIn(t) /\ e.it = source[1].term
    BY <1>10, <1>13, <2>1, NodeParts DEF Nodes
  <2>3. Refusable(This)
    BY <1>6, <1>15, <2>2 DEF Refusable
  <2>. QED BY <1>1, <1>2, <1>15, <2>3, NestsRefused DEF Refuse
<1>16. CASE /\ Loadable(source[1].term) /\ PlaceValues(<<source[1].term>>)
            /\ ScanTerms(Len(terms), Len(terms) + 1)
            /\ PutOp([op |-> "value", term |-> Len(terms)]) /\ Goto("terms")
  <2>1. /\ pc' = "terms" /\ UNCHANGED status /\ i' = Len(terms) /\ level_end' = Len(terms) + 1 /\ depth' = 1
        /\ terms' = terms \o ShallowAll(list)
    BY <1>6, <1>16 DEF Goto, ScanTerms, PlaceValues, ShallowAll
  <2>2. PICK o : o = [op |-> "value", term |-> Len(terms)]
    OBVIOUS
  <2>3. PutOp(o) /\ o.op = "value" /\ o.term = Len(terms)
    BY <1>16, <2>2
  <2>4. /\ slot \in OpPlaces /\ Len(ops') = Len(ops) /\ ops'[slot] = o
        /\ OpPlaces' = OpPlaces /\ (\A z \in OpPlaces : z # slot => ops'[z] = ops[z])
        /\ RunHeld(oof)' /\ OpScanHeld(oof)' /\ Placing'
        /\ \A z \in OpPlaces : Opened(z) => Opened(z)'
    BY <1>1, <1>2, <1>4, <2>1, <2>3, PutsOp
  <2>5. /\ Len(terms') = Len(terms) + Len(list)
        /\ \A k \in 1 .. Len(terms) : terms'[k] = terms[k]
        /\ \A n \in 1 .. Len(list) : terms'[Len(terms) + n] = Shallow(list[n])
    <3>1. AnySeq(terms) /\ list \in Seq(WireValues) /\ terms' = terms \o ShallowAll(list)
      BY <1>5, <1>10, <2>1
    <3>. QED BY ONLY <3>1, PlacedBehind
  <2>6. PICK of2 : of2 = Grown(of, Len(terms), way, list)
    OBVIOUS
  <2>7. ValuesAdded(of, of2, way, list)
    <3>1. Len(way) >= 1 /\ Nodes(way, list) \subseteq ValuesIn(This) /\ \A n \in 1 .. Len(list) : Loadable(list[n])
      BY <1>6, <1>9, <1>10, <1>13, <1>16
    <3>2. /\ Shapes /\ Left /\ ValuesHeld(of) /\ Apart(of, TermPlaces)
          /\ way \in Seq(Step) /\ list \in Seq(WireValues) /\ Unused(of, TermPlaces, way)
          /\ UNCHANGED <<stated, parsed, loaded>> /\ Len(terms') = Len(terms) + Len(list)
          /\ \A n \in 1 .. Len(list) : terms'[Len(terms) + n] = Shallow(list[n])
      BY <1>2, <1>4, <1>9, <1>10, <1>12, <2>5
    <3>. QED BY ONLY <2>6, <3>1, <3>2, ValuesGrow
  <2>8. /\ Kept(of, of2, TermPlaces) /\ Apart(of2, TermPlaces') /\ TermPlaces \subseteq TermPlaces'
        /\ Len(terms) + 1 \in TermPlaces'
        /\ of2[Len(terms) + 1] = [way |-> Append(way, 1), it |-> list[1]]
        /\ \A x \in TermPlaces' \ TermPlaces :
             /\ x > Len(terms) /\ ValueHeld(of2, x)'
             /\ OfValue(of2[x]) = This /\ Level(of2[x]) = Len(way) - 1
             /\ \E n \in Nat : of2[x].way = Append(way, n)
    <3>1. 1 \in 1 .. Len(list) BY <1>10
    <3>. QED BY <2>7, <3>1 DEF ValuesAdded
  <2>9. AnySeq(params) /\ Len(params) \in Nat
    BY <1>4, SeqShape DEF OpsHeld
  <2>10. PoolsKept
    BY <1>2, <1>5, <1>10, <2>4, <2>5, <2>9 DEF PoolsKept
  <2>11. This' = This /\ Kept(oof, oof, OpPlaces)
    BY <1>2 DEF This, Kept
  <2>12. \A x \in TermPlaces : terms'[x] = terms[x] /\ x \in Nat /\ x <= Len(terms) /\ of2[x] = of[x]
    BY <1>5, <2>5, <2>8 DEF TermPlaces, Kept
  <2>13. OpHeld(of2, oof, s)'
    <3>1. OpHeld(of, oof, s) BY <1>4, <1>7 DEF OpsHeld, OpPlaces
    <3>2. CodeIn(OfOp(oof[s]))' = CodeIn(OfOp(oof[s])) BY <1>2, NodesStay
    <3>3. OpDone(of2, oof, s)'
      <4>1. ops'[s] = o BY <1>6, <2>4
      <4>2. o.term \in Nat /\ o.term + 1 \in TermPlaces' /\ of2[o.term + 1] = [way |-> Append(<<oof[s].way>>, 1), it |-> oof[s].it.term]
        BY <1>5, <1>7, <1>8, <1>10, <2>3, <2>8
      <4>. QED BY <1>1, <1>7, <2>3, <4>1, <4>2 DEF OpDone
    <3>. QED BY <1>2, <2>11, <3>1, <3>2, <3>3 DEF OpHeld
  <2>14. Held(of2, oof)'
    <3>1. \A x \in TermPlaces' : (x \in TermPlaces /\ terms'[x] = terms[x]) \/ ValueHeld(of2, x)'
      BY <2>8, <2>12
    <3>2. \A z \in OpPlaces' : (z \in OpPlaces /\ ops'[z] = ops[z]) \/ OpHeld(of2, oof, z)'
      BY <1>6, <2>4, <2>13
    <3>. QED BY <1>2, <1>4, <2>8, <2>9, <2>10, <2>11, <3>1, <3>2, HeldGrows
  <2>15. \A x \in TermPlaces' : x \in TermPlaces \/ (x \in TermPlaces' \ TermPlaces)
    OBVIOUS
  <2>16. ASSUME NEW x \in TermPlaces' \ TermPlaces
         PROVE  of2[x].way[1] = w /\ ~(Len(of2[x].way) > 2) /\ Level(of2[x]) = 0
    <3>1. PICK n \in Nat : of2[x].way = Append(way, n) BY <2>8
    <3>2. n \in Step /\ way \in Seq(Step) /\ Len(way) >= 1 BY <1>9
    <3>3. Len(Append(way, n)) = Len(way) + 1 BY ONLY <3>2, WaysOn
    <3>4. Len(of2[x].way) = 2 BY <1>9, <3>1, <3>3
    <3>5. Level(of2[x]) = Len(way) - 1 BY <2>8
    <3>6. ~(2 > 2) OBVIOUS
    <3>. QED BY <1>9, <1>11, <3>1, <3>4, <3>5, <3>6
  <2>17. ValuesApart(of2)'
    <3>1. ASSUME NEW y \in TermPlaces', Len(of2[y].way) > 2
          PROVE  \E x \in TermPlaces' : terms'[x].kind # "pending" /\ \E n \in Nat : of2[y].way = Append(of2[x].way, n)
      <4>1. y \in TermPlaces BY <2>15, <2>16, <3>1
      <4>2. PICK x \in TermPlaces : terms[x].kind # "pending" /\ \E n \in Nat : of[y].way = Append(of[x].way, n)
        BY <1>4, <2>12, <3>1, <4>1 DEF ValuesApart
      <4>. QED BY <2>8, <2>12, <4>1, <4>2
    <3>. QED BY <2>8, <3>1 DEF ValuesApart
  <2>18. ValuesOfOps(of2, oof)'
    <3>1. ASSUME NEW y \in TermPlaces'
          PROVE  \/ Len(of2[y].way[1]) = 1
                 \/ \E z \in OpPlaces' : ops'[z].op = "value" /\ oof[z].way = of2[y].way[1]
      <4>1. CASE y \in TermPlaces
        <5>1. \A z \in OpPlaces : ops[z].op = "value" => ops'[z].op = "value"
          BY <1>6, <1>7, <2>4
        <5>. QED BY <1>4, <2>4, <2>12, <4>1, <5>1 DEF ValuesOfOps
      <4>2. CASE y \notin TermPlaces
        <5>1. of2[y].way[1] = w BY <2>16, <4>2
        <5>2. s \in OpPlaces' /\ ops'[s].op = "value" /\ oof[s].way = w BY <1>6, <1>7, <1>8, <2>3, <2>4
        <5>. QED BY <5>1, <5>2
      <4>. QED BY <4>1, <4>2
    <3>. QED BY <3>1 DEF ValuesOfOps
  <2>19. OpsApart(oof)' /\ ParamsApart(oof, pof)'
    BY <1>2, <1>4, <2>4, OpsStayApart
  <2>20. ScanHeld(of2)'
    <3>1. depth' \in 1 .. MaxDepth /\ level_end' \in Nat /\ level_end' <= Len(terms') /\ i' >= parsed'
      BY <1>2, <1>5, <1>10, <2>1, <2>5
    <3>2. ASSUME NEW x \in TermPlaces', x > i'
          PROVE  OfValue(of2[x]) = This' /\ Level(of2[x]) = IF x <= level_end' THEN depth' - 1 ELSE depth'
      <4>1. x \in TermPlaces' \ TermPlaces BY <1>5, <2>1, <2>12, <3>2
      <4>2. x <= level_end' BY <1>2, <1>5, <1>10, <2>1, <2>5 DEF TermPlaces
      <4>. QED BY <2>1, <2>8, <2>11, <2>16, <4>1, <4>2
    <3>3. \A x \in TermPlaces' : Level(of2[x]) = MaxDepth => pc' = "terms" /\ x > i'
      <4>1. \A x \in TermPlaces : Level(of2[x]) # MaxDepth
        BY <1>1, <1>4, <2>12 DEF ScanHeld
      <4>2. \A x \in TermPlaces' \ TermPlaces : Level(of2[x]) # MaxDepth
        BY <1>5, <2>16
      <4>. QED BY <2>15, <4>1, <4>2
    <3>. QED BY <3>1, <3>2, <3>3 DEF ScanHeld
  <2>21. PartHeld(of2, oof)'
    <3>1. PICK ro : ro = root OBVIOUS
    <3>2. Rooted(of, oof, ro, t) BY <1>1, <1>4, <1>6, <3>1 DEF Running, PartHeld
    <3>3. Rooted(of2, oof, ro, t)'
      BY <1>2, <1>7, <2>8, <2>10, <2>11, <3>2, RootStays
    <3>. QED BY <1>2, <1>4, <1>6, <2>1, <2>11, <3>1, <3>3 DEF PartHeld, Left
  <2>22. Running(of2, oof, pof)'
    BY <2>4, <2>17, <2>18, <2>19, <2>20, <2>21 DEF Running
  <2>23. status' = "none"
    BY <1>1, <2>1 DEF Shapes
  <2>. QED BY <1>2, <2>14, <2>22, <2>23, NestsWhileRunning
<1>. QED
  BY <1>14, <1>15, <1>16 DEF PlaceValue

\* A closure that waits for the scan is its own source.
LEMMA WaitingOp ==
  ASSUME Shapes, NEW of, NEW oof, OpsHeld(of, oof), NEW n \in OpPlaces, ops[n].op = "pending"
  PROVE  /\ ops[n].source = oof[n].it /\ oof[n].it.op = "closure" /\ OfOp(oof[n]) = This
         /\ oof[n] \in CodeIn(This) /\ This \in DOMAIN stated
         /\ oof[n].it.body \in Seq(WireOps) /\ Len(oof[n].it.body) \in Nat
         /\ DOMAIN oof[n].it.body = 1 .. Len(oof[n].it.body)
         /\ oof[n].it.params \in Seq(STRING) /\ Len(oof[n].it.params) \in Nat
         /\ DOMAIN oof[n].it.params = 1 .. Len(oof[n].it.params)
         /\ oof[n].way \in Seq(Nat) /\ Len(oof[n].way) >= 2 /\ Len(oof[n].way) \in Nat
<1>1. OpHeld(of, oof, n) /\ StatedWell
  BY HeldPools DEF OpsHeld, OpPlaces
<1>2. oof[n] \in CodeIn(OfOp(oof[n])) /\ OfOp(oof[n]) \in DOMAIN stated
  BY <1>1 DEF OpHeld
<1>3. oof[n].it.op \in {"value", "unary", "binary", "closure"}
  BY <1>1, <1>2, OpNodeOf
<1>4. ~OpDone(of, oof, n)
  BY <1>3 DEF OpDone
<1>5. oof[n].it.op = "closure" /\ ops[n].source = oof[n].it /\ OfOp(oof[n]) = This
  BY <1>1, <1>4 DEF OpHeld, OpAhead
<1>6. /\ oof[n].it.body \in Seq(WireOps) /\ Len(oof[n].it.body) \in Nat
      /\ DOMAIN oof[n].it.body = 1 .. Len(oof[n].it.body)
      /\ oof[n].it.params \in Seq(STRING) /\ Len(oof[n].it.params) \in Nat
      /\ DOMAIN oof[n].it.params = 1 .. Len(oof[n].it.params)
      /\ oof[n].way \in Seq(Nat) /\ Len(oof[n].way) >= 2 /\ Len(oof[n].way) \in Nat
  <2>1. PICK k : k = OfOp(oof[n]) OBVIOUS
  <2>2. StatedWell /\ k \in DOMAIN stated /\ oof[n] \in CodeIn(k) BY <1>1, <1>2, <2>1
  <2>3. /\ oof[n].way \in Seq(Nat) /\ Len(oof[n].way) >= 2 /\ Len(oof[n].way) \in Nat
        /\ oof[n].it.op = "closure" =>
              /\ oof[n].it.body \in Seq(WireOps) /\ Len(oof[n].it.body) \in Nat
              /\ DOMAIN oof[n].it.body = 1 .. Len(oof[n].it.body)
              /\ oof[n].it.params \in Seq(STRING) /\ Len(oof[n].it.params) \in Nat
              /\ DOMAIN oof[n].it.params = 1 .. Len(oof[n].it.params)
    BY ONLY <2>2, OpNodeOf
  <2>. QED BY <1>5, <2>3
<1>. QED
  BY <1>2, <1>5, <1>6

LEMMA NestsRunEnded ==
  ASSUME Shapes, OpsInv, NestingInv, EndRun
  PROVE  NestingInv'
<1>1. /\ pc = "run" /\ source = <<>> /\ pc' = "ops" /\ UNCHANGED status
      /\ UNCHANGED <<stated, parsed, limits, terms, params, loaded, root>>
      /\ UNCHANGED <<i, level_end, depth, source, run, slot>>
  BY DEF EndRun, Goto, hostVars, runVars, termScan
<1>2. PICK of, oof, pof : Spread(of, oof, pof)
  BY DEF NestingInv
<1>3. /\ Held(of, oof) /\ Running(of, oof, pof) /\ RunHeld(oof) /\ OpScanHeld(oof) /\ Left
      /\ OpsHeld(of, oof) /\ OpsApart(oof) /\ ParamsApart(oof, pof)
  BY <1>1, <1>2 DEF Spread, Running, Held, PartHeld
<1>4. /\ Len(terms) \in Nat /\ Len(ops) \in Nat /\ parsed \in Nat /\ StatedWell
      /\ This \in DOMAIN stated /\ DOMAIN ops = 1 .. Len(ops) /\ AnySeq(ops)
      /\ MaxDepth \in Nat \ {0} /\ oi \in Nat /\ odepth \in Nat
      /\ AnySeq(params) /\ Len(params) \in Nat
  BY <1>3, HeldPools, BegunFinite, ExpandAssumption, SeqShape DEF Shapes, OpsHeld
<1>5. Placing /\ Expanding /\ ~Placing' /\ Expanding' /\ Place
  BY <1>1 DEF OpsInv, Placing, Expanding
<1>6. TermPlaces' = TermPlaces /\ This' = This /\ Kept(of, of, TermPlaces) /\ Kept(oof, oof, OpPlaces)
  BY <1>1 DEF TermPlaces, This, Kept
<1>7. ASSUME Len(ops') = Len(ops), \A z \in OpPlaces : ops[z].op # "pending" => ops'[z] = ops[z],
             Held(of, oof)', \A z \in OpPlaces : Opened(z) => Opened(z)', OpScanHeld(oof)'
      PROVE  NestingInv'
  <2>1. OpPlaces' = OpPlaces BY <1>7 DEF OpPlaces
  <2>2. PoolsKept BY <1>1, <1>4, <1>7 DEF PoolsKept
  <2>3. ValuesApart(of)'
    BY <1>1, <1>3, <1>6 DEF Running, ValuesApart, Apart
  <2>4. ValuesOfOps(of, oof)'
    <3>1. \A z \in OpPlaces : ops[z].op = "value" => ops'[z].op = "value" BY <1>7
    <3>. QED BY <1>3, <1>6, <2>1, <3>1 DEF Running, ValuesOfOps
  <2>5. OpsApart(oof)' /\ ParamsApart(oof, pof)'
    BY <1>1, <1>3, <1>7, OpsStayApart
  <2>6. ScanHeld(of)'
    BY <1>1, <1>3, <1>6 DEF Running, ScanHeld
  <2>7. RunHeld(oof)'
    BY <1>5 DEF RunHeld
  <2>8. PartHeld(of, oof)'
    <3>1. PICK t, ro : t = This /\ ro = root OBVIOUS
    <3>2. Rooted(of, oof, ro, t) /\ t \in DOMAIN stated
      BY <1>1, <1>3, <1>4, <3>1 DEF Running, PartHeld
    <3>3. Rooted(of, oof, ro, t)'
      BY <1>1, <1>6, <2>2, <3>2, RootStays
    <3>. QED BY <1>1, <1>3, <1>6, <3>1, <3>3 DEF PartHeld, Left
  <2>9. Running(of, oof, pof)'
    BY <1>7, <2>3, <2>4, <2>5, <2>6, <2>7, <2>8 DEF Running
  <2>10. status' = "none"
    BY <1>1 DEF Shapes
  <2>. QED BY <1>1, <1>7, <2>9, <2>10, NestsWhileRunning
<1>8. CASE ~ScansOps /\ oi' = run.at /\ olevel_end' = Len(ops) /\ odepth' = 1 /\ UNCHANGED ops
  <2>1. odepth = 0 BY <1>4, <1>8 DEF ScansOps
  <2>2. oi' = oi BY <1>5, <1>8, <2>1 DEF Place
  <2>3. Held(of, oof)'
    BY <1>1, <1>3, <1>8, KeptAsTheyAre, HeldStays
  <2>4. \A z \in OpPlaces : Opened(z) => Opened(z)'
    BY <1>8, <2>1 DEF Opened
  <2>5. OpScanHeld(oof)'
    <3>1. \A z \in OpPlaces : z \in Nat /\ z <= Len(ops) BY <1>4 DEF OpPlaces
    <3>2. OpPlaces' = OpPlaces BY <1>8 DEF OpPlaces
    <3>3. \A z \in OpPlaces : z > oi => OfOp(oof[z]) = This /\ Level(oof[z]) = 0
      BY <1>3, <1>5, <2>1 DEF OpScanHeld
    <3>4. \A z \in OpPlaces : Level(oof[z]) = MaxDepth => z > oi
      BY <1>3 DEF OpScanHeld
    <3>. QED BY <1>4, <1>5, <1>6, <1>8, <2>2, <3>1, <3>2, <3>3, <3>4 DEF OpScanHeld
  <2>. QED BY <1>7, <1>8, <2>3, <2>4, <2>5
<1>9. CASE /\ ScansOps /\ oi' = oi + 1 /\ UNCHANGED <<olevel_end, odepth>>
           /\ ops' = [ops EXCEPT ![oi + 1] =
                        [op |-> "closure", at |-> run.at, count |-> run.count,
                         param_at |-> ops[oi + 1].param_at, param_count |-> Len(ops[oi + 1].source.params)]]
  <2>1. PICK n, c : n = oi + 1 /\ c = [op |-> "closure", at |-> run.at, count |-> run.count,
                                       param_at |-> ops[oi + 1].param_at,
                                       param_count |-> Len(ops[oi + 1].source.params)]
    OBVIOUS
  <2>2. odepth # 0 /\ ops[n].op = "pending" /\ BodyHeld(oof, oof[n], run) /\ ParamsHeld(oof[n].it, ops[n].param_at)
    BY <1>3, <1>4, <1>5, <1>9, <2>1 DEF RunHeld, ScansOps
  <2>3. n \in OpPlaces /\ n \in DOMAIN ops
    <3>1. oi < run.at /\ run.at + run.count = Len(ops) BY <1>5, <2>2 DEF Place
    <3>2. run.at \in Nat /\ run.count \in Nat BY DEF Shapes
    <3>. QED BY <1>4, <2>1, <3>1, <3>2 DEF OpPlaces
  <2>4. /\ ops[n].source = oof[n].it /\ oof[n].it.op = "closure" /\ OfOp(oof[n]) = This
    BY <1>3, <2>2, <2>3, WaitingOp
  <2>5. Len(ops') = Len(ops) /\ ops'[n] = c /\ \A z \in OpPlaces : z # n => ops'[z] = ops[z]
    <3>1. AnySeq(ops) /\ n \in DOMAIN ops BY <1>4, <2>3
    <3>2. /\ Len(Changed(ops, n, c)) = Len(ops)
          /\ \A k \in 1 .. Len(ops) : Changed(ops, n, c)[k] = IF k = n THEN c ELSE ops[k]
      BY ONLY <3>1, ChangedSeq
    <3>3. ops' = Changed(ops, n, c) BY <1>9, <2>1 DEF Changed
    <3>. QED BY <2>3, <3>2, <3>3 DEF OpPlaces
  <2>6. OpPlaces' = OpPlaces BY <2>5 DEF OpPlaces
  <2>7. PoolsKept BY <1>1, <1>4, <2>5 DEF PoolsKept
  <2>8. c.op = "closure" /\ c.at = run.at /\ c.count = run.count /\ c.param_at = ops[n].param_at
        /\ c.param_count = Len(oof[n].it.params)
    BY <2>1, <2>4
  <2>9. OpHeld(of, oof, n)'
    <3>1. OpHeld(of, oof, n) BY <1>3, <2>3 DEF OpsHeld, OpPlaces
    <3>2. CodeIn(OfOp(oof[n]))' = CodeIn(OfOp(oof[n])) BY <1>1, NodesStay
    <3>3. BodyHeld(oof, oof[n], c)'
      BY <2>2, <2>5, <2>8 DEF BodyHeld
    <3>4. PICK at : at = ops[n].param_at OBVIOUS
    <3>5. ParamsHeld(oof[n].it, at)'
      BY <1>1, <2>2, <3>4 DEF ParamsHeld
    <3>6. OpDone(of, oof, n)'
      BY <2>4, <2>5, <2>8, <3>3, <3>4, <3>5 DEF OpDone
    <3>. QED BY <1>1, <1>6, <3>1, <3>2, <3>6 DEF OpHeld
  <2>10. Held(of, oof)'
    <3>1. \A x \in TermPlaces' : (x \in TermPlaces /\ terms'[x] = terms[x]) \/ ValueHeld(of, x)'
      BY <1>1, <1>6
    <3>2. \A z \in OpPlaces' : (z \in OpPlaces /\ ops'[z] = ops[z]) \/ OpHeld(of, oof, z)'
      BY <2>5, <2>6, <2>9
    <3>. QED BY <1>1, <1>3, <1>4, <1>6, <2>7, <3>1, <3>2, HeldGrows
  <2>11. ASSUME NEW z \in OpPlaces, Opened(z) PROVE Opened(z)'
    <3>1. CASE z = n BY <2>5, <2>8, <3>1 DEF Opened
    <3>2. CASE z # n BY <2>1, <2>5, <2>11, <3>2 DEF Opened
    <3>. QED BY <3>1, <3>2
  <2>12. OpScanHeld(oof)'
    <3>1. /\ odepth <= MaxDepth /\ olevel_end \in Nat /\ olevel_end <= Len(ops) /\ n <= olevel_end
          /\ \A z \in OpPlaces : z > oi =>
               /\ OfOp(oof[z]) = This
               /\ Level(oof[z]) = IF z <= olevel_end THEN odepth - 1 ELSE odepth
          /\ \A z \in OpPlaces : Level(oof[z]) = MaxDepth => z > oi
      BY <1>3, <1>5, <2>1, <2>2 DEF OpScanHeld
    <3>2. \A z \in OpPlaces : z \in Nat BY <1>4 DEF OpPlaces
    <3>3. n > oi /\ n \in Nat BY <1>4, <2>1
    <3>4. Level(oof[n]) = odepth - 1 BY <2>3, <3>1, <3>3
    <3>5. Level(oof[n]) # MaxDepth BY <1>4, <3>1, <3>4
    <3>6. \A z \in OpPlaces : Level(oof[z]) = MaxDepth => z > n
      BY <1>4, <2>1, <3>1, <3>2, <3>5
    <3>7. \A z \in OpPlaces : z > n => z > oi BY <1>4, <2>1, <3>2
    <3>. QED BY <1>5, <1>6, <1>9, <2>1, <2>2, <2>5, <2>6, <3>1, <3>6, <3>7 DEF OpScanHeld
  <2>13. \A z \in OpPlaces : ops[z].op # "pending" => ops'[z] = ops[z]
    BY <2>2, <2>5
  <2>. QED BY <1>7, <2>5, <2>10, <2>11, <2>12, <2>13
<1>. QED
  BY <1>8, <1>9 DEF EndRun

\* Places that all stand for something else, and as many more as are asked
\* for, are no more than there are nodes.
LEMMA NodesFit ==
  ASSUME NEW f, NEW first \in Nat, NEW end \in Nat, first <= end, NEW W, Nat \subseteq W, NEW way \in Seq(W),
         NEW list, Len(list) \in Nat, DOMAIN list = 1 .. Len(list),
         Apart(f, first + 1 .. end), Unused(f, first + 1 .. end, way),
         NEW S, IsFiniteSet(S), \A x \in first + 1 .. end : f[x] \in S, Nodes(way, list) \subseteq S
  PROVE  end + Len(list) - first <= Cardinality(S) /\ Cardinality(S) \in Nat
<1>1. PICK n, g : n = Len(list) /\ g = Grown(f, end, way, list)
  OBVIOUS
<1>2. /\ \A x \in first + 1 .. end : g[x] = f[x]
      /\ \A m \in 1 .. n : g[end + m] = [way |-> Append(way, m), it |-> list[m]]
      /\ Apart(g, first + 1 .. end + n)
  <2>1. /\ first + 1 \in Nat /\ end \in Nat /\ Nat \subseteq W /\ way \in Seq(W) /\ Len(list) \in Nat
        /\ Apart(f, first + 1 .. end) /\ Unused(f, first + 1 .. end, way)
    OBVIOUS
  <2>2. /\ \A x \in first + 1 .. end : Grown(f, end, way, list)[x] = f[x]
        /\ \A m \in 1 .. Len(list) :
             Grown(f, end, way, list)[end + m] = [way |-> Append(way, m), it |-> list[m]]
        /\ Apart(Grown(f, end, way, list), first + 1 .. end + Len(list))
    BY ONLY <2>1, GrownWell
  <2>. QED BY <1>1, <2>2
<1>3. n \in Nat
  BY <1>1
<1>4. ASSUME NEW x \in first + 1 .. end + n PROVE g[x] \in S
  <2>1. CASE x \in first + 1 .. end
    BY <1>2, <2>1
  <2>2. CASE x \notin first + 1 .. end
    <3>1. x - end \in 1 .. n /\ x = end + (x - end)
      BY <1>3, <2>2
    <3>2. g[x] = [way |-> Append(way, x - end), it |-> list[x - end]]
      BY <1>2, <3>1
    <3>. QED BY <1>1, <3>1, <3>2 DEF Nodes
  <2>. QED BY <2>1, <2>2
<1>5. PICK m : m = end + n - first
  OBVIOUS
<1>6. m \in Nat /\ first + m = end + n
  BY <1>3, <1>5
<1>7. /\ first \in Nat /\ m \in Nat /\ IsFiniteSet(S)
      /\ Apart(g, first + 1 .. first + m) /\ \A x \in first + 1 .. first + m : g[x] \in S
  BY <1>2, <1>4, <1>6
<1>8. m <= Cardinality(S) /\ Cardinality(S) \in Nat
  BY ONLY <1>7, RoomFor
<1>. QED
  BY <1>1, <1>5, <1>8

LEMMA OpsNeeded ==
  ASSUME Shapes, Left, NEW of, NEW oof, OpsHeld(of, oof), Apart(oof, OpPlaces),
         limits \in [terms : Nat, ops : Nat, params : Nat, text : Nat],
         NEW way \in Seq(Nat), NEW list \in Seq(WireOps), Unused(oof, OpPlaces, way),
         Nodes(way, list) \subseteq CodeIn(This), ~OpRoom(Len(list))
  PROVE  Needed("ops") > limits["ops"]
<1>1. PICK n, end : n = Len(list) /\ end = Len(ops)
  OBVIOUS
<1>2. n \in Nat /\ end \in Nat /\ DOMAIN list = 1 .. n /\ OpPlaces = 0 + 1 .. end
  BY <1>1, HeldPools, LenProperties DEF OpPlaces
<1>3. PICK S : S = UNION {CodeIn(k) : k \in Begun}
  OBVIOUS
<1>4. IsFiniteSet(S) /\ This \in Begun
  BY <1>3, BegunFinite, HeldPools DEF This, Begun
<1>5. ASSUME NEW x \in 0 + 1 .. end PROVE oof[x] \in S
  <2>1. oof[x] \in CodeIn(OfOp(oof[x])) /\ OfOp(oof[x]) \in Begun
    BY <1>1, <1>2 DEF OpsHeld, OpHeld, This, Begun
  <2>. QED BY <1>3, <2>1
<1>6. end + n - 0 <= Cardinality(S) /\ Cardinality(S) \in Nat
  <2>1. /\ 0 \in Nat /\ end \in Nat /\ 0 <= end /\ Nat \subseteq Nat /\ way \in Seq(Nat)
        /\ Len(list) \in Nat /\ DOMAIN list = 1 .. Len(list)
        /\ Apart(oof, 0 + 1 .. end) /\ Unused(oof, 0 + 1 .. end, way)
        /\ IsFiniteSet(S) /\ (\A x \in 0 + 1 .. end : oof[x] \in S) /\ Nodes(way, list) \subseteq S
    BY <1>1, <1>2, <1>3, <1>4, <1>5
  <2>2. end + Len(list) - 0 <= Cardinality(S) /\ Cardinality(S) \in Nat
    BY ONLY <2>1, NodesFit
  <2>. QED BY <1>1, <2>2
<1>7. Needed("ops") = Cardinality(S)
  BY <1>3 DEF Needed
<1>8. ~(end + n <= limits.ops) /\ limits.ops \in Nat
  BY <1>1 DEF OpRoom
<1>. QED
  BY <1>2, <1>6, <1>7, <1>8

LEMMA ParamsNeeded ==
  ASSUME Shapes, Left, NEW oof, NEW pof, ParamsApart(oof, pof), AnySeq(params),
         limits \in [terms : Nat, ops : Nat, params : Nat, text : Nat],
         NEW way \in Seq(Nat), NEW list \in Seq(STRING), Unused(pof, 1 .. Len(params), way),
         Nodes(way, list) \subseteq ParamsIn(This), ~ParamRoom(Len(list))
  PROVE  Needed("params") > limits["params"]
<1>1. PICK n, end : n = Len(list) /\ end = Len(params)
  OBVIOUS
<1>2. n \in Nat /\ end \in Nat /\ DOMAIN list = 1 .. n /\ 1 .. Len(params) = 0 + 1 .. end
  BY <1>1, SeqShape, LenProperties
<1>3. PICK S : S = UNION {ParamsIn(k) : k \in Begun}
  OBVIOUS
<1>4. IsFiniteSet(S) /\ This \in Begun
  BY <1>3, BegunFinite, HeldPools DEF This, Begun
<1>5. ASSUME NEW x \in 0 + 1 .. end PROVE pof[x] \in S
  BY <1>1, <1>2, <1>3 DEF ParamsApart
<1>6. end + n - 0 <= Cardinality(S) /\ Cardinality(S) \in Nat
  <2>1. /\ 0 \in Nat /\ end \in Nat /\ 0 <= end /\ Nat \subseteq Nat /\ way \in Seq(Nat)
        /\ Len(list) \in Nat /\ DOMAIN list = 1 .. Len(list)
        /\ Apart(pof, 0 + 1 .. end) /\ Unused(pof, 0 + 1 .. end, way)
        /\ IsFiniteSet(S) /\ (\A x \in 0 + 1 .. end : pof[x] \in S) /\ Nodes(way, list) \subseteq S
    BY <1>1, <1>2, <1>3, <1>4, <1>5 DEF ParamsApart
  <2>2. end + Len(list) - 0 <= Cardinality(S) /\ Cardinality(S) \in Nat
    BY ONLY <2>1, NodesFit
  <2>. QED BY <1>1, <2>2
<1>7. Needed("params") = Cardinality(S)
  BY <1>3 DEF Needed
<1>8. ~(end + n <= limits.params) /\ limits.params \in Nat
  BY <1>1 DEF ParamRoom
<1>. QED
  BY <1>2, <1>6, <1>7, <1>8

\* The places of a run, at the end of the pool.
OpsAdded(of, oof, oof2, way, list) ==
  /\ Kept(oof, oof2, OpPlaces) /\ Apart(oof2, OpPlaces') /\ OpPlaces \subseteq OpPlaces'
  /\ \A n \in 1 .. Len(list) :
       /\ Len(ops) + n \in OpPlaces'
       /\ oof2[Len(ops) + n] = [way |-> Append(way, n), it |-> list[n]]
  /\ \A z \in OpPlaces' \ OpPlaces :
       /\ z > Len(ops) /\ OpHeld(of, oof2, z)'
       /\ OfOp(oof2[z]) = This /\ Level(oof2[z]) = Len(way) - 1
       /\ \E n \in Nat : oof2[z].way = Append(way, n)

LEMMA OpsGrow ==
  ASSUME Shapes, Left, NEW of, NEW oof, OpsHeld(of, oof), Apart(oof, OpPlaces),
         NEW way \in Seq(Nat), Len(way) >= 1, NEW list \in Seq(WireOps), Unused(oof, OpPlaces, way),
         Nodes(way, list) \subseteq CodeIn(This),
         UNCHANGED <<stated, parsed, loaded>>, Len(ops') = Len(ops) + Len(list),
         \A n \in 1 .. Len(list) : ops'[Len(ops) + n].op = "unplaced",
         NEW oof2, oof2 = Grown(oof, Len(ops), way, list)
  PROVE  OpsAdded(of, oof, oof2, way, list)
<1>1. PICK n, end : n = Len(list) /\ end = Len(ops)
  OBVIOUS
<1>2. /\ n \in Nat /\ end \in Nat /\ DOMAIN list = 1 .. n
      /\ OpPlaces = 1 .. end /\ OpPlaces' = 1 .. end + n /\ Len(way) \in Nat
  BY <1>1, HeldPools, LenProperties DEF OpPlaces
<1>3. /\ \A x \in 1 .. end : oof2[x] = oof[x]
      /\ \A m \in 1 .. n : oof2[end + m] = [way |-> Append(way, m), it |-> list[m]]
      /\ Apart(oof2, 1 .. end + n)
  <2>1. /\ 1 \in Nat /\ end \in Nat /\ Nat \subseteq Nat /\ way \in Seq(Nat) /\ Len(list) \in Nat
        /\ Apart(oof, 1 .. end) /\ Unused(oof, 1 .. end, way)
    BY <1>1, <1>2
  <2>2. /\ \A x \in 1 .. end : Grown(oof, end, way, list)[x] = oof[x]
        /\ \A m \in 1 .. Len(list) :
             Grown(oof, end, way, list)[end + m] = [way |-> Append(way, m), it |-> list[m]]
        /\ Apart(Grown(oof, end, way, list), 1 .. end + Len(list))
    BY ONLY <2>1, GrownWell
  <2>3. oof2 = Grown(oof, end, way, list) /\ n = Len(list)
    BY <1>1
  <2>. QED BY <2>2, <2>3
<1>4. Kept(oof, oof2, OpPlaces) /\ Apart(oof2, OpPlaces') /\ OpPlaces \subseteq OpPlaces'
  BY <1>2, <1>3 DEF Kept
<1>5. \A m \in 1 .. n : end + m \in OpPlaces'
  BY <1>2
<1>6. This \in DOMAIN stated /\ This' = This /\ This \in 1 .. This /\ StatedWell
  <2>1. This \in DOMAIN stated /\ Len(loaded) \in Nat /\ StatedWell
    BY BegunFinite, HeldPools
  <2>2. This' = This
    BY DEF This
  <2>3. This \in 1 .. This
    BY <2>1 DEF This
  <2>. QED BY <2>1, <2>2, <2>3
<1>7. ASSUME NEW z \in OpPlaces' \ OpPlaces
      PROVE  /\ z > end /\ OpHeld(of, oof2, z)'
             /\ OfOp(oof2[z]) = This /\ Level(oof2[z]) = Len(way) - 1
             /\ \E m \in Nat : oof2[z].way = Append(way, m)
  <2>1. PICK m \in 1 .. n : z = end + m
    <3>1. z - end \in 1 .. n /\ z = end + (z - end) BY <1>2
    <3>. QED BY <3>1
  <2>2. oof2[z] = [way |-> Append(way, m), it |-> list[m]]
    BY <1>3, <2>1
  <2>3. oof2[z].way = Append(way, m)
    BY <2>2, NodeParts
  <2>4. oof2[z] \in CodeIn(This)
    BY <1>2, <2>2 DEF Nodes
  <2>5. OfOp(oof2[z]) = This
    BY <1>6, <2>4, CodeNodes DEF OfOp
  <2>6. Level(oof2[z]) = Len(way) - 1
    <3>1. m \in Nat /\ way \in Seq(Nat) /\ Len(way) >= 1 BY <1>2
    <3>2. Len(Append(way, m)) = Len(way) + 1 BY ONLY <3>1, WaysOn
    <3>. QED BY <1>2, <2>3, <3>2 DEF Level
  <2>7. OpAhead(oof2, z)'
    <3>1. ops'[z].op = "unplaced" BY <1>1, <2>1
    <3>. QED BY <3>1 DEF OpAhead
  <2>8. OfOp(oof2[z]) = This' /\ oof2[z] \in CodeIn(OfOp(oof2[z]))'
    <3>1. PICK t : t = This OBVIOUS
    <3>2. CodeIn(t)' = CodeIn(t) BY NodesStay
    <3>. QED BY <1>6, <2>4, <2>5, <3>1, <3>2
  <2>9. OpHeld(of, oof2, z)'
    BY <1>6, <2>5, <2>7, <2>8 DEF OpHeld
  <2>10. z > end
    BY <1>2, <2>1
  <2>. QED BY <1>2, <2>3, <2>5, <2>6, <2>9, <2>10
<1>. QED
  BY <1>1, <1>3, <1>4, <1>5, <1>7 DEF OpsAdded

\* The operations of an expression.
LEMMA NestsExpression ==
  ASSUME Shapes, OpsInv, NestingInv, LoadExpression
  PROVE  NestingInv'
<1>1. /\ pc = "next" /\ Left /\ Current.kind = "expression"
      /\ oi' = Len(ops) /\ olevel_end' = Len(ops) /\ odepth' = 0
      /\ UNCHANGED <<hostVars, terms, params, loaded, termScan>>
  BY DEF LoadExpression
<1>2. UNCHANGED <<stated, parsed, limits, terms, params, loaded, i, level_end, depth>>
  BY <1>1 DEF hostVars, termScan
<1>3. PICK of, oof, pof : Spread(of, oof, pof)
  BY DEF NestingInv
<1>4. /\ Held(of, oof) /\ Running(of, oof, pof) /\ OpScanHeld(oof) /\ OpsHeld(of, oof)
      /\ OpsApart(oof) /\ ParamsApart(oof, pof) /\ Apart(oof, OpPlaces)
  BY <1>1, <1>3 DEF Spread, Running, Held, OpsApart
<1>5. /\ Len(ops) \in Nat /\ Len(terms) \in Nat /\ parsed \in Nat /\ StatedWell /\ This \in DOMAIN stated
      /\ limits \in [terms : Nat, ops : Nat, params : Nat, text : Nat] /\ AnySeq(ops)
      /\ MaxDepth \in Nat \ {0} /\ AnySeq(params) /\ Len(params) \in Nat
  BY <1>1, <1>4, HeldPools, BegunFinite, ExpandAssumption, SeqShape DEF NestingInv, Shapes, OpsHeld
<1>6. PICK t, list : t = This /\ list = Current.ops
  OBVIOUS
<1>7. /\ stated[t].kind = "expression" /\ list = stated[t].ops /\ list \in Seq(WireOps)
      /\ t \in Nat /\ Len(list) \in Nat /\ DOMAIN list = 1 .. Len(list) /\ t \in DOMAIN stated
  <2>1. Current = stated[t] BY <1>6 DEF Current, This
  <2>2. list \in Seq(WireOps) BY <1>1, <1>6, CurrentPart
  <2>3. t \in Nat BY <1>5, <1>6, StatedPart
  <2>. QED BY <1>1, <1>5, <1>6, <2>1, <2>2, <2>3, LenProperties
<1>8. PICK way : way = <<t>>
  OBVIOUS
<1>9. way \in Seq(Nat) /\ Len(way) = 1 /\ way[1] = t
  BY <1>7, <1>8
<1>10. ASSUME NEW n \in Nat PROVE Append(way, n)[1] = t /\ Len(Append(way, n)) = 2
  <2>1. n \in Nat /\ way \in Seq(Nat) /\ Len(way) >= 1 BY <1>9
  <2>2. Append(way, n)[1] = way[1] /\ Len(Append(way, n)) = Len(way) + 1 BY ONLY <2>1, WaysOn
  <2>. QED BY <1>9, <2>2
<1>11. Unused(oof, OpPlaces, way)
  <2>1. ASSUME NEW z \in OpPlaces, NEW n \in Nat, oof[z].way = Append(way, n) PROVE FALSE
    <3>1. Append(way, n)[1] = t BY <1>10
    <3>2. OfOp(oof[z]) = This BY <1>6, <2>1, <3>1 DEF OfOp
    <3>. QED BY <1>1, <1>4, <2>1, <3>2 DEF Running, PartHeld
  <2>. QED BY <2>1 DEF Unused
<1>12. Nodes(way, list) \subseteq CodeIn(t)
  <2>1. Nodes(way, list) = CodeRoots(t) BY <1>7, <1>8 DEF CodeRoots
  <2>. QED BY <1>5, <1>7, <2>1, CodeNodes
<1>13. CASE ~OpRoom(Len(list)) /\ Refuse("NOMEM") /\ UNCHANGED ops
  <2>1. Needed("ops") > limits["ops"]
    BY <1>1, <1>4, <1>5, <1>6, <1>7, <1>9, <1>11, <1>12, <1>13, OpsNeeded
  <2>. QED BY <1>1, <1>2, <1>13, <2>1, NestsRefused DEF Refuse
<1>14. CASE BeginRun(list) /\ root' = run'
  <2>1. /\ ops' = ops \o Unplaced(Len(list)) /\ source' = list /\ run' = [at |-> Len(ops), count |-> Len(list)]
        /\ slot' = Len(ops) + 1 /\ pc' = "run" /\ UNCHANGED status
        /\ root'.at = Len(ops) /\ root'.count = Len(list)
    BY <1>14 DEF BeginRun, Goto
  <2>2. /\ Len(ops') = Len(ops) + Len(list) /\ \A k \in 1 .. Len(ops) : ops'[k] = ops[k]
        /\ \A n \in 1 .. Len(list) : ops'[Len(ops) + n].op = "unplaced"
    <3>1. PICK n, end : n = Len(list) /\ end = Len(ops) OBVIOUS
    <3>2. AnySeq(ops) /\ n \in Nat /\ end \in Nat BY <1>5, <1>7, <3>1
    <3>3. /\ Len(ops \o Unplaced(n)) = Len(ops) + n
          /\ \A k \in 1 .. Len(ops) : (ops \o Unplaced(n))[k] = ops[k]
          /\ \A k \in Len(ops) + 1 .. Len(ops) + n : (ops \o Unplaced(n))[k].op = "unplaced"
      BY ONLY <3>2, UnplacedRun
    <3>4. \A m \in 1 .. n : end + m \in end + 1 .. end + n BY <3>2
    <3>. QED BY <2>1, <3>1, <3>3, <3>4
  <2>3. PICK oof2 : oof2 = Grown(oof, Len(ops), way, list)
    OBVIOUS
  <2>4. OpsAdded(of, oof, oof2, way, list)
    <3>1. /\ Shapes /\ Left /\ OpsHeld(of, oof) /\ Apart(oof, OpPlaces)
          /\ way \in Seq(Nat) /\ Len(way) >= 1 /\ list \in Seq(WireOps) /\ Unused(oof, OpPlaces, way)
          /\ Nodes(way, list) \subseteq CodeIn(This)
          /\ UNCHANGED <<stated, parsed, loaded>> /\ Len(ops') = Len(ops) + Len(list)
          /\ \A n \in 1 .. Len(list) : ops'[Len(ops) + n].op = "unplaced"
      BY <1>1, <1>2, <1>4, <1>6, <1>7, <1>9, <1>11, <1>12, <2>2
    <3>. QED BY ONLY <2>3, <3>1, OpsGrow
  <2>5. /\ Kept(oof, oof2, OpPlaces) /\ Apart(oof2, OpPlaces') /\ OpPlaces \subseteq OpPlaces'
        /\ \A n \in 1 .. Len(list) :
             /\ Len(ops) + n \in OpPlaces'
             /\ oof2[Len(ops) + n] = [way |-> Append(way, n), it |-> list[n]]
        /\ \A z \in OpPlaces' \ OpPlaces :
             /\ z > Len(ops) /\ OpHeld(of, oof2, z)'
             /\ OfOp(oof2[z]) = This /\ Level(oof2[z]) = Len(way) - 1
             /\ \E n \in Nat : oof2[z].way = Append(way, n)
    BY <2>4 DEF OpsAdded
  <2>6. TermPlaces' = TermPlaces /\ This' = This /\ Kept(of, of, TermPlaces)
    BY <1>2 DEF TermPlaces, This, Kept
  <2>7. PoolsKept
    BY <1>2, <1>5, <1>7, <2>2 DEF PoolsKept
  <2>8. \A z \in OpPlaces : ops'[z] = ops[z] /\ oof2[z] = oof[z] /\ z \in Nat /\ z <= Len(ops)
    BY <1>5, <2>2, <2>5 DEF OpPlaces, Kept
  <2>9. Held(of, oof2)'
    <3>1. \A x \in TermPlaces' : (x \in TermPlaces /\ terms'[x] = terms[x]) \/ ValueHeld(of, x)'
      BY <1>2, <2>6
    <3>2. \A z \in OpPlaces' : (z \in OpPlaces /\ ops'[z] = ops[z]) \/ OpHeld(of, oof2, z)'
      BY <2>5, <2>8
    <3>. QED BY <1>2, <1>4, <1>5, <2>5, <2>6, <2>7, <3>1, <3>2, HeldGrows
  <2>10. ~Placing /\ ~Expanding /\ Placing' /\ Expanding'
    BY <1>1, <2>1 DEF Placing, Expanding
  <2>11. ASSUME NEW z \in OpPlaces' \ OpPlaces PROVE ~(Len(oof2[z].way) > 2) /\ Level(oof2[z]) = 0
    <3>1. PICK n \in Nat : oof2[z].way = Append(way, n) BY <2>5
    <3>2. Len(oof2[z].way) = 2 BY <1>10, <3>1
    <3>3. ~(2 > 2) /\ 1 - 1 = 0 OBVIOUS
    <3>4. Level(oof2[z]) = 1 - 1 BY <1>9, <2>5
    <3>. QED BY <3>2, <3>3, <3>4
  <2>12. \A z \in OpPlaces : Opened(z) => Opened(z)'
    BY <2>8, <2>10 DEF Opened
  <2>13. ValuesApart(of)'
    BY <1>2, <1>4, <2>6 DEF Running, ValuesApart, Apart
  <2>14. ValuesOfOps(of, oof2)'
    BY <1>4, <2>5, <2>6, <2>8 DEF Running, ValuesOfOps
  <2>15. OpsApart(oof2)'
    <3>1. ASSUME NEW y \in OpPlaces', Len(oof2[y].way) > 2
          PROVE  \E z \in OpPlaces' : Opened(z)' /\ \E n \in Nat : oof2[y].way = Append(oof2[z].way, n)
      <4>1. y \in OpPlaces BY <2>11, <3>1
      <4>2. PICK z \in OpPlaces : Opened(z) /\ \E n \in Nat : oof[y].way = Append(oof[z].way, n)
        BY <1>4, <2>8, <3>1, <4>1 DEF OpsApart
      <4>. QED BY <2>5, <2>8, <2>12, <4>1, <4>2
    <3>. QED BY <2>5, <3>1 DEF OpsApart
  <2>16. ParamsApart(oof2, pof)'
    <3>1. Begun' = Begun /\ \A k \in Begun : ParamsIn(k)' = ParamsIn(k)
      BY <1>2, NodesStay DEF Begun
    <3>2. ASSUME NEW p \in 1 .. Len(params)
          PROVE  /\ \E k \in Begun' : pof[p] \in ParamsIn(k)'
                 /\ \E z \in OpPlaces' : Opened(z)' /\ \E n \in Nat : pof[p].way = Append(oof2[z].way, n)
      <4>1. \E k \in Begun : pof[p] \in ParamsIn(k) BY <1>4 DEF ParamsApart
      <4>2. PICK z \in OpPlaces : Opened(z) /\ \E n \in Nat : pof[p].way = Append(oof[z].way, n)
        BY <1>4 DEF ParamsApart
      <4>. QED BY <2>5, <2>8, <2>12, <3>1, <4>1, <4>2
    <3>3. Apart(pof, 1 .. Len(params)) BY <1>4 DEF ParamsApart
    <3>. QED BY <1>2, <3>2, <3>3 DEF ParamsApart, Apart
  <2>17. ScanHeld(of)'
    BY <1>1, <1>2, <1>4, <2>1, <2>6 DEF Running, ScanHeld
  <2>18. OpScanHeld(oof2)'
    <3>1. olevel_end' \in Nat /\ olevel_end' <= Len(ops') /\ odepth' <= MaxDepth
      BY <1>1, <1>5, <1>7, <2>2
    <3>2. ASSUME NEW z \in OpPlaces', z > oi' PROVE OfOp(oof2[z]) = This' /\ Level(oof2[z]) = 0
      <4>1. z \in OpPlaces' \ OpPlaces BY <1>1, <1>5, <2>8, <3>2
      <4>. QED BY <2>5, <2>6, <2>11, <4>1
    <3>3. ASSUME NEW z \in OpPlaces' PROVE Level(oof2[z]) # MaxDepth
      <4>1. CASE z \in OpPlaces BY <1>4, <2>8, <2>10, <4>1 DEF OpScanHeld
      <4>2. CASE z \notin OpPlaces BY <1>5, <2>11, <4>2
      <4>. QED BY <4>1, <4>2
    <3>. QED BY <1>1, <3>1, <3>2, <3>3 DEF OpScanHeld
  <2>19. RunHeld(oof2)'
    <3>1. ASSUME NEW n \in 1 .. Len(list)
          PROVE  ops'[slot' + n - 1].op = "unplaced" /\ oof2[slot' + n - 1].it = source'[n]
      <4>1. slot' + n - 1 = Len(ops) + n BY <1>5, <1>7, <2>1
      <4>2. oof2[Len(ops) + n].it = list[n]
        <5>1. oof2[Len(ops) + n] = [way |-> Append(way, n), it |-> list[n]] BY <2>5
        <5>. QED BY <5>1, NodeParts
      <4>. QED BY <2>1, <2>2, <4>1, <4>2
    <3>. QED BY <1>1, <2>1, <3>1 DEF RunHeld
  <2>20. PartHeld(of, oof2)'
    <3>1. Len(ops) \in Nat /\ Len(ops) + Len(list) <= Len(ops') BY <1>5, <1>7, <2>2
    <3>2. PICK r : r = root' OBVIOUS
    <3>3. r.at = Len(ops) /\ r.count = Len(list) BY <2>1, <3>2
    <3>4. Rooted(of, oof2, r, t)'
      BY <1>2, <1>7, <1>8, <2>5, <3>1, <3>3 DEF Rooted
    <3>. QED BY <1>1, <1>2, <1>6, <2>1, <2>6, <3>2, <3>4 DEF PartHeld, Left
  <2>21. Running(of, oof2, pof)'
    BY <2>13, <2>14, <2>15, <2>16, <2>17, <2>18, <2>19, <2>20 DEF Running
  <2>22. status' = "none"
    BY <1>1, <2>1 DEF Shapes
  <2>. QED BY <1>2, <2>9, <2>21, <2>22, NestsWhileRunning
<1>. QED
  BY <1>6, <1>13, <1>14 DEF LoadExpression

\* What is below a closure that waits has no place yet.
LEMMA NoneBelowWaitingOp ==
  ASSUME Shapes, NEW of, NEW oof, NEW pof, OpsHeld(of, oof), OpsApart(oof), ParamsApart(oof, pof),
         NEW n \in OpPlaces, ops[n].op = "pending", ~Placing
  PROVE  Unused(oof, OpPlaces, oof[n].way) /\ Unused(pof, 1 .. Len(params), oof[n].way)
<1>1. oof[n].way \in Seq(Nat) /\ Len(oof[n].way) >= 2 /\ Len(oof[n].way) \in Nat
  BY WaitingOp
<1>2. ASSUME NEW m \in Nat, NEW z \in OpPlaces, Opened(z), NEW k \in Nat,
             Append(oof[n].way, m) = Append(oof[z].way, k)
      PROVE  FALSE
  <2>1. oof[z] \in CodeIn(OfOp(oof[z])) /\ OfOp(oof[z]) \in DOMAIN stated /\ StatedWell
    BY <1>2, HeldPools DEF OpsHeld, OpHeld, OpPlaces
  <2>2. oof[z].way \in Seq(Nat)
    <3>1. PICK j : j = OfOp(oof[z]) OBVIOUS
    <3>2. StatedWell /\ j \in DOMAIN stated /\ oof[z] \in CodeIn(j) BY <2>1, <3>1
    <3>. QED BY ONLY <3>2, OpNodeOf
  <2>3. PICK a, b : a = oof[n].way /\ b = oof[z].way
    OBVIOUS
  <2>4. a \in Seq(Nat) /\ b \in Seq(Nat) /\ m \in Nat /\ k \in Nat /\ Append(a, m) = Append(b, k)
    BY <1>1, <1>2, <2>2, <2>3
  <2>5. a = b
    BY ONLY <2>4, AppendInjective
  <2>6. z = n
    BY <1>2, <2>3, <2>5 DEF OpsApart, Apart
  <2>. QED BY <1>2, <2>6 DEF Opened
<1>3. ASSUME NEW x \in OpPlaces, NEW m \in Nat, oof[x].way = Append(oof[n].way, m)
      PROVE  FALSE
  <2>1. m \in Nat /\ oof[n].way \in Seq(Nat) /\ Len(oof[n].way) >= 1 BY <1>1
  <2>2. Len(Append(oof[n].way, m)) = Len(oof[n].way) + 1 BY ONLY <2>1, WaysOn
  <2>3. Len(oof[x].way) > 2 BY <1>1, <1>3, <2>2
  <2>4. PICK z \in OpPlaces : Opened(z) /\ \E k \in Nat : oof[x].way = Append(oof[z].way, k)
    BY <1>3, <2>3 DEF OpsApart
  <2>5. PICK k \in Nat : oof[x].way = Append(oof[z].way, k)
    BY <2>4
  <2>6. Append(oof[n].way, m) = Append(oof[z].way, k)
    BY <1>3, <2>5
  <2>. QED BY <1>2, <2>4, <2>6
<1>4. ASSUME NEW p \in 1 .. Len(params), NEW m \in Nat, pof[p].way = Append(oof[n].way, m)
      PROVE  FALSE
  <2>1. PICK z \in OpPlaces : Opened(z) /\ \E k \in Nat : pof[p].way = Append(oof[z].way, k)
    BY <1>4 DEF ParamsApart
  <2>2. PICK k \in Nat : pof[p].way = Append(oof[z].way, k)
    BY <2>1
  <2>3. Append(oof[n].way, m) = Append(oof[z].way, k)
    BY <1>4, <2>2
  <2>. QED BY <1>2, <2>1, <2>3
<1>. QED
  BY <1>3, <1>4 DEF Unused

\* The names of parameters, at the end of the pool.
ParamsAdded(oof2, pof2, z) ==
  /\ Apart(pof2, 1 .. Len(params'))
  /\ \A p \in 1 .. Len(params') :
       /\ \E k \in Begun : pof2[p] \in ParamsIn(k)
       /\ \/ \E y \in OpPlaces : Opened(y) /\ \E n \in Nat : pof2[p].way = Append(oof2[y].way, n)
          \/ \E n \in Nat : pof2[p].way = Append(oof2[z].way, n)

LEMMA ParamsGrow ==
  ASSUME Shapes, NEW oof, NEW oof2, NEW pof, ParamsApart(oof, pof), AnySeq(params), Kept(oof, oof2, OpPlaces),
         NEW z \in OpPlaces, oof[z].way \in Seq(Nat), NEW list \in Seq(STRING),
         Unused(pof, 1 .. Len(params), oof[z].way), Nodes(oof[z].way, list) \subseteq ParamsIn(This),
         Len(params') = Len(params) + Len(list),
         NEW pof2, pof2 = Grown(pof, Len(params), oof[z].way, list)
  PROVE  ParamsAdded(oof2, pof2, z)
<1>1. PICK n, end, way : n = Len(list) /\ end = Len(params) /\ way = oof[z].way
  OBVIOUS
<1>2. /\ n \in Nat /\ end \in Nat /\ DOMAIN list = 1 .. n /\ oof2[z].way = way
      /\ Len(params') = end + n
  BY <1>1, SeqShape, LenProperties DEF Kept
<1>3. /\ \A x \in 1 .. end : pof2[x] = pof[x]
      /\ \A m \in 1 .. n : pof2[end + m] = [way |-> Append(way, m), it |-> list[m]]
      /\ Apart(pof2, 1 .. end + n)
  <2>1. /\ 1 \in Nat /\ end \in Nat /\ Nat \subseteq Nat /\ way \in Seq(Nat) /\ Len(list) \in Nat
        /\ Apart(pof, 1 .. end) /\ Unused(pof, 1 .. end, way)
    BY <1>1, <1>2 DEF ParamsApart
  <2>2. /\ \A x \in 1 .. end : Grown(pof, end, way, list)[x] = pof[x]
        /\ \A m \in 1 .. Len(list) :
             Grown(pof, end, way, list)[end + m] = [way |-> Append(way, m), it |-> list[m]]
        /\ Apart(Grown(pof, end, way, list), 1 .. end + Len(list))
    BY ONLY <2>1, GrownWell
  <2>3. pof2 = Grown(pof, end, way, list) /\ n = Len(list)
    BY <1>1
  <2>. QED BY <2>2, <2>3
<1>4. ASSUME NEW p \in 1 .. end
      PROVE  /\ \E k \in Begun : pof2[p] \in ParamsIn(k)
             /\ \E y \in OpPlaces : Opened(y) /\ \E m \in Nat : pof2[p].way = Append(oof2[y].way, m)
  <2>1. pof2[p] = pof[p] BY <1>3
  <2>2. \E k \in Begun : pof[p] \in ParamsIn(k)
    BY <1>1 DEF ParamsApart
  <2>3. PICK y \in OpPlaces : Opened(y) /\ \E m \in Nat : pof[p].way = Append(oof[y].way, m)
    BY <1>1 DEF ParamsApart
  <2>4. oof2[y] = oof[y] BY DEF Kept
  <2>. QED BY <2>1, <2>2, <2>3, <2>4
<1>5. ASSUME NEW m \in 1 .. n
      PROVE  /\ \E k \in Begun : pof2[end + m] \in ParamsIn(k)
             /\ \E j \in Nat : pof2[end + m].way = Append(oof2[z].way, j)
  <2>1. pof2[end + m] = [way |-> Append(way, m), it |-> list[m]] BY <1>3
  <2>2. pof2[end + m].way = Append(way, m) BY <2>1, NodeParts
  <2>3. pof2[end + m] \in Nodes(way, list) BY <1>2, <2>1 DEF Nodes
  <2>4. This \in Begun BY HeldPools DEF This, Begun
  <2>. QED BY <1>1, <1>2, <2>2, <2>3, <2>4
<1>6. ASSUME NEW p \in 1 .. end + n
      PROVE  /\ \E k \in Begun : pof2[p] \in ParamsIn(k)
             /\ \/ \E y \in OpPlaces : Opened(y) /\ \E m \in Nat : pof2[p].way = Append(oof2[y].way, m)
                \/ \E m \in Nat : pof2[p].way = Append(oof2[z].way, m)
  <2>1. CASE p \in 1 .. end BY <1>4, <2>1
  <2>2. CASE p \notin 1 .. end
    <3>1. p - end \in 1 .. n /\ p = end + (p - end) BY <1>2, <2>2
    <3>2. PICK m \in 1 .. n : p = end + m BY <3>1
    <3>. QED BY <1>5, <3>2
  <2>. QED BY <2>1, <2>2
<1>7. Apart(pof2, 1 .. Len(params'))
  BY <1>2, <1>3
<1>. QED
  BY <1>2, <1>6, <1>7 DEF ParamsAdded

\* The pools behind a closure that is opened.
LEMMA OpensPlaces ==
  ASSUME AnySeq(ops), NEW n \in DOMAIN ops, NEW o, NEW count \in Nat,
         ops' = [ops EXCEPT ![n] = o] \o Unplaced(count)
  PROVE  /\ Len(ops') = Len(ops) + count /\ ops'[n] = o
         /\ \A z \in OpPlaces : z # n => ops'[z] = ops[z]
         /\ \A m \in 1 .. count : ops'[Len(ops) + m].op = "unplaced"
<1>1. PICK pool, end : pool = Changed(ops, n, o) /\ end = Len(ops)
  OBVIOUS
<1>2. Len(pool) = end /\ AnySeq(pool) /\ \A k \in 1 .. end : pool[k] = IF k = n THEN o ELSE ops[k]
  <2>1. AnySeq(ops) /\ n \in DOMAIN ops
    OBVIOUS
  <2>2. /\ AnySeq(Changed(ops, n, o)) /\ Len(Changed(ops, n, o)) = Len(ops)
        /\ \A k \in 1 .. Len(ops) : Changed(ops, n, o)[k] = IF k = n THEN o ELSE ops[k]
    BY ONLY <2>1, ChangedSeq
  <2>. QED BY <1>1, <2>2
<1>3. AnySeq(pool) /\ count \in Nat /\ end \in Nat /\ n \in 1 .. end
  BY <1>1, <1>2, SeqShape
<1>4. /\ Len(pool \o Unplaced(count)) = Len(pool) + count
      /\ \A k \in 1 .. Len(pool) : (pool \o Unplaced(count))[k] = pool[k]
      /\ \A k \in Len(pool) + 1 .. Len(pool) + count : (pool \o Unplaced(count))[k].op = "unplaced"
  BY ONLY <1>3, UnplacedRun
<1>5. ops' = pool \o Unplaced(count)
  BY <1>1 DEF Changed
<1>6. /\ Len(ops') = end + count /\ \A k \in 1 .. end : ops'[k] = pool[k]
      /\ \A k \in end + 1 .. end + count : ops'[k].op = "unplaced"
  BY <1>2, <1>4, <1>5
<1>7. \A m \in 1 .. count : end + m \in end + 1 .. end + count
  BY <1>3
<1>. QED
  BY <1>1, <1>2, <1>3, <1>6, <1>7 DEF OpPlaces

LEMMA ParamsBehind ==
  ASSUME AnySeq(params), NEW list \in Seq(STRING), params' = params \o list
  PROVE  /\ Len(params') = Len(params) + Len(list) /\ AnySeq(params') /\ Len(list) \in Nat
         /\ Len(params) \in Nat /\ Len(params') \in Nat /\ Len(params) <= Len(params')
         /\ \A p \in 1 .. Len(params) : params'[p] = params[p]
         /\ \A m \in 1 .. Len(list) : params'[Len(params) + m] = list[m]
<1>1. AnySeq(list) /\ AnySeq(params)
  BY SomeSeq
<1>2. /\ AnySeq(params \o list) /\ Len(params \o list) = Len(params) + Len(list)
      /\ \A k \in 1 .. Len(params) + Len(list) :
           (params \o list)[k] = IF k <= Len(params) THEN params[k] ELSE list[k - Len(params)]
  BY ONLY <1>1, JoinedSeq
<1>3. PICK end, n : end = Len(params) /\ n = Len(list)
  OBVIOUS
<1>4. end \in Nat /\ n \in Nat
  BY <1>1, <1>3, SeqShape
<1>5. \A k \in 1 .. end + n : params'[k] = IF k <= end THEN params[k] ELSE list[k - end]
  BY <1>2, <1>3
<1>6. ASSUME NEW p \in 1 .. end PROVE params'[p] = params[p]
  <2>1. p \in 1 .. end + n /\ p <= end BY <1>4
  <2>. QED BY <1>5, <2>1
<1>7. ASSUME NEW m \in 1 .. n PROVE params'[end + m] = list[m]
  <2>1. end + m \in 1 .. end + n /\ ~(end + m <= end) /\ (end + m) - end = m BY <1>4
  <2>. QED BY <1>5, <2>1
<1>. QED
  BY <1>2, <1>3, <1>4, <1>6, <1>7

\* The parameters and the body of a closure.
LEMMA NestsOpExpanded ==
  ASSUME Shapes, OpsInv, NestingInv, ExpandOp
  PROVE  NestingInv'
<1>1. /\ pc = "ops" /\ OpTurning /\ ops[oi + 1].op = "pending"
      /\ UNCHANGED <<stated, parsed, limits, terms, loaded, root, i, level_end, depth, oi>>
      /\ olevel_end' = OpEnd /\ odepth' = OpDepth
  BY DEF ExpandOp, OpTurning, OpScanned, hostVars, runVars, termScan
<1>2. PICK of, oof, pof : Spread(of, oof, pof)
  BY DEF NestingInv
<1>3. /\ Held(of, oof) /\ Running(of, oof, pof) /\ OpScanHeld(oof) /\ OpsHeld(of, oof) /\ Left
      /\ OpsApart(oof) /\ ParamsApart(oof, pof) /\ Apart(oof, OpPlaces)
  BY <1>1, <1>2 DEF Spread, Running, Held, OpsApart, PartHeld
<1>4. /\ Len(ops) \in Nat /\ Len(terms) \in Nat /\ parsed \in Nat /\ StatedWell /\ This \in DOMAIN stated
      /\ limits \in [terms : Nat, ops : Nat, params : Nat, text : Nat] /\ AnySeq(ops)
      /\ MaxDepth \in Nat \ {0} /\ AnySeq(params) /\ Len(params) \in Nat
      /\ oi \in Nat /\ DOMAIN ops = 1 .. Len(ops)
  BY <1>3, HeldPools, BegunFinite, ExpandAssumption, SeqShape DEF NestingInv, Shapes, OpsHeld
<1>5. ~Placing /\ Expanding /\ Current.kind = "expression"
  BY <1>1 DEF Placing, Expanding, OpsInv
<1>6. PICK n, t : n = oi + 1 /\ t = This
  OBVIOUS
<1>7. PICK c, way : c = ops[n].source /\ way = oof[n].way
  OBVIOUS
<1>8. PICK list, names : list = c.body /\ names = c.params
  OBVIOUS
<1>9. /\ OpDepth \in 1 .. MaxDepth /\ OpEnd \in Nat /\ OpEnd <= Len(ops)
      /\ n <= OpEnd /\ n \in OpPlaces
      /\ OfOp(oof[n]) = This /\ Level(oof[n]) = OpDepth - 1
      /\ \A z \in OpPlaces : z > oi =>
           OfOp(oof[z]) = This /\ Level(oof[z]) = IF z <= OpEnd THEN OpDepth - 1 ELSE OpDepth
  BY <1>1, <1>3, <1>6, OpLevelsTurned
<1>10. /\ oof[n].it = c /\ c.op = "closure" /\ oof[n] \in CodeIn(t) /\ t \in DOMAIN stated
       /\ list \in Seq(WireOps) /\ Len(list) \in Nat /\ DOMAIN list = 1 .. Len(list)
       /\ names \in Seq(STRING) /\ Len(names) \in Nat /\ DOMAIN names = 1 .. Len(names)
       /\ way \in Seq(Nat) /\ Len(way) >= 2 /\ Len(way) \in Nat
  <2>1. n \in OpPlaces /\ ops[n].op = "pending" BY <1>1, <1>6, <1>9
  <2>2. /\ ops[n].source = oof[n].it /\ oof[n].it.op = "closure" /\ OfOp(oof[n]) = This
        /\ oof[n] \in CodeIn(This) /\ This \in DOMAIN stated
        /\ oof[n].it.body \in Seq(WireOps) /\ Len(oof[n].it.body) \in Nat
        /\ DOMAIN oof[n].it.body = 1 .. Len(oof[n].it.body)
        /\ oof[n].it.params \in Seq(STRING) /\ Len(oof[n].it.params) \in Nat
        /\ DOMAIN oof[n].it.params = 1 .. Len(oof[n].it.params)
        /\ oof[n].way \in Seq(Nat) /\ Len(oof[n].way) >= 2 /\ Len(oof[n].way) \in Nat
    BY <1>3, <2>1, WaitingOp
  <2>. QED BY <1>6, <1>7, <1>8, <2>2
<1>11. Unused(oof, OpPlaces, way) /\ Unused(pof, 1 .. Len(params), way)
  BY <1>1, <1>3, <1>5, <1>6, <1>7, <1>9, NoneBelowWaitingOp
<1>12. Nodes(way, list) \subseteq CodeIn(t)
  <2>1. Level(oof[n]) < MaxDepth BY <1>4, <1>9
  <2>2. Nodes(oof[n].way, BodyOf(oof[n].it)) \subseteq CodeIn(t) BY <1>4, <1>10, <2>1, CodeNodes
  <2>3. BodyOf(oof[n].it) = list BY <1>8, <1>10 DEF BodyOf
  <2>. QED BY <1>7, <2>2, <2>3
<1>13. Nodes(way, names) \subseteq ParamsIn(t)
  <2>1. ParamsOf(oof[n].it) = names BY <1>8, <1>10 DEF ParamsOf
  <2>2. Nodes(oof[n].way, ParamsOf(oof[n].it)) \subseteq ParamsIn(t) BY <1>10 DEF ParamsIn
  <2>. QED BY <1>7, <2>1, <2>2
<1>14. CASE ~ParamRoom(Len(names)) /\ Refuse("NOMEM") /\ UNCHANGED <<ops, params>>
  <2>1. Needed("params") > limits["params"]
    BY <1>3, <1>4, <1>6, <1>10, <1>11, <1>13, <1>14, ParamsNeeded
  <2>. QED BY <1>1, <1>14, <2>1, NestsRefused DEF Refuse
<1>15. CASE ~OpRoom(Len(list)) /\ params' = params \o names /\ Refuse("NOMEM") /\ UNCHANGED ops
  <2>1. Needed("ops") > limits["ops"]
    BY <1>3, <1>4, <1>6, <1>10, <1>11, <1>12, <1>15, OpsNeeded
  <2>2. pc' = "stopped" /\ status' = "NOMEM"
    BY <1>15 DEF Refuse
  <2>3. Causes'
    BY <1>1, <2>1, <2>2, CausesStop
  <2>4. /\ Len(params) <= Len(params') /\ AnySeq(params')
        /\ \A p \in 1 .. Len(params) : params'[p] = params[p]
    BY <1>4, <1>10, <1>15, ParamsBehind
  <2>. QED BY <1>1, <1>15, <2>2, <2>3, <2>4, NestsStopped
<1>16. CASE /\ params' = params \o names
            /\ ops' = [ops EXCEPT ![n] = [op |-> "pending", source |-> c, param_at |-> Len(params)]]
                      \o Unplaced(Len(list))
            /\ source' = list /\ run' = [at |-> Len(ops), count |-> Len(list)]
            /\ slot' = Len(ops) + 1 /\ Goto("run")
  <2>1. PICK o : o = [op |-> "pending", source |-> c, param_at |-> Len(params)]
    OBVIOUS
  <2>2. o.op = "pending" /\ o.source = c /\ o.param_at = Len(params)
    BY <2>1
  <2>3. /\ Len(ops') = Len(ops) + Len(list) /\ ops'[n] = o
        /\ \A z \in OpPlaces : z # n => ops'[z] = ops[z]
        /\ \A m \in 1 .. Len(list) : ops'[Len(ops) + m].op = "unplaced"
    <3>1. PICK m : m = Len(list) OBVIOUS
    <3>2. AnySeq(ops) /\ n \in DOMAIN ops /\ m \in Nat /\ ops' = [ops EXCEPT ![n] = o] \o Unplaced(m)
      BY <1>4, <1>9, <1>10, <1>16, <2>1, <3>1 DEF OpPlaces
    <3>3. /\ Len(ops') = Len(ops) + m /\ ops'[n] = o
          /\ \A z \in OpPlaces : z # n => ops'[z] = ops[z]
          /\ \A k \in 1 .. m : ops'[Len(ops) + k].op = "unplaced"
      BY ONLY <3>2, OpensPlaces
    <3>. QED BY <3>1, <3>3
  <2>4. /\ Len(params') = Len(params) + Len(names) /\ AnySeq(params')
        /\ Len(params') \in Nat /\ Len(params) <= Len(params')
        /\ \A p \in 1 .. Len(params) : params'[p] = params[p]
        /\ \A m \in 1 .. Len(names) : params'[Len(params) + m] = names[m]
    BY <1>4, <1>10, <1>16, ParamsBehind
  <2>5. pc' = "run" /\ UNCHANGED status /\ status' = "none"
    BY <1>1, <1>16 DEF Goto, Shapes
  <2>6. PICK oof2, pof2 : oof2 = Grown(oof, Len(ops), way, list) /\ pof2 = Grown(pof, Len(params), way, names)
    OBVIOUS
  <2>7. OpsAdded(of, oof, oof2, way, list)
    <3>1. /\ Shapes /\ Left /\ OpsHeld(of, oof) /\ Apart(oof, OpPlaces)
          /\ way \in Seq(Nat) /\ Len(way) >= 1 /\ list \in Seq(WireOps) /\ Unused(oof, OpPlaces, way)
          /\ Nodes(way, list) \subseteq CodeIn(This)
          /\ UNCHANGED <<stated, parsed, loaded>> /\ Len(ops') = Len(ops) + Len(list)
          /\ \A m \in 1 .. Len(list) : ops'[Len(ops) + m].op = "unplaced"
      BY <1>1, <1>3, <1>6, <1>10, <1>11, <1>12, <2>3
    <3>2. oof2 = Grown(oof, Len(ops), way, list) BY <2>6
    <3>. QED BY ONLY <3>1, <3>2, OpsGrow
  <2>8. /\ Kept(oof, oof2, OpPlaces) /\ Apart(oof2, OpPlaces') /\ OpPlaces \subseteq OpPlaces'
        /\ \A m \in 1 .. Len(list) :
             /\ Len(ops) + m \in OpPlaces'
             /\ oof2[Len(ops) + m] = [way |-> Append(way, m), it |-> list[m]]
        /\ \A z \in OpPlaces' \ OpPlaces :
             /\ z > Len(ops) /\ OpHeld(of, oof2, z)'
             /\ OfOp(oof2[z]) = This /\ Level(oof2[z]) = Len(way) - 1
             /\ \E m \in Nat : oof2[z].way = Append(way, m)
    BY <2>7 DEF OpsAdded
  <2>9. ParamsAdded(oof2, pof2, n)
    <3>1. /\ Shapes /\ ParamsApart(oof, pof) /\ AnySeq(params) /\ Kept(oof, oof2, OpPlaces)
          /\ n \in OpPlaces /\ oof[n].way \in Seq(Nat) /\ names \in Seq(STRING)
          /\ Unused(pof, 1 .. Len(params), oof[n].way) /\ Nodes(oof[n].way, names) \subseteq ParamsIn(This)
          /\ Len(params') = Len(params) + Len(names)
          /\ pof2 = Grown(pof, Len(params), oof[n].way, names)
      BY <1>3, <1>4, <1>6, <1>7, <1>9, <1>10, <1>11, <1>13, <2>4, <2>6, <2>8
    <3>. QED BY ONLY <3>1, ParamsGrow
  <2>10. TermPlaces' = TermPlaces /\ This' = This /\ Kept(of, of, TermPlaces)
    BY <1>1 DEF TermPlaces, This, Kept
  <2>11. PoolsKept
    BY <1>1, <1>4, <1>10, <2>3, <2>4 DEF PoolsKept
  <2>12. \A z \in OpPlaces : oof2[z] = oof[z] /\ z \in Nat /\ z <= Len(ops)
    BY <1>4, <2>8 DEF OpPlaces, Kept
  <2>13. Placing' /\ Expanding'
    BY <2>5 DEF Placing, Expanding
  <2>14. oof2[n] = oof[n] /\ oof2[n].way = way /\ oof2[n].it = c
    BY <1>7, <1>9, <1>10, <2>12
  <2>15. OpHeld(of, oof2, n)'
    <3>1. OpHeld(of, oof, n) BY <1>3, <1>9 DEF OpsHeld, OpPlaces
    <3>2. CodeIn(t)' = CodeIn(t) BY <1>1, NodesStay
    <3>3. OpAhead(oof2, n)' BY <1>10, <2>2, <2>3, <2>14 DEF OpAhead
    <3>. QED BY <1>1, <1>6, <1>9, <1>10, <2>10, <2>14, <3>1, <3>2, <3>3 DEF OpHeld
  <2>16. Held(of, oof2)'
    <3>1. \A x \in TermPlaces' : (x \in TermPlaces /\ terms'[x] = terms[x]) \/ ValueHeld(of, x)'
      BY <1>1, <2>10
    <3>2. \A z \in OpPlaces' : (z \in OpPlaces /\ ops'[z] = ops[z]) \/ OpHeld(of, oof2, z)'
      BY <2>3, <2>8, <2>15
    <3>. QED BY <1>1, <1>3, <2>4, <2>8, <2>10, <2>11, <3>1, <3>2, HeldGrows
  <2>17. Opened(n)' /\ \A z \in OpPlaces : Opened(z) => Opened(z)'
    <3>1. odepth' # 0 /\ n = oi' + 1 BY <1>1, <1>6, <1>9
    <3>2. Opened(n)' BY <2>13, <3>1 DEF Opened
    <3>3. ASSUME NEW z \in OpPlaces, Opened(z) PROVE Opened(z)'
      <4>1. ops[z].op = "closure" BY <1>5, <3>3 DEF Opened
      <4>2. z # n BY <1>1, <1>6, <4>1
      <4>. QED BY <2>3, <4>1, <4>2 DEF Opened
    <3>. QED BY <3>2, <3>3
  <2>18. ValuesApart(of)'
    BY <1>1, <1>3, <2>10 DEF Running, ValuesApart, Apart
  <2>19. ValuesOfOps(of, oof2)'
    <3>1. \A z \in OpPlaces : ops[z].op = "value" => ops'[z].op = "value"
      BY <1>1, <1>6, <2>3
    <3>. QED BY <1>3, <2>8, <2>10, <2>12, <3>1 DEF Running, ValuesOfOps
  <2>20. OpsApart(oof2)'
    <3>1. ASSUME NEW y \in OpPlaces', Len(oof2[y].way) > 2
          PROVE  \E z \in OpPlaces' : Opened(z)' /\ \E m \in Nat : oof2[y].way = Append(oof2[z].way, m)
      <4>1. CASE y \in OpPlaces
        <5>1. PICK z \in OpPlaces : Opened(z) /\ \E m \in Nat : oof[y].way = Append(oof[z].way, m)
          BY <1>3, <2>12, <3>1, <4>1 DEF OpsApart
        <5>. QED BY <2>8, <2>12, <2>17, <4>1, <5>1
      <4>2. CASE y \notin OpPlaces
        <5>1. \E m \in Nat : oof2[y].way = Append(way, m) BY <2>8, <4>2
        <5>. QED BY <1>9, <2>8, <2>14, <2>17, <5>1
      <4>. QED BY <4>1, <4>2
    <3>. QED BY <2>8, <3>1 DEF OpsApart
  <2>21. ParamsApart(oof2, pof2)'
    <3>1. Begun' = Begun /\ \A k \in Begun : ParamsIn(k)' = ParamsIn(k)
      BY <1>1, NodesStay DEF Begun
    <3>2. ASSUME NEW p \in 1 .. Len(params')
          PROVE  /\ \E k \in Begun' : pof2[p] \in ParamsIn(k)'
                 /\ \E z \in OpPlaces' : Opened(z)' /\ \E m \in Nat : pof2[p].way = Append(oof2[z].way, m)
      <4>1. \E k \in Begun : pof2[p] \in ParamsIn(k) BY <2>9 DEF ParamsAdded
      <4>2. \/ \E y \in OpPlaces : Opened(y) /\ \E m \in Nat : pof2[p].way = Append(oof2[y].way, m)
            \/ \E m \in Nat : pof2[p].way = Append(oof2[n].way, m)
        BY <2>9 DEF ParamsAdded
      <4>3. \E z \in OpPlaces' : Opened(z)' /\ \E m \in Nat : pof2[p].way = Append(oof2[z].way, m)
        BY <1>9, <2>8, <2>17, <4>2
      <4>. QED BY <3>1, <4>1, <4>3
    <3>3. Apart(pof2, 1 .. Len(params')) BY <2>9 DEF ParamsAdded
    <3>. QED BY <3>2, <3>3 DEF ParamsApart, Apart
  <2>22. ScanHeld(of)'
    BY <1>1, <1>3, <2>5, <2>10 DEF Running, ScanHeld
  <2>23. ASSUME NEW z \in OpPlaces' \ OpPlaces PROVE Level(oof2[z]) = OpDepth /\ z > OpEnd /\ z > oi
    <3>1. Level(oof2[z]) = Len(way) - 1 /\ z > Len(ops) BY <2>8
    <3>2. Len(way) - 2 = OpDepth - 1 BY <1>7, <1>9 DEF Level
    <3>3. PICK l : l = Len(way) OBVIOUS
    <3>4. l \in Nat /\ l - 2 = OpDepth - 1 /\ Level(oof2[z]) = l - 1 BY <1>10, <3>1, <3>2, <3>3
    <3>5. z \in Nat BY <1>4, <1>10, <2>3 DEF OpPlaces
    <3>6. oi < Len(ops) BY <1>1 DEF OpTurning
    <3>. QED BY <1>4, <1>9, <3>1, <3>4, <3>5, <3>6
  <2>24. OpScanHeld(oof2)'
    <3>1. olevel_end' \in Nat /\ olevel_end' <= Len(ops') /\ odepth' <= MaxDepth /\ oi' + 1 <= olevel_end'
      BY <1>1, <1>4, <1>6, <1>9, <1>10, <2>3
    <3>2. ASSUME NEW z \in OpPlaces', z > oi'
          PROVE  /\ OfOp(oof2[z]) = This'
                 /\ Level(oof2[z]) = IF z <= olevel_end' THEN odepth' - 1 ELSE odepth'
      <4>1. CASE z \in OpPlaces
        BY <1>1, <1>9, <2>10, <2>12, <3>2, <4>1
      <4>2. CASE z \notin OpPlaces
        <5>1. z \in Nat BY <1>4, <1>10, <2>3 DEF OpPlaces
        <5>2. ~(z <= OpEnd) BY <1>9, <2>23, <4>2, <5>1
        <5>. QED BY <1>1, <2>8, <2>10, <2>23, <4>2, <5>2
      <4>. QED BY <4>1, <4>2
    <3>3. ASSUME NEW z \in OpPlaces', Level(oof2[z]) = MaxDepth PROVE z > oi'
      <4>1. CASE z \in OpPlaces BY <1>1, <1>3, <2>12, <3>3, <4>1 DEF OpScanHeld
      <4>2. CASE z \notin OpPlaces BY <1>1, <2>23, <4>2
      <4>. QED BY <4>1, <4>2
    <3>4. odepth' # 0
      BY <1>1, <1>9
    <3>. QED BY <2>13, <3>1, <3>2, <3>3, <3>4 DEF OpScanHeld
  <2>25. RunHeld(oof2)'
    <3>1. ASSUME NEW m \in 1 .. Len(list)
          PROVE  ops'[slot' + m - 1].op = "unplaced" /\ oof2[slot' + m - 1].it = source'[m]
      <4>1. slot' + m - 1 = Len(ops) + m BY <1>4, <1>10, <1>16
      <4>2. oof2[Len(ops) + m].it = list[m]
        <5>1. oof2[Len(ops) + m] = [way |-> Append(way, m), it |-> list[m]] BY <2>8
        <5>. QED BY <5>1, NodeParts
      <4>. QED BY <1>16, <2>3, <4>1, <4>2
    <3>2. PICK r : r = [at |-> Len(ops), count |-> Len(list)] OBVIOUS
    <3>3. r.at = Len(ops) /\ r.count = Len(list) /\ run' = r BY <1>16, <3>2
    <3>4. BodyHeld(oof2, oof2[n], run)'
      <4>1. Len(ops) \in Nat /\ Len(ops) + Len(list) <= Len(ops') BY <1>4, <1>10, <2>3
      <4>. QED BY <1>8, <2>8, <2>14, <3>3, <4>1 DEF BodyHeld
    <3>5. ParamsHeld(oof2[n].it, o.param_at)'
      <4>1. Len(params) \in Nat /\ Len(params) + Len(names) <= Len(params') BY <1>4, <1>10, <2>4
      <4>. QED BY <1>8, <2>2, <2>4, <2>14, <4>1 DEF ParamsHeld
    <3>6. ops'[oi' + 1] = o /\ oi' + 1 = n
      BY <1>1, <1>6, <2>3
    <3>7. (ops[oi + 1].op = "pending" /\ BodyHeld(oof2, oof2[oi + 1], run)
             /\ ParamsHeld(oof2[oi + 1].it, ops[oi + 1].param_at))'
      BY <2>2, <3>4, <3>5, <3>6 DEF ParamsHeld, BodyHeld
    <3>. QED BY <1>16, <3>1, <3>7 DEF RunHeld
  <2>26. PartHeld(of, oof2)'
    <3>1. PICK ro : ro = root OBVIOUS
    <3>2. Rooted(of, oof, ro, t) BY <1>1, <1>3, <1>6, <3>1 DEF Running, PartHeld
    <3>3. Rooted(of, oof2, ro, t)'
      BY <1>1, <1>10, <2>8, <2>10, <2>11, <3>2, RootStays
    <3>. QED BY <1>1, <1>3, <1>6, <2>5, <2>10, <3>1, <3>3 DEF PartHeld, Left
  <2>27. Running(of, oof2, pof2)'
    BY <2>18, <2>19, <2>20, <2>21, <2>22, <2>24, <2>25, <2>26 DEF Running
  <2>. QED BY <1>1, <2>5, <2>16, <2>27, NestsWhileRunning
<1>. QED
  BY <1>6, <1>7, <1>8, <1>14, <1>15, <1>16 DEF ExpandOp

LEMMA NestingBegins ==
  ASSUME LoadInit, Shapes
  PROVE  NestingInv
<1>1. /\ \E l \in Loads : limits = l.limits /\ parsed = Len(l.parsed) /\ terms = l.parsed
      /\ ops = <<>> /\ params = <<>> /\ loaded = <<>> /\ odepth = 0 /\ pc = "next" /\ status = "none"
  BY DEF LoadInit
<1>2. limits \in [terms : Nat, ops : Nat, params : Nat, text : Nat]
  BY <1>1, ExpandAssumption
<1>3. /\ Len(ops) = 0 /\ Len(params) = 0 /\ Len(loaded) = 0 /\ AnySeq(params)
      /\ Len(stated) \in Nat /\ parsed = Len(terms) /\ parsed \in Nat
  <2>1. <<>> \in Seq({}) /\ Len(<<>>) = 0 BY EmptySeq
  <2>2. AnySeq(<<>>) BY <2>1, SomeSeq
  <2>. QED BY <1>1, <2>1, <2>2, HeldPools
<1>4. TermPlaces = {} /\ OpPlaces = {} /\ 1 .. Len(params) = {} /\ 1 .. Len(ops) = {} /\ 1 .. Len(loaded) = {}
  BY <1>3 DEF TermPlaces, OpPlaces
<1>5. ~Placing /\ ~Expanding /\ MaxDepth \in Nat
  BY <1>1, ExpandAssumption DEF Placing, Expanding
<1>6. PICK f : f = [x \in Nat |-> x]
  OBVIOUS
<1>7. Held(f, f)
  BY <1>3, <1>4 DEF Held, ValuesHeld, OpsHeld, RootsHeld
<1>8. ValuesApart(f) /\ ValuesOfOps(f, f) /\ OpsApart(f) /\ ParamsApart(f, f)
  BY <1>4 DEF ValuesApart, ValuesOfOps, OpsApart, ParamsApart, Apart
<1>9. ScanHeld(f) /\ OpScanHeld(f) /\ RunHeld(f) /\ PartHeld(f, f)
  BY <1>1, <1>4, <1>5 DEF ScanHeld, OpScanHeld, RunHeld, PartHeld
<1>10. Spread(f, f, f)
  BY <1>7, <1>8, <1>9 DEF Spread, Running
<1>11. Causes
  BY <1>1 DEF Causes
<1>. QED
  BY <1>2, <1>10, <1>11 DEF NestingInv

LEMMA NestingStutters ==
  ASSUME Shapes, NestingInv, UNCHANGED expandVars
  PROVE  NestingInv'
<1>1. /\ UNCHANGED <<stated, limits, parsed, terms, ops, params, loaded, root, i, level_end, depth>>
      /\ UNCHANGED <<oi, olevel_end, odepth, source, run, slot, pc, status>>
  BY DEF expandVars, hostVars, poolVars, runVars, termScan, opScan, controlVars
<1>2. PICK of, oof, pof : Spread(of, oof, pof)
  BY DEF NestingInv
<1>3. Placing' = Placing /\ Expanding' = Expanding /\ This' = This /\ TermPlaces' = TermPlaces /\ OpPlaces' = OpPlaces
  BY <1>1 DEF Placing, Expanding, This, Current, TermPlaces, OpPlaces
<1>4. Held(of, oof)'
  BY <1>1, <1>2, KeptAsTheyAre, HeldStays DEF Spread
<1>5. ASSUME Running(of, oof, pof) PROVE Running(of, oof, pof)'
  <2>1. ValuesApart(of)' /\ ValuesOfOps(of, oof)' /\ OpsApart(oof)' /\ ParamsApart(oof, pof)'
    BY <1>1, <1>3, <1>5, AllApart, OpenedStays
  <2>2. ScanHeld(of)' /\ OpScanHeld(oof)' /\ RunHeld(oof)'
    BY <1>1, <1>3, <1>5 DEF Running, ScanHeld, OpScanHeld, RunHeld, BodyHeld, ParamsHeld
  <2>3. PartHeld(of, oof)'
    BY <1>1, <1>3, <1>5 DEF Running, PartHeld, Rooted, Left
  <2>. QED BY <2>1, <2>2, <2>3 DEF Running
<1>6. Spread(of, oof, pof)'
  BY <1>1, <1>2, <1>4, <1>5 DEF Spread
<1>7. \E of2, oof2, pof2 : Spread(of2, oof2, pof2)'
  BY <1>6
<1>8. Causes'
  <2>1. PICK t : t = This OBVIOUS
  <2>2. (TooDeepIn(t)' <=> TooDeepIn(t)) /\ (Refusable(t)' <=> Refusable(t)) BY <1>1, NodesStay
  <2>3. \A pool : Needed(pool)' = Needed(pool) BY <1>1, NeededStays
  <2>4. status = "DEPTH" => TooDeepIn(t)' BY <2>1, <2>2 DEF NestingInv, Causes
  <2>5. status = "MALFORMED" => Refusable(t)' BY <2>1, <2>2 DEF NestingInv, Causes
  <2>6. status = "OK" => Len(loaded) = Len(stated) BY DEF NestingInv, Causes
  <2>7. status = "NOMEM" => \E pool \in {"terms", "ops", "params"} : Needed(pool) > limits[pool]
    BY DEF NestingInv, Causes
  <2>8. status = "NOMEM" => \E pool \in {"terms", "ops", "params"} : Needed(pool)' > limits[pool]
    BY <2>3, <2>7
  <2>. QED BY <1>1, <1>3, <2>1, <2>4, <2>5, <2>6, <2>8 DEF Causes
<1>. QED
  BY <1>1, <1>7, <1>8 DEF NestingInv

LEMMA NestingGoesOn ==
  ASSUME ExpandInv, NestingInv, [Load]_expandVars
  PROVE  NestingInv'
<1>1. Shapes /\ TermsInv /\ OpsInv
  BY DEF ExpandInv
<1>2. CASE LoadPredicate BY <1>1, <1>2, NestsPredicate
<1>3. CASE TooDeep BY <1>1, <1>3, NestsTooDeep
<1>4. CASE PassTerm BY <1>1, <1>4, NestsPassed
<1>5. CASE ExpandTerm BY <1>1, <1>5, NestsExpanded
<1>6. CASE EndTerms BY <1>1, <1>6, NestsTermsEnd
<1>7. CASE LoadExpression BY <1>1, <1>7, NestsExpression
<1>8. CASE PlaceValue BY <1>1, <1>8, NestsValuePlaced
<1>9. CASE PlaceOperator \/ PlaceClosure BY <1>1, <1>9, NestsOpPlaced
<1>10. CASE EndRun BY <1>1, <1>10, NestsRunEnded
<1>11. CASE OpTooDeep BY <1>1, <1>11, NestsOpTooDeep
<1>12. CASE PassOp BY <1>1, <1>12, NestsOpPassed
<1>13. CASE ExpandOp BY <1>1, <1>13, NestsOpExpanded
<1>14. CASE EndOps BY <1>1, <1>14, NestsOpsEnd
<1>15. CASE AllLoaded BY <1>1, <1>15, NestsAllLoaded
<1>16. CASE UNCHANGED expandVars BY <1>1, <1>16, NestingStutters
<1>. QED
  BY <1>2, <1>3, <1>4, <1>5, <1>6, <1>7, <1>8, <1>9, <1>10, <1>11, <1>12, <1>13, <1>14, <1>15, <1>16 DEF Load

LEMMA NestingHolds ==
  ASSUME Shapes, NestingInv
  PROVE  LoadsWhatIsNested
<1>1. PICK of, oof, pof : Spread(of, oof, pof)
  BY DEF NestingInv
<1>2. ASSUME NEW k \in DOMAIN loaded
      PROVE  SaysWhat(loaded[k], stated[k]) /\ ~TooDeepIn(k) /\ ~Refusable(k)
  BY <1>1, LoadedRight, LoadedWell DEF Spread
<1>. QED
  BY <1>2 DEF NestingInv, Causes, This, LoadsWhatIsNested

\* What is loaded, a value or an operation within another as well, is read
\* back from the pools as it was stated, and what is refused is so for a cause
\* it has (110_load.inc:165-341, 436-638).
THEOREM LoadsRightly == ExpandSpec => []LoadsWhatIsNested
<1>1. LoadInit => ExpandInv /\ NestingInv
  BY ExpandBegins, NestingBegins DEF ExpandInv
<1>2. ExpandInv /\ NestingInv /\ [Load]_expandVars => ExpandInv' /\ NestingInv'
  BY ExpandGoesOn, NestingGoesOn
<1>3. ExpandInv /\ NestingInv => LoadsWhatIsNested
  BY NestingHolds DEF ExpandInv
<1>. QED
  BY <1>1, <1>2, <1>3, PTL DEF ExpandSpec
=============================================================================
