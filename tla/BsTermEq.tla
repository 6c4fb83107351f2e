------------------------------ MODULE BsTermEq ------------------------------
(***************************************************************************)
(* Equality of two placed values (120_eval.inc: bs_term_eq), without       *)
(* recursion: a stack of pending comparisons, and `last`, which carries    *)
(* the answer of a finished one to the one that asked.  The values are     *)
(* those of a world that has been loaded.                                  *)
(***************************************************************************)
EXTENDS BsExpand

VARIABLES
  asked,   \* the positions of the two values, none before the call
  frames,  \* bs_term_eq: st[0 .. d-1]
  last,    \*   the answer of the last comparison to finish
  answer   \* what it returned, "none" while it runs

eqVars == <<asked, frames, last, answer>>

\* bs_eqframe: a and b, and a place in either.
Frame(a, b) == [a |-> a, b |-> b, i |-> 0, j |-> 0]
Top == frames[Len(frames)]
Below == SubSeq(frames, 1, Len(frames) - 1)

Item(list, k) == terms[list.at + k + 1]

\* Ready: the world is loaded, and any two of its values may be compared.
Ask ==
  /\ pc = "stopped" /\ status = "OK" /\ asked = <<>>
  /\ \E x, y \in DOMAIN terms : /\ asked' = <<x, y>>
                                /\ frames' = <<Frame(terms[x], terms[y])>>
  /\ last' = TRUE
  /\ UNCHANGED <<expandVars, answer>>

Comparing == asked # <<>> /\ frames # <<>> /\ answer = "none"

\* A comparison is finished.
Finish(result) ==
  /\ last' = result /\ frames' = Below
  /\ UNCHANGED <<expandVars, asked, answer>>

\* Both are containers of a kind and of a length.
AlikeLists == /\ Top.a.kind = Top.b.kind /\ IsContainer(Top.a)
              /\ Top.a.count = Top.b.count

Differ ==
  /\ Comparing
  /\ \/ Top.a.kind # Top.b.kind
     \/ Top.a.kind = Top.b.kind /\ IsContainer(Top.a) /\ Top.a.count # Top.b.count
  /\ Finish(FALSE)

SameScalar ==
  /\ Comparing /\ Top.a.kind = Top.b.kind /\ ~IsContainer(Top.a)
  /\ Finish(Top.a.text = Top.b.text)

\* BS_ASSERT(0) where this is false: "deeper than the loader would have
\* accepted".
FrameLeft == Len(frames) < MaxDepth + 2
Descends == Comparing /\ AlikeLists /\ FrameLeft

\* The comparison of two items, from which the top goes on at i and j.
Descend(x, y, i_, j_) ==
  /\ frames' = Append([frames EXCEPT ![Len(frames)].i = i_, ![Len(frames)].j = j_],
                      Frame(Item(Top.a, x), Item(Top.b, y)))
  /\ UNCHANGED <<expandVars, asked, last, answer>>

\* A set: where a match of a[i] is looked for in b, and found, a[i+1] is next,
\* from the first of b.
Matched == Top.j > 0 /\ last
Sought == IF Matched THEN Top.i + 1 ELSE Top.i

\* A slip: the next match is looked for behind the last.
SearchThere == Top.j
SearchFrom == IF Matched THEN 0 ELSE Top.j

SetDone ==
  /\ Descends /\ Top.a.kind = "set" /\ Sought >= Top.a.count
  /\ Finish(TRUE)

SetMissing ==
  /\ Descends /\ Top.a.kind = "set" /\ Sought < Top.a.count /\ SearchFrom >= Top.b.count
  /\ Finish(FALSE)

SetSearch ==
  /\ Descends /\ Top.a.kind = "set" /\ Sought < Top.a.count /\ SearchFrom < Top.b.count
  /\ Descend(Sought, SearchFrom, Sought, SearchFrom + 1)

\* Arrays and maps go position by position.
ListDiffers ==
  /\ Descends /\ Top.a.kind # "set" /\ Top.i > 0 /\ ~last
  /\ Finish(FALSE)

ListDone ==
  /\ Descends /\ Top.a.kind # "set" /\ (Top.i = 0 \/ last) /\ Top.i >= Top.a.count
  /\ Finish(TRUE)

ListNext ==
  /\ Descends /\ Top.a.kind # "set" /\ (Top.i = 0 \/ last) /\ Top.i < Top.a.count
  /\ Descend(Top.i, Top.i, Top.i + 1, Top.j)

Return ==
  /\ asked # <<>> /\ frames = <<>> /\ answer = "none"
  /\ answer' = IF last THEN "equal" ELSE "unequal"
  /\ UNCHANGED <<expandVars, asked, frames, last>>

Compare == \/ Ask \/ Differ \/ SameScalar
           \/ SetDone \/ SetMissing \/ SetSearch
           \/ ListDiffers \/ ListDone \/ ListNext \/ Return

EqInit == asked = <<>> /\ frames = <<>> /\ last = TRUE /\ answer = "none"

\* A world is loaded, and then two of its values are compared.
EqSpec == /\ LoadInit /\ EqInit
          /\ [][(Load /\ UNCHANGED eqVars) \/ Compare]_<<expandVars, eqVars>>

-----------------------------------------------------------------------------
(* What equality means, of the values at two places of a pool.             *)

PlacesOf(pool, x) ==
  IF IsContainer(pool[x]) THEN pool[x].at + 1 .. pool[x].at + pool[x].count ELSE {}

\* The same value, if that is so of those pairs of places below: a set has no
\* order and no repeats.
Alike(pool, same, x, y) ==
  /\ pool[x].kind = pool[y].kind
  /\ CASE pool[x].kind = "set" ->
            /\ \A p \in PlacesOf(pool, x) : \E q \in PlacesOf(pool, y) : <<p, q>> \in same
            /\ \A q \in PlacesOf(pool, y) : \E p \in PlacesOf(pool, x) : <<p, q>> \in same
       [] pool[x].kind \in ContainerKinds \ {"set"} ->
            /\ pool[x].count = pool[y].count
            /\ \A k \in 1 .. pool[x].count : <<pool[x].at + k, pool[y].at + k>> \in same
       [] OTHER -> pool[x].text = pool[y].text

\* The places that hold the same value, found from the innermost on.
SameValues(pool) ==
  LET to[n \in Nat] ==
        LET same == IF n = 0 THEN {} ELSE to[n - 1]
        IN  {p \in (DOMAIN pool) \X (DOMAIN pool) : Alike(pool, same, p[1], p[2])}
  IN  to[MaxDepth]

\* The places of values in which no set holds a value twice.
DistinctItems(pool, x) ==
  pool[x].kind = "set" => \A p, q \in PlacesOf(pool, x) : p # q => <<p, q>> \notin SameValues(pool)

WithoutRepeats(pool) ==
  LET to[n \in Nat] ==
        LET free == IF n = 0 THEN {} ELSE to[n - 1]
        IN  {x \in DOMAIN pool : PlacesOf(pool, x) \subseteq free /\ DistinctItems(pool, x)}
  IN  to[MaxDepth]

\* Values within values: each is on a level below that of what holds it, and
\* there are levels from 0 to MaxDepth.  A text is parsed with at most MaxDepth
\* containers open.
Nests(pool, level) ==
  \A x \in DOMAIN pool : IsContainer(pool[x]) =>
    /\ pool[x].at \in Nat /\ pool[x].count \in Nat
    /\ pool[x].at + pool[x].count <= Len(pool)
    /\ \A p \in PlacesOf(pool, x) : level[p] > level[x]

ASSUME NestedAssumption ==
  \A pool \in {l.parsed : l \in Loads} : \E level \in [DOMAIN pool -> 0 .. MaxDepth] : Nests(pool, level)

-----------------------------------------------------------------------------

\* The comparison of two values answers whether they are the same, from
\* every place in the pool, and never runs out of frames: what a loader or
\* the parser accepts is not too deep for it (120_eval.inc:92-225).
EqualMeansSame ==
  /\ Comparing /\ AlikeLists => FrameLeft
  /\ answer # "none" /\ {asked[1], asked[2]} \subseteq WithoutRepeats(terms) =>
       answer = IF asked \in SameValues(terms) THEN "equal" ELSE "unequal"

\* The comment of bs_term_eq (120_eval.inc:102-104): "Sets compare as sets --
\* same size and every element of one present in the other -- because the
\* specification treats them as deduplicated collections, so two encodings of
\* the same set must be equal."
SetsCompareAsSets ==
  answer # "none" => answer = IF asked \in SameValues(terms) THEN "equal" ELSE "unequal"
=============================================================================
