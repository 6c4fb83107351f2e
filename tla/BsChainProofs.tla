--------------------------- MODULE BsChainProofs ---------------------------
(***************************************************************************)
(* Proofs about BsToken and BsChain: the two passes of the parser agree,   *)
(* and a token the verifier finds good is authentic from end to end.       *)
(***************************************************************************)
EXTENDS BsIssue, FiniteSetTheorems, SequenceTheorems, WellFoundedInduction, TLAPS

-----------------------------------------------------------------------------
(* A message, and the last of its fields of one kind.                      *)

LEMMA MessageSized ==
  ASSUME NEW m, NEW names, Holds(m, names)
  PROVE  Len(m) \in Nat /\ DOMAIN m = 1 .. Len(m)
BY LenProperties DEF Holds

\* What holds of 0 and is passed on holds all the way.
LEMMA UpTo ==
  ASSUME NEW L \in Nat, NEW S, S \subseteq 0 .. L, 0 \in S,
         \A n \in 1 .. L : n - 1 \in S => n \in S
  PROVE  S = 0 .. L
<1> DEFINE R == (0 .. L) \ S
<1>1. SUFFICES ASSUME R # {} PROVE FALSE
  OBVIOUS
<1>2. R \subseteq Nat
  OBVIOUS
<1>3. PICK i \in R : \A j \in R : ~(<<j, i>> \in OpToRel(<, Nat))
  BY <1>1, <1>2, WFMin, NatLessThanWellFounded
<1>4. i \in 1 .. L /\ i - 1 \in 0 .. L /\ i - 1 < i
  OBVIOUS
<1>5. i - 1 \notin R
  BY <1>2, <1>3, <1>4 DEF OpToRel
<1> QED
  BY <1>4, <1>5

\* v is what the last of the fields ns among the first n of m holds.
LastUpTo(v, m, ns, n) ==
  \/ v = Absent /\ \A k \in ns : ~(k <= n)
  \/ \E k \in ns : k <= n /\ v = <<m[k].value>> /\ \A j \in ns : j <= n => j <= k

LEMMA LastStart ==
  ASSUME NEW m, NEW ns, NEW L \in Nat, ns \subseteq 1 .. L
  PROVE  LastUpTo(Absent, m, ns, 0)
BY DEF LastUpTo

LEMMA LastStep ==
  ASSUME NEW m, NEW ns, NEW L \in Nat, ns \subseteq 1 .. L, NEW n \in 1 .. L,
         NEW v, LastUpTo(v, m, ns, n - 1)
  PROVE  /\ n \in ns => LastUpTo(<<m[n].value>>, m, ns, n)
         /\ n \notin ns => LastUpTo(v, m, ns, n)
<1>1. n \in ns => LastUpTo(<<m[n].value>>, m, ns, n)
  BY DEF LastUpTo
<1>2. ASSUME n \notin ns PROVE LastUpTo(v, m, ns, n)
  <2>1. \A k \in ns : k <= n <=> k <= n - 1
    BY <1>2
  <2> QED
    BY <2>1 DEF LastUpTo
<1> QED
  BY <1>1, <1>2

LEMMA LastIsLast ==
  ASSUME NEW m, NEW ns, NEW L \in Nat, ns \subseteq 1 .. L, NEW v, LastUpTo(v, m, ns, L)
  PROVE  /\ v = Absent <=> ns = {}
         /\ ns # {} => v = <<LastValue(m, ns)>>
<1>1. CASE v = Absent /\ \A k \in ns : ~(k <= L)
  <2>1. ASSUME NEW k \in ns PROVE FALSE
    <3>1. k \in 1 .. L
      OBVIOUS
    <3>2. k <= L
      BY <3>1
    <3> QED
      BY <1>1, <3>2
  <2> QED
    BY <1>1, <2>1
<1>2. CASE \E k \in ns : k <= L /\ v = <<m[k].value>> /\ \A j \in ns : j <= L => j <= k
  <2>1. PICK k \in ns : v = <<m[k].value>> /\ \A j \in ns : j <= k
    BY <1>2
  <2>2. (CHOOSE n \in ns : \A j \in ns : j <= n) = k
    <3>1. \A n \in ns : (\A j \in ns : j <= n) => n = k
      BY <2>1
    <3> QED
      BY <2>1, <3>1
  <2> QED
    BY <2>1, <2>2 DEF LastValue, Absent
<1> QED
  BY <1>1, <1>2 DEF LastUpTo

-----------------------------------------------------------------------------
(* A public key reads as its schema says.                                  *)

LEMMA KeyScanRuns ==
  ASSUME NEW m, Len(m) \in Nat
  PROVE  \E at : /\ at[0] = NoKey
                 /\ \A n \in 1 .. Len(m) : at[n] = KeyStep(at[n - 1], m[n])
                 /\ KeyScan(m) = at[Len(m)]
<1> DEFINE G(f, n) == f = [k \in 0 .. n |-> IF k = 0 THEN NoKey ELSE KeyStep(f[k - 1], m[k])]
           S == {n \in 0 .. Len(m) : \E f : G(f, n)}
<1>1. 0 \in S
  <2>1. G([k \in 0 .. 0 |-> NoKey], 0)
    OBVIOUS
  <2>2. \E f : G(f, 0)
    BY <2>1
  <2> QED
    BY <2>2
<1>2. ASSUME NEW n \in 1 .. Len(m), n - 1 \in S PROVE n \in S
  <2>1. PICK f : G(f, n - 1)
    BY <1>2
  <2> DEFINE g == [k \in 0 .. n |-> IF k = n THEN KeyStep(f[n - 1], m[n]) ELSE f[k]]
  <2>2. ASSUME NEW k \in 0 .. n
        PROVE  g[k] = IF k = 0 THEN NoKey ELSE KeyStep(g[k - 1], m[k])
    <3>1. CASE k = n
      BY <3>1
    <3>2. CASE k \in 0 .. n - 1
      <4>1. f[k] = IF k = 0 THEN NoKey ELSE KeyStep(f[k - 1], m[k])
        BY <2>1, <3>2
      <4>2. g[k] = f[k] /\ (k # 0 => g[k - 1] = f[k - 1])
        BY <3>2
      <4> QED
        BY <4>1, <4>2
    <3> QED
      BY <3>1, <3>2
  <2>3. G(g, n)
    BY <2>2
  <2> HIDE DEF g
  <2>4. \E h : G(h, n)
    BY <2>3
  <2> QED
    BY <2>4
<1>3. S = 0 .. Len(m)
  <2> HIDE DEF S
  <2>1. S \subseteq 0 .. Len(m)
    BY DEF S
  <2> QED
    BY <1>1, <1>2, <2>1, UpTo
<1>4. \E f : G(f, Len(m))
  BY <1>3
<1>5. PICK at : at = CHOOSE f : G(f, Len(m))
  OBVIOUS
<1>6. KeyScan(m) = at[Len(m)]
  BY <1>5 DEF KeyScan
<1>7. G(at, Len(m))
  BY <1>4, <1>5
<1> HIDE DEF S
<1>8. at[0] = NoKey /\ \A n \in 1 .. Len(m) : at[n] = KeyStep(at[n - 1], m[n])
  <2>1. \A n \in 0 .. Len(m) : at[n] = IF n = 0 THEN NoKey ELSE KeyStep(at[n - 1], m[n])
    BY <1>7
  <2> QED
    BY <2>1
<1> QED
  BY <1>6, <1>8

\* How far the fields of a key have been read.
KeySoFar(m, s, n) ==
  \/ s = Refused("MALFORMED") /\ \E k \in 1 .. n : m[k].is = "broken"
  \/ /\ \A k \in 1 .. n : m[k].is # "broken"
     /\ s = [st |-> "OK", alg |-> s.alg, key |-> s.key]
     /\ LastUpTo(s.alg, m, OfWire(m, "algorithm", "varint"), n)
     /\ LastUpTo(s.key, m, OfWire(m, "key", "bytes"), n)

LEMMA KeySoFarStep ==
  ASSUME NEW m, DOMAIN m = 1 .. Len(m), Len(m) \in Nat, NEW n \in 1 .. Len(m),
         NEW s, KeySoFar(m, s, n - 1)
  PROVE  KeySoFar(m, KeyStep(s, m[n]), n)
<1> DEFINE algs == OfWire(m, "algorithm", "varint")
           keys == OfWire(m, "key", "bytes")
<1>1. /\ algs \subseteq 1 .. Len(m) /\ keys \subseteq 1 .. Len(m)
      /\ n \in algs <=> m[n].is = "algorithm" /\ m[n].wire = "varint"
      /\ n \in keys <=> m[n].is = "key" /\ m[n].wire = "bytes"
  BY DEF OfWire, Given
<1>2. 1 .. n = (1 .. n - 1) \cup {n}
  OBVIOUS
<1> HIDE DEF algs, keys
<1>3. CASE s = Refused("MALFORMED") /\ \E k \in 1 .. n - 1 : m[k].is = "broken"
  <2>1. KeyStep(s, m[n]) = s
    BY <1>3 DEF KeyStep, Refused
  <2> QED
    BY <1>2, <1>3, <2>1 DEF KeySoFar
<1>4. CASE /\ \A k \in 1 .. n - 1 : m[k].is # "broken"
           /\ s = [st |-> "OK", alg |-> s.alg, key |-> s.key]
           /\ LastUpTo(s.alg, m, algs, n - 1) /\ LastUpTo(s.key, m, keys, n - 1)
  <2>1. PICK a, k : s = [st |-> "OK", alg |-> a, key |-> k]
                    /\ LastUpTo(a, m, algs, n - 1) /\ LastUpTo(k, m, keys, n - 1)
    BY <1>4
  <2>2. /\ n \in algs => LastUpTo(<<m[n].value>>, m, algs, n)
        /\ n \notin algs => LastUpTo(a, m, algs, n)
        /\ n \in keys => LastUpTo(<<m[n].value>>, m, keys, n)
        /\ n \notin keys => LastUpTo(k, m, keys, n)
    BY <1>1, <2>1, LastStep
  <2>3. ASSUME NEW b, NEW c, KeyStep(s, m[n]) = [st |-> "OK", alg |-> b, key |-> c],
               LastUpTo(b, m, algs, n), LastUpTo(c, m, keys, n), m[n].is # "broken"
        PROVE  KeySoFar(m, KeyStep(s, m[n]), n)
    BY <1>2, <1>4, <2>3 DEF KeySoFar, algs, keys
  <2>4. CASE m[n].is = "broken"
    <3>1. KeyStep(s, m[n]) = Refused("MALFORMED")
      BY <2>1, <2>4 DEF KeyStep
    <3> QED
      BY <1>2, <2>4, <3>1 DEF KeySoFar
  <2>5. CASE n \in algs
    <3>1. KeyStep(s, m[n]) = [st |-> "OK", alg |-> <<m[n].value>>, key |-> k]
      BY <1>1, <2>1, <2>5 DEF KeyStep
    <3> QED
      BY <1>1, <2>2, <2>3, <2>5, <3>1
  <2>6. CASE n \in keys
    <3>1. KeyStep(s, m[n]) = [st |-> "OK", alg |-> a, key |-> <<m[n].value>>]
      BY <1>1, <2>1, <2>6 DEF KeyStep
    <3> QED
      BY <1>1, <2>2, <2>3, <2>6, <3>1
  <2>7. CASE m[n].is # "broken" /\ n \notin algs /\ n \notin keys
    <3>1. KeyStep(s, m[n]) = s
      BY <1>1, <2>1, <2>7 DEF KeyStep
    <3> QED
      BY <2>1, <2>2, <2>3, <2>7, <3>1
  <2> QED
    BY <2>4, <2>5, <2>6, <2>7
<1> QED
  BY <1>3, <1>4 DEF KeySoFar, algs, keys

LEMMA KeyScanned ==
  ASSUME NEW m, DOMAIN m = 1 .. Len(m), Len(m) \in Nat
  PROVE  KeySoFar(m, KeyScan(m), Len(m))
<1>1. PICK at : /\ at[0] = NoKey
                /\ \A n \in 1 .. Len(m) : at[n] = KeyStep(at[n - 1], m[n])
                /\ KeyScan(m) = at[Len(m)]
  BY KeyScanRuns
<1> DEFINE S == {n \in 0 .. Len(m) : KeySoFar(m, at[n], n)}
<1>2. 0 \in S
  <2>1. KeySoFar(m, NoKey, 0)
    <3>1. OfWire(m, "algorithm", "varint") \subseteq 1 .. Len(m)
          /\ OfWire(m, "key", "bytes") \subseteq 1 .. Len(m)
      BY DEF OfWire, Given
    <3>2. \A ns : ns \subseteq 1 .. Len(m) => LastUpTo(Absent, m, ns, 0)
      BY LastStart
    <3> QED
      BY <3>1, <3>2 DEF KeySoFar, NoKey
  <2> QED
    BY <1>1, <2>1
<1>3. ASSUME NEW n \in 1 .. Len(m), n - 1 \in S PROVE n \in S
  BY <1>1, <1>3, KeySoFarStep
<1>4. S = 0 .. Len(m)
  <2>1. S \subseteq 0 .. Len(m)
    OBVIOUS
  <2> HIDE DEF S
  <2> QED
    BY <1>2, <1>3, <2>1, UpTo
<1> QED
  BY <1>1, <1>4

\* A key decodes exactly when its schema reads it, and to what it reads.
LEMMA KeyDecodes ==
  ASSUME NEW m, KeyMessage(m)
  PROVE  /\ DecodeKey(m).st \in {"OK", "MALFORMED", "UNSUPPORTED"}
         /\ DecodeKey(m).st = "OK" <=> KeyReads(m)
         /\ KeyReads(m) => DecodeKey(m).key = <<KeyRead(m)>>
<1> DEFINE algs == OfWire(m, "algorithm", "varint")
           keys == OfWire(m, "key", "bytes")
           s == KeyScan(m)
<1>1. Len(m) \in Nat /\ DOMAIN m = 1 .. Len(m)
  BY MessageSized DEF KeyMessage
<1>2. KeySoFar(m, s, Len(m))
  BY <1>1, KeyScanned
<1>3. algs \subseteq 1 .. Len(m) /\ keys \subseteq 1 .. Len(m)
  BY <1>1 DEF OfWire, Given
<1>4. Whole(m) <=> \A k \in 1 .. Len(m) : m[k].is # "broken"
  BY <1>1 DEF Whole, Given
<1>5. DecodeKey(m) = KeyOf(s)
  BY DEF DecodeKey
<1>6. KeyReads(m) <=> /\ Whole(m) /\ algs # {} /\ keys # {}
                      /\ LastValue(m, algs) = 0 /\ LastValue(m, keys) \in Key
  BY DEF KeyReads
<1>7. KeyRead(m) = LastValue(m, keys)
  BY DEF KeyRead
<1> HIDE DEF algs, keys, s
<1>8. CASE s = Refused("MALFORMED") /\ \E k \in 1 .. Len(m) : m[k].is = "broken"
  <2>1. KeyOf(s).st = "MALFORMED"
    BY <1>8 DEF KeyOf, Refused
  <2> QED
    BY <1>4, <1>5, <1>6, <1>8, <2>1
<1>9. CASE /\ \A k \in 1 .. Len(m) : m[k].is # "broken"
           /\ s = [st |-> "OK", alg |-> s.alg, key |-> s.key]
           /\ LastUpTo(s.alg, m, algs, Len(m)) /\ LastUpTo(s.key, m, keys, Len(m))
  <2>1. /\ s.alg = Absent <=> algs = {}
        /\ algs # {} => s.alg = <<LastValue(m, algs)>>
        /\ s.key = Absent <=> keys = {}
        /\ keys # {} => s.key = <<LastValue(m, keys)>>
    BY <1>1, <1>3, <1>9, LastIsLast
  <2>2. s.st = "OK"
    BY <1>9
  <2>3. CASE s.alg = <<0>> /\ s.key # Absent /\ s.key[1] \in Key
    <3>1. KeyOf(s) = s
      BY <2>2, <2>3 DEF KeyOf
    <3>2. algs # {} /\ keys # {} /\ LastValue(m, algs) = 0 /\ LastValue(m, keys) \in Key
      BY <2>1, <2>3 DEF Absent
    <3> QED
      BY <1>4, <1>5, <1>6, <1>7, <1>9, <2>1, <2>2, <3>1, <3>2
  <2>4. CASE ~(s.alg = <<0>> /\ s.key # Absent /\ s.key[1] \in Key)
    <3>1. KeyOf(s) \in {Refused("MALFORMED"), Refused("UNSUPPORTED")}
      BY <2>2, <2>4 DEF KeyOf
    <3>2. KeyOf(s).st \in {"MALFORMED", "UNSUPPORTED"}
      BY <3>1 DEF Refused
    <3>3. ~KeyReads(m)
      BY <1>6, <2>1, <2>4
    <3> QED
      BY <1>5, <3>2, <3>3
  <2> QED
    BY <2>3, <2>4
<1> QED
  BY <1>2, <1>8, <1>9 DEF KeySoFar, algs, keys

-----------------------------------------------------------------------------
(* The signature of a third party reads as its schema says.                *)

LEMMA ExternalScanRuns ==
  ASSUME NEW m, Len(m) \in Nat
  PROVE  \E at : /\ at[0] = NoExternal
                 /\ \A n \in 1 .. Len(m) : at[n] = ExternalStep(at[n - 1], m[n])
                 /\ ExternalScan(m) = at[Len(m)]
<1> DEFINE G(f, n) == f = [k \in 0 .. n |-> IF k = 0 THEN NoExternal ELSE ExternalStep(f[k - 1], m[k])]
           S == {n \in 0 .. Len(m) : \E f : G(f, n)}
<1>1. 0 \in S
  <2>1. G([k \in 0 .. 0 |-> NoExternal], 0)
    OBVIOUS
  <2>2. \E f : G(f, 0)
    BY <2>1
  <2> QED
    BY <2>2
<1>2. ASSUME NEW n \in 1 .. Len(m), n - 1 \in S PROVE n \in S
  <2>1. PICK f : G(f, n - 1)
    BY <1>2
  <2> DEFINE g == [k \in 0 .. n |-> IF k = n THEN ExternalStep(f[n - 1], m[n]) ELSE f[k]]
  <2>2. ASSUME NEW k \in 0 .. n
        PROVE  g[k] = IF k = 0 THEN NoExternal ELSE ExternalStep(g[k - 1], m[k])
    <3>1. CASE k = n
      BY <3>1
    <3>2. CASE k \in 0 .. n - 1
      <4>1. f[k] = IF k = 0 THEN NoExternal ELSE ExternalStep(f[k - 1], m[k])
        BY <2>1, <3>2
      <4>2. g[k] = f[k] /\ (k # 0 => g[k - 1] = f[k - 1])
        BY <3>2
      <4> QED
        BY <4>1, <4>2
    <3> QED
      BY <3>1, <3>2
  <2>3. G(g, n)
    BY <2>2
  <2> HIDE DEF g
  <2>4. \E h : G(h, n)
    BY <2>3
  <2> QED
    BY <2>4
<1>3. S = 0 .. Len(m)
  <2> HIDE DEF S
  <2>1. S \subseteq 0 .. Len(m)
    BY DEF S
  <2> QED
    BY <1>1, <1>2, <2>1, UpTo
<1>4. \E f : G(f, Len(m))
  BY <1>3
<1>5. PICK at : at = CHOOSE f : G(f, Len(m))
  OBVIOUS
<1>6. ExternalScan(m) = at[Len(m)]
  BY <1>5 DEF ExternalScan
<1>7. G(at, Len(m))
  BY <1>4, <1>5
<1> HIDE DEF S
<1>8. at[0] = NoExternal /\ \A n \in 1 .. Len(m) : at[n] = ExternalStep(at[n - 1], m[n])
  <2>1. \A n \in 0 .. Len(m) : at[n] = IF n = 0 THEN NoExternal ELSE ExternalStep(at[n - 1], m[n])
    BY <1>7
  <2> QED
    BY <2>1
<1> QED
  BY <1>6, <1>8

\* A field a third party's signature cannot have.
ExternalSpoils(f) ==
  f.is = "broken" \/ (f.is = "public_key" /\ f.wire = "bytes" /\ ~KeyReads(f.value))

\* What stands for the last key of the first n fields: the key it reads as.
KeyUpTo(v, m, ns, n) ==
  \E w : /\ LastUpTo(w, m, ns, n)
         /\ v = Absent <=> w = Absent
         /\ w # Absent => v = <<KeyRead(w[1])>>

\* How far the fields have been read.
ExternalSoFar(m, s, n) ==
  \/ /\ s.st \in {"MALFORMED", "UNSUPPORTED"}
     /\ \E k \in 1 .. n : ExternalSpoils(m[k])
  \/ /\ \A k \in 1 .. n : ~ExternalSpoils(m[k])
     /\ s = [st |-> "OK", signature |-> s.signature, key |-> s.key]
     /\ LastUpTo(s.signature, m, OfWire(m, "signature", "bytes"), n)
     /\ KeyUpTo(s.key, m, OfWire(m, "public_key", "bytes"), n)

LEMMA KeyUpToStep ==
  ASSUME NEW m, NEW ns, NEW L \in Nat, ns \subseteq 1 .. L, NEW n \in 1 .. L,
         NEW v, KeyUpTo(v, m, ns, n - 1)
  PROVE  /\ n \in ns => KeyUpTo(<<KeyRead(m[n].value)>>, m, ns, n)
         /\ n \notin ns => KeyUpTo(v, m, ns, n)
<1>1. PICK w : /\ LastUpTo(w, m, ns, n - 1)
               /\ v = Absent <=> w = Absent
               /\ w # Absent => v = <<KeyRead(w[1])>>
  BY DEF KeyUpTo
<1>2. /\ n \in ns => LastUpTo(<<m[n].value>>, m, ns, n)
      /\ n \notin ns => LastUpTo(w, m, ns, n)
  BY <1>1, LastStep
<1>3. ASSUME n \in ns PROVE KeyUpTo(<<KeyRead(m[n].value)>>, m, ns, n)
  <2> DEFINE u == <<m[n].value>>
  <2>1. /\ LastUpTo(u, m, ns, n) /\ u # Absent /\ u[1] = m[n].value
        /\ <<KeyRead(m[n].value)>> # Absent
    BY <1>2, <1>3 DEF Absent
  <2> HIDE DEF u
  <2> QED
    BY <2>1 DEF KeyUpTo
<1>4. ASSUME n \notin ns PROVE KeyUpTo(v, m, ns, n)
  BY <1>1, <1>2, <1>4 DEF KeyUpTo
<1> QED
  BY <1>3, <1>4

LEMMA KeyUpToStart ==
  ASSUME NEW m, NEW ns, NEW L \in Nat, ns \subseteq 1 .. L
  PROVE  KeyUpTo(Absent, m, ns, 0)
BY LastStart DEF KeyUpTo

LEMMA KeyUpToLast ==
  ASSUME NEW m, NEW ns, NEW L \in Nat, ns \subseteq 1 .. L, NEW v, KeyUpTo(v, m, ns, L)
  PROVE  /\ v = Absent <=> ns = {}
         /\ ns # {} => v = <<KeyRead(LastValue(m, ns))>>
<1>1. PICK w : /\ LastUpTo(w, m, ns, L)
               /\ v = Absent <=> w = Absent
               /\ w # Absent => v = <<KeyRead(w[1])>>
  BY DEF KeyUpTo
<1>2. (w = Absent <=> ns = {}) /\ (ns # {} => w = <<LastValue(m, ns)>>)
  BY <1>1, LastIsLast
<1> QED
  BY <1>1, <1>2

LEMMA ExternalSoFarStep ==
  ASSUME NEW m, ExternalMessage(m), NEW n \in 1 .. Len(m),
         NEW s, ExternalSoFar(m, s, n - 1)
  PROVE  ExternalSoFar(m, ExternalStep(s, m[n]), n)
<1> DEFINE sigs == OfWire(m, "signature", "bytes")
           keys == OfWire(m, "public_key", "bytes")
<1>0. Len(m) \in Nat /\ DOMAIN m = 1 .. Len(m)
  BY MessageSized DEF ExternalMessage
<1>1. /\ sigs \subseteq 1 .. Len(m) /\ keys \subseteq 1 .. Len(m)
      /\ n \in sigs <=> m[n].is = "signature" /\ m[n].wire = "bytes"
      /\ n \in keys <=> m[n].is = "public_key" /\ m[n].wire = "bytes"
  BY <1>0 DEF OfWire, Given
<1>2. 1 .. n = (1 .. n - 1) \cup {n}
  BY <1>0
<1>3. n \in keys => KeyMessage(m[n].value)
  BY <1>0, <1>1 DEF ExternalMessage, Nested, ToSet
<1>4. ExternalSpoils(m[n]) <=> m[n].is = "broken" \/ (n \in keys /\ ~KeyReads(m[n].value))
  BY <1>1 DEF ExternalSpoils
<1> HIDE DEF sigs, keys
<1>5. CASE /\ s.st \in {"MALFORMED", "UNSUPPORTED"}
           /\ \E k \in 1 .. n - 1 : ExternalSpoils(m[k])
  <2>1. ExternalStep(s, m[n]) = s
    BY <1>5 DEF ExternalStep
  <2> QED
    BY <1>2, <1>5, <2>1 DEF ExternalSoFar
<1>6. CASE /\ \A k \in 1 .. n - 1 : ~ExternalSpoils(m[k])
           /\ s = [st |-> "OK", signature |-> s.signature, key |-> s.key]
           /\ LastUpTo(s.signature, m, sigs, n - 1) /\ KeyUpTo(s.key, m, keys, n - 1)
  <2>1. PICK a, k : s = [st |-> "OK", signature |-> a, key |-> k]
                    /\ LastUpTo(a, m, sigs, n - 1) /\ KeyUpTo(k, m, keys, n - 1)
    BY <1>6
  <2>2. /\ n \in sigs => LastUpTo(<<m[n].value>>, m, sigs, n)
        /\ n \notin sigs => LastUpTo(a, m, sigs, n)
        /\ n \in keys => KeyUpTo(<<KeyRead(m[n].value)>>, m, keys, n)
        /\ n \notin keys => KeyUpTo(k, m, keys, n)
    BY <1>0, <1>1, <2>1, LastStep, KeyUpToStep
  <2>3. ASSUME NEW b, NEW c, ExternalStep(s, m[n]) = [st |-> "OK", signature |-> b, key |-> c],
               LastUpTo(b, m, sigs, n), KeyUpTo(c, m, keys, n), ~ExternalSpoils(m[n])
        PROVE  ExternalSoFar(m, ExternalStep(s, m[n]), n)
    BY <1>2, <1>6, <2>3 DEF ExternalSoFar, sigs, keys
  <2>4. ASSUME ExternalStep(s, m[n]).st \in {"MALFORMED", "UNSUPPORTED"}, ExternalSpoils(m[n])
        PROVE  ExternalSoFar(m, ExternalStep(s, m[n]), n)
    BY <1>2, <2>4 DEF ExternalSoFar
  <2>5. CASE m[n].is = "broken"
    <3>1. ExternalStep(s, m[n]).st = "MALFORMED"
      BY <2>1, <2>5 DEF ExternalStep, Refused
    <3> QED
      BY <1>4, <2>4, <2>5, <3>1
  <2>6. CASE n \in sigs
    <3>1. ExternalStep(s, m[n]) = [st |-> "OK", signature |-> <<m[n].value>>, key |-> k]
      BY <1>1, <2>1, <2>6 DEF ExternalStep
    <3> QED
      BY <1>1, <1>4, <2>2, <2>3, <2>6, <3>1
  <2>7. CASE n \in keys
    <3> DEFINE d == DecodeKey(m[n].value)
    <3>1. ExternalStep(s, m[n]) = WithKey(s, d)
      BY <1>1, <2>1, <2>7 DEF ExternalStep
    <3>2. /\ d.st \in {"OK", "MALFORMED", "UNSUPPORTED"}
          /\ d.st = "OK" <=> KeyReads(m[n].value)
          /\ KeyReads(m[n].value) => d.key = <<KeyRead(m[n].value)>>
      BY <1>3, <2>7, KeyDecodes
    <3> HIDE DEF d
    <3>3. CASE d.st = "OK"
      <4>1. WithKey(s, d) = [st |-> "OK", signature |-> a, key |-> d.key]
        BY <2>1, <3>3 DEF WithKey
      <4>2. KeyUpTo(d.key, m, keys, n) /\ LastUpTo(a, m, sigs, n) /\ ~ExternalSpoils(m[n])
        BY <1>1, <1>4, <2>2, <2>7, <3>2, <3>3
      <4> QED
        BY <2>3, <3>1, <4>1, <4>2
    <3>4. CASE d.st # "OK"
      <4>1. WithKey(s, d) = d
        BY <3>4 DEF WithKey
      <4> QED
        BY <1>4, <2>4, <2>7, <3>1, <3>2, <3>4, <4>1
    <3> QED
      BY <3>3, <3>4
  <2>8. CASE m[n].is # "broken" /\ n \notin sigs /\ n \notin keys
    <3>1. ExternalStep(s, m[n]) = s
      BY <1>1, <2>1, <2>8 DEF ExternalStep
    <3> QED
      BY <1>4, <2>1, <2>2, <2>3, <2>8, <3>1
  <2> QED
    BY <2>5, <2>6, <2>7, <2>8
<1> QED
  BY <1>5, <1>6 DEF ExternalSoFar, sigs, keys

LEMMA ExternalScanned ==
  ASSUME NEW m, ExternalMessage(m)
  PROVE  ExternalSoFar(m, ExternalScan(m), Len(m))
<1>0. Len(m) \in Nat /\ DOMAIN m = 1 .. Len(m)
  BY MessageSized DEF ExternalMessage
<1>1. PICK at : /\ at[0] = NoExternal
                /\ \A n \in 1 .. Len(m) : at[n] = ExternalStep(at[n - 1], m[n])
                /\ ExternalScan(m) = at[Len(m)]
  BY <1>0, ExternalScanRuns
<1> DEFINE S == {n \in 0 .. Len(m) : ExternalSoFar(m, at[n], n)}
<1>2. 0 \in S
  <2>1. ExternalSoFar(m, NoExternal, 0)
    <3>1. OfWire(m, "signature", "bytes") \subseteq 1 .. Len(m)
          /\ OfWire(m, "public_key", "bytes") \subseteq 1 .. Len(m)
      BY <1>0 DEF OfWire, Given
    <3>2. \A ns : ns \subseteq 1 .. Len(m) => LastUpTo(Absent, m, ns, 0) /\ KeyUpTo(Absent, m, ns, 0)
      BY <1>0, LastStart, KeyUpToStart
    <3> QED
      BY <3>1, <3>2 DEF ExternalSoFar, NoExternal
  <2> QED
    BY <1>0, <1>1, <2>1
<1>3. ASSUME NEW n \in 1 .. Len(m), n - 1 \in S PROVE n \in S
  BY <1>0, <1>1, <1>3, ExternalSoFarStep
<1>4. S = 0 .. Len(m)
  <2>1. S \subseteq 0 .. Len(m)
    OBVIOUS
  <2> HIDE DEF S
  <2> QED
    BY <1>0, <1>2, <1>3, <2>1, UpTo
<1> QED
  BY <1>0, <1>1, <1>4

LEMMA ExternalDecodes ==
  ASSUME NEW m, ExternalMessage(m)
  PROVE  /\ DecodeExternal(m).st \in {"OK", "MALFORMED", "UNSUPPORTED"}
         /\ DecodeExternal(m).st = "OK" <=> ExternalReads(m)
         /\ ExternalReads(m) => /\ DecodeExternal(m).signature[1] = ExternalRead(m).signature
                                /\ DecodeExternal(m).key[1] = ExternalRead(m).key
<1> DEFINE sigs == OfWire(m, "signature", "bytes")
           keys == OfWire(m, "public_key", "bytes")
           s == ExternalScan(m)
<1>1. Len(m) \in Nat /\ DOMAIN m = 1 .. Len(m)
  BY MessageSized DEF ExternalMessage
<1>2. ExternalSoFar(m, s, Len(m))
  BY ExternalScanned
<1>3. sigs \subseteq 1 .. Len(m) /\ keys \subseteq 1 .. Len(m)
  BY <1>1 DEF OfWire, Given
<1>4. Whole(m) /\ (\A n \in keys : KeyReads(m[n].value))
        <=> \A k \in 1 .. Len(m) : ~ExternalSpoils(m[k])
  BY <1>1 DEF Whole, Given, OfWire, ExternalSpoils
<1>5. DecodeExternal(m) = ExternalOf(s)
  BY DEF DecodeExternal
<1>6. ExternalReads(m) <=> /\ Whole(m) /\ sigs # {} /\ keys # {}
                           /\ \A n \in keys : KeyReads(m[n].value)
  BY DEF ExternalReads
<1>7. /\ ExternalRead(m).signature = LastValue(m, sigs)
      /\ ExternalRead(m).key = KeyRead(LastValue(m, keys))
  BY DEF ExternalRead
<1> HIDE DEF sigs, keys, s
<1>8. CASE s.st \in {"MALFORMED", "UNSUPPORTED"} /\ \E k \in 1 .. Len(m) : ExternalSpoils(m[k])
  <2>1. ExternalOf(s) = s
    BY <1>8 DEF ExternalOf
  <2> QED
    BY <1>4, <1>5, <1>6, <1>8, <2>1
<1>9. CASE /\ \A k \in 1 .. Len(m) : ~ExternalSpoils(m[k])
           /\ s = [st |-> "OK", signature |-> s.signature, key |-> s.key]
           /\ LastUpTo(s.signature, m, sigs, Len(m)) /\ KeyUpTo(s.key, m, keys, Len(m))
  <2>1. /\ s.signature = Absent <=> sigs = {}
        /\ sigs # {} => s.signature = <<LastValue(m, sigs)>>
        /\ s.key = Absent <=> keys = {}
        /\ keys # {} => s.key = <<KeyRead(LastValue(m, keys))>>
    BY <1>1, <1>3, <1>9, LastIsLast, KeyUpToLast
  <2>2. s.st = "OK"
    BY <1>9
  <2>3. CASE sigs # {} /\ keys # {}
    <3>1. ExternalOf(s) = s
      BY <2>1, <2>3 DEF ExternalOf
    <3>2. s.signature[1] = LastValue(m, sigs) /\ s.key[1] = KeyRead(LastValue(m, keys))
      BY <2>1, <2>3
    <3> QED
      BY <1>4, <1>5, <1>6, <1>7, <1>9, <2>2, <2>3, <3>1, <3>2
  <2>4. CASE ~(sigs # {} /\ keys # {})
    <3>1. ExternalOf(s).st = "MALFORMED"
      BY <2>1, <2>2, <2>4 DEF ExternalOf, Refused
    <3> QED
      BY <1>5, <1>6, <2>4, <3>1
  <2> QED
    BY <2>3, <2>4
<1> QED
  BY <1>2, <1>8, <1>9 DEF ExternalSoFar, sigs, keys

-----------------------------------------------------------------------------
(* A signed block reads as its schema says.                                *)

LEMMA BlockScanRuns ==
  ASSUME NEW m, NEW first, Len(m) \in Nat
  PROVE  \E at : /\ at[0] = NoBlock
                 /\ \A n \in 1 .. Len(m) : at[n] = BlockStep(first, at[n - 1], m[n])
                 /\ BlockScan(m, first) = at[Len(m)]
<1> DEFINE G(f, n) == f = [k \in 0 .. n |-> IF k = 0 THEN NoBlock ELSE BlockStep(first, f[k - 1], m[k])]
           S == {n \in 0 .. Len(m) : \E f : G(f, n)}
<1>1. 0 \in S
  <2>1. G([k \in 0 .. 0 |-> NoBlock], 0)
    OBVIOUS
  <2>2. \E f : G(f, 0)
    BY <2>1
  <2> QED
    BY <2>2
<1>2. ASSUME NEW n \in 1 .. Len(m), n - 1 \in S PROVE n \in S
  <2>1. PICK f : G(f, n - 1)
    BY <1>2
  <2> DEFINE g == [k \in 0 .. n |-> IF k = n THEN BlockStep(first, f[n - 1], m[n]) ELSE f[k]]
  <2>2. ASSUME NEW k \in 0 .. n
        PROVE  g[k] = IF k = 0 THEN NoBlock ELSE BlockStep(first, g[k - 1], m[k])
    <3>1. CASE k = n
      BY <3>1
    <3>2. CASE k \in 0 .. n - 1
      <4>1. f[k] = IF k = 0 THEN NoBlock ELSE BlockStep(first, f[k - 1], m[k])
        BY <2>1, <3>2
      <4>2. g[k] = f[k] /\ (k # 0 => g[k - 1] = f[k - 1])
        BY <3>2
      <4> QED
        BY <4>1, <4>2
    <3> QED
      BY <3>1, <3>2
  <2>3. G(g, n)
    BY <2>2
  <2> HIDE DEF g
  <2>4. \E h : G(h, n)
    BY <2>3
  <2> QED
    BY <2>4
<1>3. S = 0 .. Len(m)
  <2> HIDE DEF S
  <2>1. S \subseteq 0 .. Len(m)
    BY DEF S
  <2> QED
    BY <1>1, <1>2, <2>1, UpTo
<1>4. \E f : G(f, Len(m))
  BY <1>3
<1>5. PICK at : at = CHOOSE f : G(f, Len(m))
  OBVIOUS
<1>6. BlockScan(m, first) = at[Len(m)]
  BY <1>5 DEF BlockScan
<1>7. G(at, Len(m))
  BY <1>4, <1>5
<1> HIDE DEF S
<1>8. at[0] = NoBlock /\ \A n \in 1 .. Len(m) : at[n] = BlockStep(first, at[n - 1], m[n])
  <2>1. \A n \in 0 .. Len(m) : at[n] = IF n = 0 THEN NoBlock ELSE BlockStep(first, at[n - 1], m[n])
    BY <1>7
  <2> QED
    BY <2>1
<1> QED
  BY <1>6, <1>8

\* A field a block can have.
BlockField(first, f) ==
  \/ f.is = "block" /\ f.wire = "bytes"
  \/ f.is = "next_key" /\ f.wire = "bytes" /\ KeyReads(f.value)
  \/ f.is = "signature" /\ f.wire = "bytes"
  \/ f.is = "external" /\ f.wire = "bytes" /\ ~first /\ ExternalReads(f.value)
  \/ f.is = "version" /\ f.wire = "varint" /\ f.value <= Word
  \/ f.is = "unknown"

\* What the scan holds when these are the last fields of each kind.
BlockAs(b, k, g, e, v) ==
  [st |-> "OK", block |-> b,
   next_key |-> IF k = Absent THEN Absent ELSE <<KeyRead(k[1])>>,
   signature |-> g,
   external |-> IF e = Absent THEN Absent ELSE <<ExternalRead(e[1])>>,
   version |-> IF v = Absent THEN 0 ELSE v[1]]

LastOfBlock(m, b, k, g, e, v, n) ==
  /\ LastUpTo(b, m, Given(m, "block"), n)
  /\ LastUpTo(k, m, Given(m, "next_key"), n)
  /\ LastUpTo(g, m, Given(m, "signature"), n)
  /\ LastUpTo(e, m, Given(m, "external"), n)
  /\ LastUpTo(v, m, Given(m, "version"), n)

\* How far the fields have been read.
BlockSoFar(m, first, s, n) ==
  \/ /\ s.st \in {"MALFORMED", "UNSUPPORTED"}
     /\ \E k \in 1 .. n : ~BlockField(first, m[k])
  \/ /\ \A k \in 1 .. n : BlockField(first, m[k])
     /\ \E b, k, g, e, v : s = BlockAs(b, k, g, e, v) /\ LastOfBlock(m, b, k, g, e, v, n)

LEMMA BlockSoFarStep ==
  ASSUME NEW m, BlockMessage(m), NEW first \in BOOLEAN, NEW n \in 1 .. Len(m),
         NEW s, BlockSoFar(m, first, s, n - 1)
  PROVE  BlockSoFar(m, first, BlockStep(first, s, m[n]), n)
<1> DEFINE r == BlockStep(first, s, m[n])
           f == m[n]
<1>0. Len(m) \in Nat /\ DOMAIN m = 1 .. Len(m)
  BY MessageSized DEF BlockMessage
<1>1. \A is : Given(m, is) \subseteq 1 .. Len(m) /\ (n \in Given(m, is) <=> f.is = is)
  BY <1>0 DEF Given
<1>2. 1 .. n = (1 .. n - 1) \cup {n}
  BY <1>0
<1>3. /\ f.is = "next_key" /\ f.wire = "bytes" => KeyMessage(f.value)
      /\ f.is = "external" /\ f.wire = "bytes" => ExternalMessage(f.value)
  BY <1>0 DEF BlockMessage, Nested, ToSet
<1> SUFFICES BlockSoFar(m, first, r, n)
  OBVIOUS
<1> HIDE DEF f, r
<1>4. ASSUME r.st \in {"MALFORMED", "UNSUPPORTED"}, ~BlockField(first, f)
      PROVE  BlockSoFar(m, first, r, n)
  BY <1>2, <1>4 DEF BlockSoFar, f
<1>5. CASE /\ s.st \in {"MALFORMED", "UNSUPPORTED"}
           /\ \E k \in 1 .. n - 1 : ~BlockField(first, m[k])
  <2>1. r = s
    BY <1>5 DEF BlockStep, r
  <2> QED
    BY <1>2, <1>5, <2>1 DEF BlockSoFar
<1>6. CASE /\ \A k \in 1 .. n - 1 : BlockField(first, m[k])
           /\ \E b, k, g, e, v : s = BlockAs(b, k, g, e, v) /\ LastOfBlock(m, b, k, g, e, v, n - 1)
  <2>1. PICK b, k, g, e, v : s = BlockAs(b, k, g, e, v) /\ LastOfBlock(m, b, k, g, e, v, n - 1)
    BY <1>6
  <2> DEFINE u == <<f.value>>
  <2>2. u # Absent /\ u[1] = f.value
    BY DEF Absent
  <2>3. \A is, w : LastUpTo(w, m, Given(m, is), n - 1)
                     => IF f.is = is THEN LastUpTo(u, m, Given(m, is), n)
                                     ELSE LastUpTo(w, m, Given(m, is), n)
    <3> SUFFICES ASSUME NEW is, NEW w, LastUpTo(w, m, Given(m, is), n - 1)
                 PROVE  IF f.is = is THEN LastUpTo(u, m, Given(m, is), n)
                                     ELSE LastUpTo(w, m, Given(m, is), n)
      OBVIOUS
    <3>1. Given(m, is) \subseteq 1 .. Len(m) /\ (n \in Given(m, is) <=> f.is = is)
      BY <1>1
    <3>2. /\ n \in Given(m, is) => LastUpTo(<<m[n].value>>, m, Given(m, is), n)
          /\ n \notin Given(m, is) => LastUpTo(w, m, Given(m, is), n)
      BY <1>0, <3>1, LastStep
    <3> QED
      BY <3>1, <3>2 DEF f
  <2> HIDE DEF u
  <2>4. ASSUME NEW b1, NEW k1, NEW g1, NEW e1, NEW v1, r = BlockAs(b1, k1, g1, e1, v1),
               LastOfBlock(m, b1, k1, g1, e1, v1, n), BlockField(first, f)
        PROVE  BlockSoFar(m, first, r, n)
    BY <1>2, <1>6, <2>4 DEF BlockSoFar, f
  <2>5. s.st = "OK"
    BY <2>1 DEF BlockAs
  <2>6. CASE f.is = "block" /\ f.wire = "bytes"
    <3>1. r = [s EXCEPT !.block = u]
      BY <2>5, <2>6 DEF BlockStep, r, f, u
    <3>2. r = BlockAs(u, k, g, e, v)
      BY <2>1, <3>1 DEF BlockAs
    <3>3. LastOfBlock(m, u, k, g, e, v, n) /\ BlockField(first, f)
      BY <2>1, <2>3, <2>6 DEF LastOfBlock, BlockField
    <3> QED
      BY <2>4, <3>2, <3>3
  <2>7. CASE f.is = "signature" /\ f.wire = "bytes"
    <3>1. r = [s EXCEPT !.signature = u]
      BY <2>5, <2>7 DEF BlockStep, r, f, u
    <3>2. r = BlockAs(b, k, u, e, v)
      BY <2>1, <3>1 DEF BlockAs
    <3>3. LastOfBlock(m, b, k, u, e, v, n) /\ BlockField(first, f)
      BY <2>1, <2>3, <2>7 DEF LastOfBlock, BlockField
    <3> QED
      BY <2>4, <3>2, <3>3
  <2>8. CASE f.is = "version" /\ f.wire = "varint" /\ f.value <= Word
    <3>1. r = [s EXCEPT !.version = f.value]
      BY <2>5, <2>8 DEF BlockStep, r, f
    <3>2. r = BlockAs(b, k, g, e, u)
      BY <2>1, <2>2, <3>1 DEF BlockAs
    <3>3. LastOfBlock(m, b, k, g, e, u, n) /\ BlockField(first, f)
      BY <2>1, <2>3, <2>8 DEF LastOfBlock, BlockField
    <3> QED
      BY <2>4, <3>2, <3>3
  <2>9. CASE f.is = "unknown"
    <3>1. r = BlockAs(b, k, g, e, v)
      BY <2>1, <2>5, <2>9 DEF BlockStep, r, f
    <3>2. LastOfBlock(m, b, k, g, e, v, n) /\ BlockField(first, f)
      BY <2>1, <2>3, <2>9 DEF LastOfBlock, BlockField
    <3> QED
      BY <2>4, <3>1, <3>2
  <2>10. CASE f.is = "next_key" /\ f.wire = "bytes"
    <3> DEFINE d == DecodeKey(f.value)
    <3>1. r = WithNext(s, d)
      BY <2>5, <2>10 DEF BlockStep, r, f
    <3>2. /\ d.st \in {"OK", "MALFORMED", "UNSUPPORTED"}
          /\ d.st = "OK" <=> KeyReads(f.value)
          /\ KeyReads(f.value) => d.key = <<KeyRead(f.value)>>
      BY <1>3, <2>10, KeyDecodes
    <3> HIDE DEF d
    <3>3. CASE d.st = "OK"
      <4>1. r = [s EXCEPT !.next_key = <<KeyRead(f.value)>>]
        BY <3>1, <3>2, <3>3 DEF WithNext
      <4>2. r = BlockAs(b, u, g, e, v)
        BY <2>1, <2>2, <4>1 DEF BlockAs
      <4>3. LastOfBlock(m, b, u, g, e, v, n) /\ BlockField(first, f)
        BY <2>1, <2>3, <2>10, <3>2, <3>3 DEF LastOfBlock, BlockField
      <4> QED
        BY <2>4, <4>2, <4>3
    <3>4. CASE d.st # "OK"
      <4>1. r = d /\ ~BlockField(first, f)
        BY <2>10, <3>1, <3>2, <3>4 DEF WithNext, BlockField
      <4> QED
        BY <1>4, <3>2, <3>4, <4>1
    <3> QED
      BY <3>3, <3>4
  <2>11. CASE f.is = "external" /\ f.wire = "bytes" /\ ~first
    <3> DEFINE d == DecodeExternal(f.value)
    <3>1. r = WithExternal(s, d)
      BY <2>5, <2>11 DEF BlockStep, r, f, ExternalAllowed
    <3>2. /\ d.st \in {"OK", "MALFORMED", "UNSUPPORTED"}
          /\ d.st = "OK" <=> ExternalReads(f.value)
          /\ ExternalReads(f.value) => /\ d.signature[1] = ExternalRead(f.value).signature
                                       /\ d.key[1] = ExternalRead(f.value).key
      BY <1>3, <2>11, ExternalDecodes
    <3> HIDE DEF d
    <3>3. CASE d.st = "OK"
      <4>1. [signature |-> d.signature[1], key |-> d.key[1]] = ExternalRead(f.value)
        BY <3>2, <3>3 DEF ExternalRead
      <4>2. r = [s EXCEPT !.external = <<ExternalRead(f.value)>>]
        BY <3>1, <3>3, <4>1 DEF WithExternal
      <4>3. r = BlockAs(b, k, g, u, v)
        BY <2>1, <2>2, <4>2 DEF BlockAs
      <4>4. LastOfBlock(m, b, k, g, u, v, n) /\ BlockField(first, f)
        BY <2>1, <2>3, <2>11, <3>2, <3>3 DEF LastOfBlock, BlockField
      <4> QED
        BY <2>4, <4>3, <4>4
    <3>4. CASE d.st # "OK"
      <4>1. r = d /\ ~BlockField(first, f)
        BY <2>11, <3>1, <3>2, <3>4 DEF WithExternal, BlockField
      <4> QED
        BY <1>4, <3>2, <3>4, <4>1
    <3> QED
      BY <3>3, <3>4
  <2>12. CASE ~(\/ f.is = "block" /\ f.wire = "bytes"
                \/ f.is = "signature" /\ f.wire = "bytes"
                \/ f.is = "version" /\ f.wire = "varint" /\ f.value <= Word
                \/ f.is = "unknown"
                \/ f.is = "next_key" /\ f.wire = "bytes"
                \/ f.is = "external" /\ f.wire = "bytes" /\ ~first)
    <3>1. r = Refused("MALFORMED")
      BY <2>5, <2>12 DEF BlockStep, r, f, ExternalAllowed
    <3>2. ~BlockField(first, f)
      BY <2>12 DEF BlockField
    <3> QED
      BY <1>4, <3>1, <3>2 DEF Refused
  <2> QED
    BY <2>6, <2>7, <2>8, <2>9, <2>10, <2>11, <2>12
<1> QED
  BY <1>5, <1>6 DEF BlockSoFar

LEMMA BlockScanned ==
  ASSUME NEW m, BlockMessage(m), NEW first \in BOOLEAN
  PROVE  BlockSoFar(m, first, BlockScan(m, first), Len(m))
<1>0. Len(m) \in Nat /\ DOMAIN m = 1 .. Len(m)
  BY MessageSized DEF BlockMessage
<1>1. PICK at : /\ at[0] = NoBlock
                /\ \A n \in 1 .. Len(m) : at[n] = BlockStep(first, at[n - 1], m[n])
                /\ BlockScan(m, first) = at[Len(m)]
  BY <1>0, BlockScanRuns
<1> DEFINE S == {n \in 0 .. Len(m) : BlockSoFar(m, first, at[n], n)}
<1>2. 0 \in S
  <2>1. \A is : Given(m, is) \subseteq 1 .. Len(m)
    BY <1>0 DEF Given
  <2>2. \A is : LastUpTo(Absent, m, Given(m, is), 0)
    BY <1>0, <2>1, LastStart
  <2>3. /\ NoBlock = BlockAs(Absent, Absent, Absent, Absent, Absent)
        /\ LastOfBlock(m, Absent, Absent, Absent, Absent, Absent, 0)
    BY <2>2 DEF NoBlock, BlockAs, LastOfBlock
  <2>4. BlockSoFar(m, first, NoBlock, 0)
    BY <2>3 DEF BlockSoFar
  <2> QED
    BY <1>0, <1>1, <2>4
<1>3. ASSUME NEW n \in 1 .. Len(m), n - 1 \in S PROVE n \in S
  BY <1>0, <1>1, <1>3, BlockSoFarStep
<1>4. S = 0 .. Len(m)
  <2>1. S \subseteq 0 .. Len(m)
    OBVIOUS
  <2> HIDE DEF S
  <2> QED
    BY <1>0, <1>2, <1>3, <2>1, UpTo
<1> QED
  BY <1>0, <1>1, <1>4

\* A block's fields are all such as it can have, exactly when the schema finds
\* none broken, of the wrong wire type or with a message in it that is none.
LEMMA BlockFieldsFit ==
  ASSUME NEW m, BlockMessage(m), NEW first \in BOOLEAN
  PROVE  (\A k \in 1 .. Len(m) : BlockField(first, m[k]))
           <=> /\ Whole(m)
               /\ \A is \in {"block", "next_key", "signature"} : Strictly(m, is, "bytes")
               /\ \A n \in Given(m, "next_key") : KeyReads(m[n].value)
               /\ Fits32(m, "version")
               /\ Given(m, "external") # {} =>
                    /\ ~first /\ Strictly(m, "external", "bytes")
                    /\ \A n \in Given(m, "external") : ExternalReads(m[n].value)
<1>0. Len(m) \in Nat /\ DOMAIN m = 1 .. Len(m)
  BY MessageSized DEF BlockMessage
<1>1. \A k \in 1 .. Len(m) :
        m[k].is \in {"block", "next_key", "signature", "external", "version", "unknown", "broken"}
  BY <1>0 DEF BlockMessage, Holds, ToSet
<1>2. \A is : Given(m, is) = {k \in 1 .. Len(m) : m[k].is = is}
  BY <1>0 DEF Given
<1>3. \A is, wire : Strictly(m, is, wire) <=> \A k \in 1 .. Len(m) : m[k].is = is => m[k].wire = wire
  BY <1>2 DEF Strictly, OfWire
<1>4. Whole(m) <=> \A k \in 1 .. Len(m) : m[k].is # "broken"
  BY <1>2 DEF Whole
<1>5. Fits32(m, "version") <=> \A k \in 1 .. Len(m) :
         m[k].is = "version" => m[k].wire = "varint" /\ m[k].value <= Word
  BY <1>2, <1>3 DEF Fits32
<1>6. ASSUME \A k \in 1 .. Len(m) : BlockField(first, m[k])
      PROVE  /\ Whole(m)
             /\ \A is \in {"block", "next_key", "signature"} : Strictly(m, is, "bytes")
             /\ \A n \in Given(m, "next_key") : KeyReads(m[n].value)
             /\ Fits32(m, "version")
             /\ Given(m, "external") # {} =>
                  /\ ~first /\ Strictly(m, "external", "bytes")
                  /\ \A n \in Given(m, "external") : ExternalReads(m[n].value)
  BY <1>2, <1>3, <1>4, <1>5, <1>6 DEF BlockField
<1>7. ASSUME Whole(m), \A is \in {"block", "next_key", "signature"} : Strictly(m, is, "bytes"),
             \A n \in Given(m, "next_key") : KeyReads(m[n].value), Fits32(m, "version"),
             Given(m, "external") # {} =>
               /\ ~first /\ Strictly(m, "external", "bytes")
               /\ \A n \in Given(m, "external") : ExternalReads(m[n].value),
             NEW k \in 1 .. Len(m)
      PROVE  BlockField(first, m[k])
  <2>1. m[k].is \in {"block", "next_key", "signature", "external", "version", "unknown"}
    BY <1>1, <1>4, <1>7
  <2>2. m[k].is \in {"block", "next_key", "signature"} => m[k].wire = "bytes"
    <3>1. ASSUME m[k].is \in {"block", "next_key", "signature"} PROVE m[k].wire = "bytes"
      <4>1. Strictly(m, m[k].is, "bytes")
        BY <1>7, <3>1
      <4> QED
        BY <1>3, <4>1
    <3> QED
      BY <3>1
  <2>3. m[k].is = "next_key" => KeyReads(m[k].value)
    BY <1>2, <1>7
  <2>4. m[k].is = "version" => m[k].wire = "varint" /\ m[k].value <= Word
    BY <1>5, <1>7
  <2>5. m[k].is = "external" => ~first /\ m[k].wire = "bytes" /\ ExternalReads(m[k].value)
    <3>1. ASSUME m[k].is = "external"
          PROVE  ~first /\ m[k].wire = "bytes" /\ ExternalReads(m[k].value)
      <4>1. k \in Given(m, "external")
        BY <1>2, <3>1
      <4>2. ~first /\ Strictly(m, "external", "bytes") /\ ExternalReads(m[k].value)
        BY <1>7, <4>1
      <4> QED
        BY <1>3, <3>1, <4>2
    <3> QED
      BY <3>1
  <2> QED
    BY <2>1, <2>2, <2>3, <2>4, <2>5 DEF BlockField
<1> QED
  BY <1>6, <1>7

LEMMA BlockDecodes ==
  ASSUME NEW m, BlockMessage(m), NEW first \in BOOLEAN
  PROVE  /\ DecodeBlock(m, first).st \in {"OK", "MALFORMED", "UNSUPPORTED"}
         /\ DecodeBlock(m, first).st = "OK" <=> BlockReads(m, first)
         /\ BlockReads(m, first) => SignedBlock(DecodeBlock(m, first)) = BlockRead(m)
<1> DEFINE s == BlockScan(m, first)
           d == DecodeBlock(m, first)
           Fitting == \A k \in 1 .. Len(m) : BlockField(first, m[k])
<1>1. Len(m) \in Nat /\ DOMAIN m = 1 .. Len(m)
  BY MessageSized DEF BlockMessage
<1>2. BlockSoFar(m, first, s, Len(m))
  BY BlockScanned
<1>3. d = BlockOf(s)
  BY DEF DecodeBlock
<1>4. BlockReads(m, first)
        <=> /\ Fitting
            /\ \A is \in {"block", "next_key", "signature"} : Given(m, is) # {}
            /\ IsSig(LastValue(m, Given(m, "signature")))
            /\ Given(m, "external") # {} =>
                 IsSig(BlockRead(m).external[1].signature) /\ BlockRead(m).version = 1
  BY BlockFieldsFit DEF BlockReads
<1> HIDE DEF s, d, Fitting
<1>5. CASE s.st \in {"MALFORMED", "UNSUPPORTED"} /\ \E k \in 1 .. Len(m) : ~BlockField(first, m[k])
  <2>1. d = s
    BY <1>3, <1>5 DEF BlockOf
  <2> QED
    BY <1>4, <1>5, <2>1 DEF Fitting, d
<1>6. CASE /\ \A k \in 1 .. Len(m) : BlockField(first, m[k])
           /\ \E b, k, g, e, v : s = BlockAs(b, k, g, e, v) /\ LastOfBlock(m, b, k, g, e, v, Len(m))
  <2>1. PICK b, k, g, e, v : s = BlockAs(b, k, g, e, v) /\ LastOfBlock(m, b, k, g, e, v, Len(m))
    BY <1>6
  <2>2. \A is, w : LastUpTo(w, m, Given(m, is), Len(m))
                     => /\ w = Absent <=> Given(m, is) = {}
                        /\ Given(m, is) # {} => w = <<LastValue(m, Given(m, is))>>
    <3>1. \A is : Given(m, is) \subseteq 1 .. Len(m)
      BY <1>1 DEF Given
    <3> QED
      BY <1>1, <3>1, LastIsLast
  <2>3. /\ b = Absent <=> Given(m, "block") = {}
        /\ Given(m, "block") # {} => b = <<LastValue(m, Given(m, "block"))>>
        /\ k = Absent <=> Given(m, "next_key") = {}
        /\ Given(m, "next_key") # {} => k = <<LastValue(m, Given(m, "next_key"))>>
        /\ g = Absent <=> Given(m, "signature") = {}
        /\ Given(m, "signature") # {} => g = <<LastValue(m, Given(m, "signature"))>>
        /\ e = Absent <=> Given(m, "external") = {}
        /\ Given(m, "external") # {} => e = <<LastValue(m, Given(m, "external"))>>
        /\ v = Absent <=> Given(m, "version") = {}
        /\ Given(m, "version") # {} => v = <<LastValue(m, Given(m, "version"))>>
    BY <2>1, <2>2 DEF LastOfBlock
  <2>4. /\ s.st = "OK" /\ s.block = b /\ s.signature = g
        /\ s.next_key = IF k = Absent THEN Absent ELSE <<KeyRead(k[1])>>
        /\ s.external = BlockRead(m).external /\ s.version = BlockRead(m).version
    BY <2>1, <2>3 DEF BlockAs, BlockRead, Absent
  <2>5. /\ s.next_key = Absent <=> k = Absent
        /\ k # Absent => s.next_key = <<KeyRead(k[1])>>
        /\ s.external # Absent <=> Given(m, "external") # {}
    BY <2>3, <2>4 DEF BlockRead, Absent
  <2>6. BlockReads(m, first)
          <=> /\ s.block # Absent /\ s.next_key # Absent /\ s.signature # Absent
              /\ IsSig(s.signature[1]) /\ ExternalFits(s)
    BY <1>4, <1>6, <2>3, <2>4, <2>5 DEF Fitting, ExternalFits
  <2>7. CASE BlockReads(m, first)
    <3>1. d = [st |-> "OK", block |-> s.block[1], next_key |-> s.next_key[1],
               signature |-> s.signature[1], external |-> s.external, version |-> s.version]
      BY <1>3, <2>4, <2>6, <2>7 DEF BlockOf
    <3>2. /\ s.block[1] = BlockRead(m).block /\ s.next_key[1] = BlockRead(m).next_key
          /\ s.signature[1] = BlockRead(m).signature
      BY <2>3, <2>4, <2>5, <2>6, <2>7 DEF BlockRead
    <3>3. SignedBlock(d) = BlockRead(m)
      BY <2>4, <3>1, <3>2 DEF SignedBlock, BlockRead
    <3> QED
      BY <2>7, <3>1, <3>3 DEF d
  <2>8. CASE ~BlockReads(m, first)
    <3>1. d = Refused("MALFORMED")
      BY <1>3, <2>4, <2>6, <2>8 DEF BlockOf
    <3> QED
      BY <2>8, <3>1 DEF Refused, d
  <2> QED
    BY <2>7, <2>8
<1> QED
  BY <1>2, <1>5, <1>6 DEF BlockSoFar

-----------------------------------------------------------------------------
(* The proof reads as its schema says.                                     *)

LEMMA ProofScanRuns ==
  ASSUME NEW m, Len(m) \in Nat
  PROVE  \E at : /\ at[0] = NoProof
                 /\ \A n \in 1 .. Len(m) : at[n] = ProofStep(at[n - 1], m[n])
                 /\ ProofScan(m) = at[Len(m)]
<1> DEFINE G(f, n) == f = [k \in 0 .. n |-> IF k = 0 THEN NoProof ELSE ProofStep(f[k - 1], m[k])]
           S == {n \in 0 .. Len(m) : \E f : G(f, n)}
<1>1. 0 \in S
  <2>1. G([k \in 0 .. 0 |-> NoProof], 0)
    OBVIOUS
  <2>2. \E f : G(f, 0)
    BY <2>1
  <2> QED
    BY <2>2
<1>2. ASSUME NEW n \in 1 .. Len(m), n - 1 \in S PROVE n \in S
  <2>1. PICK f : G(f, n - 1)
    BY <1>2
  <2> DEFINE g == [k \in 0 .. n |-> IF k = n THEN ProofStep(f[n - 1], m[n]) ELSE f[k]]
  <2>2. ASSUME NEW k \in 0 .. n
        PROVE  g[k] = IF k = 0 THEN NoProof ELSE ProofStep(g[k - 1], m[k])
    <3>1. CASE k = n
      BY <3>1
    <3>2. CASE k \in 0 .. n - 1
      <4>1. f[k] = IF k = 0 THEN NoProof ELSE ProofStep(f[k - 1], m[k])
        BY <2>1, <3>2
      <4>2. g[k] = f[k] /\ (k # 0 => g[k - 1] = f[k - 1])
        BY <3>2
      <4> QED
        BY <4>1, <4>2
    <3> QED
      BY <3>1, <3>2
  <2>3. G(g, n)
    BY <2>2
  <2> HIDE DEF g
  <2>4. \E h : G(h, n)
    BY <2>3
  <2> QED
    BY <2>4
<1>3. S = 0 .. Len(m)
  <2> HIDE DEF S
  <2>1. S \subseteq 0 .. Len(m)
    BY DEF S
  <2> QED
    BY <1>1, <1>2, <2>1, UpTo
<1>4. \E f : G(f, Len(m))
  BY <1>3
<1>5. PICK at : at = CHOOSE f : G(f, Len(m))
  OBVIOUS
<1>6. ProofScan(m) = at[Len(m)]
  BY <1>5 DEF ProofScan
<1>7. G(at, Len(m))
  BY <1>4, <1>5
<1> HIDE DEF S
<1>8. at[0] = NoProof /\ \A n \in 1 .. Len(m) : at[n] = ProofStep(at[n - 1], m[n])
  <2>1. \A n \in 0 .. Len(m) : at[n] = IF n = 0 THEN NoProof ELSE ProofStep(at[n - 1], m[n])
    BY <1>7
  <2> QED
    BY <2>1
<1> QED
  BY <1>6, <1>8

\* What the scan holds when these are the last fields of either kind: which
\* of them it keeps is only told when there is one.
ProofAs(s, a, b) ==
  /\ s = [st |-> "OK", secret |-> s.secret, final |-> s.final,
          sealed |-> s.sealed, proof |-> s.proof]
  /\ s.secret = (a # Absent) /\ s.final = (b # Absent)
  /\ a # Absent /\ b = Absent => s.sealed = FALSE /\ s.proof = a
  /\ a = Absent /\ b # Absent => s.sealed = TRUE /\ s.proof = b

\* How far the fields have been read.
ProofSoFar(m, s, n) ==
  \/ s = Refused("MALFORMED") /\ \E k \in 1 .. n : m[k].is = "broken"
  \/ /\ \A k \in 1 .. n : m[k].is # "broken"
     /\ \E a, b : /\ ProofAs(s, a, b)
                  /\ LastUpTo(a, m, OfWire(m, "next_secret", "bytes"), n)
                  /\ LastUpTo(b, m, OfWire(m, "final_signature", "bytes"), n)

LEMMA ProofSoFarStep ==
  ASSUME NEW m, DOMAIN m = 1 .. Len(m), Len(m) \in Nat, NEW n \in 1 .. Len(m),
         NEW s, ProofSoFar(m, s, n - 1)
  PROVE  ProofSoFar(m, ProofStep(s, m[n]), n)
<1> DEFINE secrets == OfWire(m, "next_secret", "bytes")
           finals == OfWire(m, "final_signature", "bytes")
           r == ProofStep(s, m[n])
<1>1. /\ secrets \subseteq 1 .. Len(m) /\ finals \subseteq 1 .. Len(m)
      /\ n \in secrets <=> m[n].is = "next_secret" /\ m[n].wire = "bytes"
      /\ n \in finals <=> m[n].is = "final_signature" /\ m[n].wire = "bytes"
  BY DEF OfWire, Given
<1>2. 1 .. n = (1 .. n - 1) \cup {n}
  OBVIOUS
<1> SUFFICES ProofSoFar(m, r, n)
  OBVIOUS
<1> HIDE DEF secrets, finals, r
<1>3. CASE s = Refused("MALFORMED") /\ \E k \in 1 .. n - 1 : m[k].is = "broken"
  <2>1. r = s
    BY <1>3 DEF ProofStep, Refused, r
  <2> QED
    BY <1>2, <1>3, <2>1 DEF ProofSoFar
<1>4. CASE /\ \A k \in 1 .. n - 1 : m[k].is # "broken"
           /\ \E a, b : /\ ProofAs(s, a, b)
                        /\ LastUpTo(a, m, secrets, n - 1) /\ LastUpTo(b, m, finals, n - 1)
  <2>1. PICK a, b : /\ ProofAs(s, a, b)
                    /\ LastUpTo(a, m, secrets, n - 1) /\ LastUpTo(b, m, finals, n - 1)
    BY <1>4
  <2> DEFINE u == <<m[n].value>>
  <2>2. /\ n \in secrets => LastUpTo(u, m, secrets, n)
        /\ n \notin secrets => LastUpTo(a, m, secrets, n)
        /\ n \in finals => LastUpTo(u, m, finals, n)
        /\ n \notin finals => LastUpTo(b, m, finals, n)
    BY <1>1, <2>1, LastStep
  <2>3. u # Absent
    BY DEF Absent
  <2> HIDE DEF u
  <2>4. ASSUME NEW c, NEW d, ProofAs(r, c, d), LastUpTo(c, m, secrets, n),
               LastUpTo(d, m, finals, n), m[n].is # "broken"
        PROVE  ProofSoFar(m, r, n)
    BY <1>2, <1>4, <2>4 DEF ProofSoFar, secrets, finals
  <2>5. s.st = "OK"
    BY <2>1 DEF ProofAs
  <2>10. PICK st, sc, fi, se, pr :
           s = [st |-> st, secret |-> sc, final |-> fi, sealed |-> se, proof |-> pr]
    BY <2>1 DEF ProofAs
  <2>6. CASE m[n].is = "broken"
    <3>1. r = Refused("MALFORMED")
      BY <2>5, <2>6 DEF ProofStep, r
    <3> QED
      BY <1>2, <2>6, <3>1 DEF ProofSoFar
  <2>7. CASE n \in secrets
    <3>1. r = [s EXCEPT !.secret = TRUE, !.sealed = FALSE, !.proof = u]
      BY <1>1, <2>5, <2>7 DEF ProofStep, r, u
    <3>2. r = [st |-> st, secret |-> TRUE, final |-> fi, sealed |-> FALSE, proof |-> u]
      BY <2>10, <3>1
    <3>4. r.secret = TRUE /\ r.final = s.final /\ r.sealed = FALSE /\ r.proof = u
      BY <2>10, <3>2
    <3>5. r = [st |-> "OK", secret |-> r.secret, final |-> r.final,
               sealed |-> r.sealed, proof |-> r.proof]
      BY <2>5, <2>10, <3>2
    <3>3. ProofAs(r, u, b)
      BY <2>1, <2>3, <3>4, <3>5 DEF ProofAs
    <3> QED
      BY <1>1, <2>2, <2>4, <2>7, <3>3
  <2>8. CASE n \in finals
    <3>1. r = [s EXCEPT !.final = TRUE, !.sealed = TRUE, !.proof = u]
      BY <1>1, <2>5, <2>8 DEF ProofStep, r, u
    <3>2. r = [st |-> st, secret |-> sc, final |-> TRUE, sealed |-> TRUE, proof |-> u]
      BY <2>10, <3>1
    <3>4. r.secret = s.secret /\ r.final = TRUE /\ r.sealed = TRUE /\ r.proof = u
      BY <2>10, <3>2
    <3>5. r = [st |-> "OK", secret |-> r.secret, final |-> r.final,
               sealed |-> r.sealed, proof |-> r.proof]
      BY <2>5, <2>10, <3>2
    <3>3. ProofAs(r, a, u)
      BY <2>1, <2>3, <3>4, <3>5 DEF ProofAs
    <3> QED
      BY <1>1, <2>2, <2>4, <2>8, <3>3
  <2>9. CASE m[n].is # "broken" /\ n \notin secrets /\ n \notin finals
    <3>1. r = s
      BY <1>1, <2>5, <2>9 DEF ProofStep, r
    <3> QED
      BY <2>1, <2>2, <2>4, <2>9, <3>1
  <2> QED
    BY <2>6, <2>7, <2>8, <2>9
<1> QED
  BY <1>3, <1>4 DEF ProofSoFar, secrets, finals

LEMMA ProofScanned ==
  ASSUME NEW m, DOMAIN m = 1 .. Len(m), Len(m) \in Nat
  PROVE  ProofSoFar(m, ProofScan(m), Len(m))
<1>1. PICK at : /\ at[0] = NoProof
                /\ \A n \in 1 .. Len(m) : at[n] = ProofStep(at[n - 1], m[n])
                /\ ProofScan(m) = at[Len(m)]
  BY ProofScanRuns
<1> DEFINE S == {n \in 0 .. Len(m) : ProofSoFar(m, at[n], n)}
<1>2. 0 \in S
  <2>1. OfWire(m, "next_secret", "bytes") \subseteq 1 .. Len(m)
        /\ OfWire(m, "final_signature", "bytes") \subseteq 1 .. Len(m)
    BY DEF OfWire, Given
  <2>2. \A ns : ns \subseteq 1 .. Len(m) => LastUpTo(Absent, m, ns, 0)
    BY LastStart
  <2>3. ProofAs(NoProof, Absent, Absent)
    BY DEF ProofAs, NoProof
  <2>4. ProofSoFar(m, NoProof, 0)
    BY <2>1, <2>2, <2>3 DEF ProofSoFar
  <2> QED
    BY <1>1, <2>4
<1>3. ASSUME NEW n \in 1 .. Len(m), n - 1 \in S PROVE n \in S
  BY <1>1, <1>3, ProofSoFarStep
<1>4. S = 0 .. Len(m)
  <2>1. S \subseteq 0 .. Len(m)
    OBVIOUS
  <2> HIDE DEF S
  <2> QED
    BY <1>2, <1>3, <2>1, UpTo
<1> QED
  BY <1>1, <1>4

LEMMA ProofDecodes ==
  ASSUME NEW m, ProofMessage(m)
  PROVE  LET finals == OfWire(m, "final_signature", "bytes")
         IN  /\ DecodeProof(m).st \in {"OK", "MALFORMED"}
             /\ DecodeProof(m).st = "OK" <=> ProofReads(m)
             /\ ProofReads(m) =>
                  /\ DecodeProof(m).sealed = (finals # {})
                  /\ DecodeProof(m).proof = LastValue(m, OfWire(m,
                       IF finals # {} THEN "final_signature" ELSE "next_secret", "bytes"))
<1> DEFINE secrets == OfWire(m, "next_secret", "bytes")
           finals == OfWire(m, "final_signature", "bytes")
           s == ProofScan(m)
           d == DecodeProof(m)
<1>1. Len(m) \in Nat /\ DOMAIN m = 1 .. Len(m)
  BY MessageSized DEF ProofMessage
<1>2. ProofSoFar(m, s, Len(m))
  BY <1>1, ProofScanned
<1>3. secrets \subseteq 1 .. Len(m) /\ finals \subseteq 1 .. Len(m)
  BY <1>1 DEF OfWire, Given
<1>4. Whole(m) <=> \A k \in 1 .. Len(m) : m[k].is # "broken"
  BY <1>1 DEF Whole, Given
<1>5. d = ProofOf(s)
  BY DEF DecodeProof
<1>6. ProofReads(m)
        <=> /\ Whole(m)
            /\ \/ secrets # {} /\ finals = {} /\ LastValue(m, secrets) \in Secret
               \/ finals # {} /\ secrets = {} /\ IsSig(LastValue(m, finals))
  BY DEF ProofReads
<1> SUFFICES /\ d.st \in {"OK", "MALFORMED"}
             /\ d.st = "OK" <=> ProofReads(m)
             /\ ProofReads(m) => /\ d.sealed = (finals # {})
                                 /\ d.proof = IF finals # {} THEN LastValue(m, finals)
                                              ELSE LastValue(m, secrets)
  OBVIOUS
<1> HIDE DEF secrets, finals, s, d
<1>7. CASE s = Refused("MALFORMED") /\ \E k \in 1 .. Len(m) : m[k].is = "broken"
  <2>1. d.st = "MALFORMED"
    BY <1>5, <1>7 DEF ProofOf, Refused
  <2> QED
    BY <1>4, <1>6, <1>7, <2>1
<1>8. CASE /\ \A k \in 1 .. Len(m) : m[k].is # "broken"
           /\ \E a, b : /\ ProofAs(s, a, b)
                        /\ LastUpTo(a, m, secrets, Len(m)) /\ LastUpTo(b, m, finals, Len(m))
  <2>1. PICK a, b : /\ ProofAs(s, a, b)
                    /\ LastUpTo(a, m, secrets, Len(m)) /\ LastUpTo(b, m, finals, Len(m))
    BY <1>8
  <2>2. /\ a = Absent <=> secrets = {}
        /\ secrets # {} => a = <<LastValue(m, secrets)>>
        /\ b = Absent <=> finals = {}
        /\ finals # {} => b = <<LastValue(m, finals)>>
    BY <1>1, <1>3, <2>1, LastIsLast
  <2>3. s.st = "OK" /\ (OneKind(s) <=> (a # Absent) # (b # Absent))
    BY <2>1 DEF ProofAs, OneKind
  <2>4. CASE a # Absent /\ b = Absent
    <3>1. s.sealed = FALSE /\ s.proof = <<LastValue(m, secrets)>> /\ OneKind(s)
      BY <2>1, <2>2, <2>3, <2>4 DEF ProofAs
    <3>2. ProofFits(s.sealed, s.proof[1]) <=> LastValue(m, secrets) \in Secret
      BY <3>1 DEF ProofFits
    <3>3. ProofReads(m) <=> LastValue(m, secrets) \in Secret
      BY <1>4, <1>6, <1>8, <2>2, <2>4
    <3>4. CASE LastValue(m, secrets) \in Secret
      <4>1. d = [st |-> "OK", sealed |-> s.sealed, proof |-> s.proof[1]]
        BY <1>5, <2>3, <3>1, <3>2, <3>4 DEF ProofOf
      <4>2. d.st = "OK" /\ d.sealed = s.sealed /\ d.proof = LastValue(m, secrets)
        BY <3>1, <4>1
      <4>3. finals = {}
        BY <2>2, <2>4
      <4> QED
        BY <3>1, <3>3, <3>4, <4>2, <4>3
    <3>5. CASE LastValue(m, secrets) \notin Secret
      <4>1. d = Refused("MALFORMED")
        BY <1>5, <2>3, <3>1, <3>2, <3>5 DEF ProofOf
      <4> QED
        BY <3>3, <3>5, <4>1 DEF Refused
    <3> QED
      BY <3>4, <3>5
  <2>5. CASE a = Absent /\ b # Absent
    <3>1. s.sealed = TRUE /\ s.proof = <<LastValue(m, finals)>> /\ OneKind(s)
      BY <2>1, <2>2, <2>3, <2>5 DEF ProofAs
    <3>2. ProofFits(s.sealed, s.proof[1]) <=> IsSig(LastValue(m, finals))
      BY <3>1 DEF ProofFits
    <3>3. ProofReads(m) <=> IsSig(LastValue(m, finals))
      BY <1>4, <1>6, <1>8, <2>2, <2>5
    <3>4. CASE IsSig(LastValue(m, finals))
      <4>1. d = [st |-> "OK", sealed |-> s.sealed, proof |-> s.proof[1]]
        BY <1>5, <2>3, <3>1, <3>2, <3>4 DEF ProofOf
      <4>2. d.st = "OK" /\ d.sealed = s.sealed /\ d.proof = LastValue(m, finals)
        BY <3>1, <4>1
      <4>3. finals # {}
        BY <2>2, <2>5
      <4> QED
        BY <3>1, <3>3, <3>4, <4>2, <4>3
    <3>5. CASE ~IsSig(LastValue(m, finals))
      <4>1. d = Refused("MALFORMED")
        BY <1>5, <2>3, <3>1, <3>2, <3>5 DEF ProofOf
      <4> QED
        BY <3>3, <3>5, <4>1 DEF Refused
    <3> QED
      BY <3>4, <3>5
  <2>6. CASE (a # Absent) = (b # Absent)
    <3>1. ~OneKind(s)
      BY <2>3, <2>6
    <3>2. d = Refused("MALFORMED")
      BY <1>5, <2>3, <3>1 DEF ProofOf
    <3>3. ~ProofReads(m)
      BY <1>6, <2>2, <2>6
    <3> QED
      BY <3>2, <3>3 DEF Refused
  <2> QED
    BY <2>4, <2>5, <2>6
<1> QED
  BY <1>2, <1>7, <1>8 DEF ProofSoFar, secrets, finals

-----------------------------------------------------------------------------
(* A token reads as its schema says.                                       *)

\* What the schema asks of a field of a token by itself.
FieldReads(f) ==
  /\ f.is # "broken"
  /\ f.is = "root_key_id" => f.wire = "varint" /\ f.value <= Word
  /\ f.is \in {"authority", "blocks", "proof"} => f.wire = "bytes"

\* v is the only field of that kind among the first n, if any.
OneUpTo(v, m, is, n) ==
  /\ LastUpTo(v, m, Given(m, is), n)
  /\ \A j, k \in Given(m, is) : j <= n /\ k <= n => j = k

\* What the first pass knows of the first n fields.
FoundIn(m, r, a, p, n) ==
  /\ \A k \in 1 .. n : FieldReads(m[k])
  /\ LastUpTo(r, m, Given(m, "root_key_id"), n)
  /\ OneUpTo(a, m, "authority", n) /\ OneUpTo(p, m, "proof", n)

Count(m, n) == Cardinality({k \in 1 .. n : IsBlock(m[k])})

\* And what the second has made of them.
DecodedIn(m, a, bs, n) ==
  /\ BlockReads(a[1], TRUE) /\ bs[1] = BlockRead(a[1])
  /\ \A k \in 1 .. n : IsBlock(m[k]) =>
       BlockReads(m[k].value, FALSE) /\ bs[Count(m, k) + 1] = BlockRead(m[k].value)

LEMMA GivenWithin ==
  ASSUME NEW m, DOMAIN m = 1 .. Len(m), NEW is
  PROVE  Given(m, is) \subseteq 1 .. Len(m)
BY DEF Given

LEMMA OneStart ==
  ASSUME NEW m, Len(m) \in Nat, DOMAIN m = 1 .. Len(m), NEW is
  PROVE  OneUpTo(Absent, m, is, 0)
<1>1. LastUpTo(Absent, m, Given(m, is), 0)
  BY LastStart, GivenWithin
<1>2. \A k \in Given(m, is) : ~(k <= 0)
  BY GivenWithin
<1> QED
  BY <1>1, <1>2 DEF OneUpTo

LEMMA OneStep ==
  ASSUME NEW m, Len(m) \in Nat, DOMAIN m = 1 .. Len(m), NEW is,
         NEW n \in 1 .. Len(m), NEW v, OneUpTo(v, m, is, n - 1)
  PROVE  /\ m[n].is = is /\ v = Absent => OneUpTo(<<m[n].value>>, m, is, n)
         /\ m[n].is = is /\ v # Absent => Cardinality(Given(m, is)) # 1
         /\ m[n].is # is => OneUpTo(v, m, is, n)
<1> DEFINE ns == Given(m, is)
<1>1. ns \subseteq 1 .. Len(m) /\ (n \in ns <=> m[n].is = is)
  BY DEF Given
<1>2. /\ n \in ns => LastUpTo(<<m[n].value>>, m, ns, n)
      /\ n \notin ns => LastUpTo(v, m, ns, n)
  BY <1>1, LastStep DEF OneUpTo
<1>3. LastUpTo(v, m, ns, n - 1) /\ \A j, k \in ns : j <= n - 1 /\ k <= n - 1 => j = k
  BY DEF OneUpTo
<1>4. \A k \in ns : k <= n <=> k <= n - 1 \/ k = n
  BY <1>1
<1> SUFFICES /\ n \in ns /\ v = Absent => OneUpTo(<<m[n].value>>, m, is, n)
             /\ n \in ns /\ v # Absent => Cardinality(ns) # 1
             /\ n \notin ns => OneUpTo(v, m, is, n)
  BY <1>1
<1>5. \A u : OneUpTo(u, m, is, n)
               <=> LastUpTo(u, m, ns, n) /\ \A j, k \in ns : j <= n /\ k <= n => j = k
  BY DEF OneUpTo
<1> HIDE DEF ns
<1>6. ASSUME n \in ns, v = Absent PROVE OneUpTo(<<m[n].value>>, m, is, n)
  <2>1. \A k \in ns : ~(k <= n - 1)
    BY <1>3, <1>6 DEF LastUpTo, Absent
  <2> QED
    BY <1>2, <1>4, <1>5, <1>6, <2>1
<1>7. ASSUME n \in ns, v # Absent PROVE Cardinality(ns) # 1
  <2>1. PICK k \in ns : k <= n - 1
    BY <1>3, <1>7 DEF LastUpTo
  <2>2. k # n
    BY <1>1, <2>1
  <2>3. SUFFICES ASSUME Cardinality(ns) = 1 PROVE FALSE
    OBVIOUS
  <2>5. IsFiniteSet(ns)
    <3>1. IsFiniteSet(1 .. Len(m))
      BY FS_Interval
    <3> QED
      BY <1>1, <3>1, FS_Subset
  <2>4. PICK x : ns = {x}
    BY <2>3, <2>5, FS_Singleton
  <2> QED
    BY <1>7, <2>1, <2>2, <2>4
<1>8. ASSUME n \notin ns PROVE OneUpTo(v, m, is, n)
  BY <1>2, <1>3, <1>4, <1>5, <1>8
<1> QED
  BY <1>6, <1>7, <1>8

LEMMA OneLast ==
  ASSUME NEW m, Len(m) \in Nat, DOMAIN m = 1 .. Len(m), NEW is,
         NEW v, OneUpTo(v, m, is, Len(m))
  PROVE  /\ v = Absent => Cardinality(Given(m, is)) # 1
         /\ v # Absent => /\ Cardinality(Given(m, is)) = 1
                          /\ v = <<LastValue(m, Given(m, is))>>
<1> DEFINE ns == Given(m, is)
<1>1. ns \subseteq 1 .. Len(m)
  BY GivenWithin
<1>2. LastUpTo(v, m, ns, Len(m)) /\ \A j, k \in ns : j <= Len(m) /\ k <= Len(m) => j = k
  BY DEF OneUpTo
<1> HIDE DEF ns
<1>3. (v = Absent <=> ns = {}) /\ (ns # {} => v = <<LastValue(m, ns)>>)
  BY <1>1, <1>2, LastIsLast
<1>4. CASE v = Absent
  BY <1>3, <1>4, FS_EmptySet DEF ns
<1>5. CASE v # Absent
  <2>1. PICK k : k \in ns
    BY <1>3, <1>5
  <2>2. \A j \in ns : j = k
    BY <1>1, <1>2, <2>1
  <2>3. ns = {k}
    BY <2>1, <2>2
  <2> QED
    BY <1>3, <1>5, <2>3, FS_Singleton DEF ns
<1> QED
  BY <1>4, <1>5

LEMMA FoundStart ==
  ASSUME NEW m, Len(m) \in Nat, DOMAIN m = 1 .. Len(m)
  PROVE  FoundIn(m, Absent, Absent, Absent, 0)
<1>1. LastUpTo(Absent, m, Given(m, "root_key_id"), 0)
  BY LastStart, GivenWithin
<1> QED
  BY <1>1, OneStart DEF FoundIn

\* The first pass takes one more field, or has a reason to refuse the token.
LEMMA FoundStep ==
  ASSUME NEW m, Len(m) \in Nat, DOMAIN m = 1 .. Len(m),
         NEW n \in 1 .. Len(m), NEW r, NEW a, NEW p, FoundIn(m, r, a, p, n - 1)
  PROVE  LET f == m[n]
         IN  /\ f.is = "root_key_id" /\ f.wire = "varint" /\ f.value <= Word =>
                  FoundIn(m, <<f.value>>, a, p, n)
             /\ f.is = "authority" /\ f.wire = "bytes" /\ a = Absent =>
                  FoundIn(m, r, <<f.value>>, p, n)
             /\ f.is = "proof" /\ f.wire = "bytes" /\ p = Absent =>
                  FoundIn(m, r, a, <<f.value>>, n)
             /\ f.is = "blocks" /\ f.wire = "bytes" => FoundIn(m, r, a, p, n)
             /\ f.is = "unknown" => FoundIn(m, r, a, p, n)
<1> DEFINE f == m[n]
           ids == Given(m, "root_key_id")
<1>1. ids \subseteq 1 .. Len(m) /\ (n \in ids <=> f.is = "root_key_id")
  BY DEF Given
<1>2. /\ f.is = "root_key_id" => LastUpTo(<<f.value>>, m, ids, n)
      /\ f.is # "root_key_id" => LastUpTo(r, m, ids, n)
  BY <1>1, LastStep DEF FoundIn
<1>3. /\ f.is = "authority" /\ a = Absent => OneUpTo(<<f.value>>, m, "authority", n)
      /\ f.is # "authority" => OneUpTo(a, m, "authority", n)
      /\ f.is = "proof" /\ p = Absent => OneUpTo(<<f.value>>, m, "proof", n)
      /\ f.is # "proof" => OneUpTo(p, m, "proof", n)
  BY OneStep DEF FoundIn
<1>4. FieldReads(f) => \A k \in 1 .. n : FieldReads(m[k])
  <2>1. 1 .. n = (1 .. n - 1) \cup {n}
    OBVIOUS
  <2> QED
    BY <2>1 DEF FoundIn
<1>5. \A x, y, z : /\ FieldReads(f) /\ LastUpTo(x, m, ids, n)
                   /\ OneUpTo(y, m, "authority", n) /\ OneUpTo(z, m, "proof", n)
                   => FoundIn(m, x, y, z, n)
  BY <1>4 DEF FoundIn
<1> HIDE DEF f, ids
<1>6. CASE f.is = "root_key_id"
  BY <1>2, <1>3, <1>5, <1>6 DEF FieldReads, f
<1>7. CASE f.is = "authority"
  BY <1>2, <1>3, <1>5, <1>7 DEF FieldReads, f
<1>8. CASE f.is = "proof"
  BY <1>2, <1>3, <1>5, <1>8 DEF FieldReads, f
<1>9. CASE f.is \in {"blocks", "unknown"}
  BY <1>2, <1>3, <1>5, <1>9 DEF FieldReads, f
<1> QED
  BY <1>6, <1>7, <1>8, <1>9 DEF f

LEMMA FieldRefused ==
  ASSUME NEW m, TokenMessage(m),
         NEW n \in 1 .. Len(m), NEW r, NEW a, NEW p, FoundIn(m, r, a, p, n - 1),
         ~(m[n].is = "root_key_id" /\ m[n].wire = "varint" /\ m[n].value <= Word),
         ~(m[n].is = "authority" /\ m[n].wire = "bytes" /\ a = Absent),
         ~(m[n].is = "proof" /\ m[n].wire = "bytes" /\ p = Absent),
         ~(m[n].is = "blocks" /\ m[n].wire = "bytes"), m[n].is # "unknown"
  PROVE  ~Reads(m)
<1> DEFINE f == m[n]
<1>1. Len(m) \in Nat /\ DOMAIN m = 1 .. Len(m)
  BY MessageSized DEF TokenMessage
<1>2. f.is \in {"root_key_id", "authority", "blocks", "proof", "broken"}
  <2>1. f \in ToSet(m)
    BY <1>1 DEF ToSet
  <2> QED
    BY <2>1 DEF TokenMessage, Holds
<1>3. \A is : n \in Given(m, is) <=> f.is = is
  BY <1>1 DEF Given
<1>4. /\ f.is = "authority" /\ a # Absent => Cardinality(Given(m, "authority")) # 1
      /\ f.is = "proof" /\ p # Absent => Cardinality(Given(m, "proof")) # 1
  BY <1>1, OneStep DEF FoundIn
<1>5. SUFFICES ASSUME Reads(m) PROVE FALSE
  OBVIOUS
<1>6. /\ Given(m, "broken") = {} /\ Fits32(m, "root_key_id")
      /\ Cardinality(Given(m, "authority")) = 1 /\ Strictly(m, "authority", "bytes")
      /\ Cardinality(Given(m, "proof")) = 1 /\ Strictly(m, "proof", "bytes")
      /\ Strictly(m, "blocks", "bytes")
  BY <1>5 DEF Reads, Whole
<1>7. \A is, wire : Strictly(m, is, wire) /\ f.is = is => f.wire = wire
  BY <1>3 DEF Strictly, OfWire
<1>8. CASE f.is = "broken"
  BY <1>3, <1>6, <1>8
<1>9. CASE f.is = "root_key_id"
  <2>1. f.wire = "varint" /\ f.value <= Word
    BY <1>3, <1>6, <1>7, <1>9 DEF Fits32
  <2> QED
    BY <1>9, <2>1
<1>10. CASE f.is \in {"authority", "blocks", "proof"}
  BY <1>4, <1>6, <1>7, <1>10
<1> QED
  BY <1>2, <1>8, <1>9, <1>10

\* Once all fields are passed, what was found is what the schema names.
LEMMA FoundAll ==
  ASSUME NEW m, TokenMessage(m), NEW r, NEW a, NEW p, FoundIn(m, r, a, p, Len(m))
  PROVE  /\ a = Absent \/ p = Absent => ~Reads(m)
         /\ a # Absent => a = <<LastValue(m, Given(m, "authority"))>>
         /\ p # Absent => p = <<LastValue(m, Given(m, "proof"))>>
         /\ r = IF Given(m, "root_key_id") = {} THEN <<>>
                ELSE <<LastValue(m, Given(m, "root_key_id"))>>
         /\ a # Absent /\ p # Absent =>
              (Reads(m) <=> /\ BlockReads(a[1], TRUE)
                            /\ \A n \in Given(m, "blocks") : BlockReads(m[n].value, FALSE)
                            /\ ProofReads(p[1]))
<1>1. Len(m) \in Nat /\ DOMAIN m = 1 .. Len(m)
  BY MessageSized DEF TokenMessage
<1>2. /\ a = Absent => Cardinality(Given(m, "authority")) # 1
      /\ a # Absent => /\ Cardinality(Given(m, "authority")) = 1
                       /\ a = <<LastValue(m, Given(m, "authority"))>>
      /\ p = Absent => Cardinality(Given(m, "proof")) # 1
      /\ p # Absent => /\ Cardinality(Given(m, "proof")) = 1
                       /\ p = <<LastValue(m, Given(m, "proof"))>>
  BY <1>1, OneLast DEF FoundIn
<1>3. r = IF Given(m, "root_key_id") = {} THEN <<>>
          ELSE <<LastValue(m, Given(m, "root_key_id"))>>
  <2>1. LastUpTo(r, m, Given(m, "root_key_id"), Len(m))
    BY DEF FoundIn
  <2>2. Given(m, "root_key_id") \subseteq 1 .. Len(m)
    BY <1>1, GivenWithin
  <2> QED
    BY <1>1, <2>1, <2>2, LastIsLast DEF Absent
<1>4. \A k \in 1 .. Len(m) : FieldReads(m[k])
  BY DEF FoundIn
<1>5. Whole(m)
  BY <1>1, <1>4 DEF Whole, Given, FieldReads
<1>6. Fits32(m, "root_key_id")
  BY <1>1, <1>4 DEF Fits32, Strictly, OfWire, Given, FieldReads
<1>7. \A is \in {"authority", "blocks", "proof"} : Strictly(m, is, "bytes")
  BY <1>1, <1>4 DEF Strictly, OfWire, Given, FieldReads
<1>8. Reads(m)
        <=> /\ \A is \in {"authority", "proof"} : Cardinality(Given(m, is)) = 1
            /\ BlockReads(LastValue(m, Given(m, "authority")), TRUE)
            /\ \A n \in Given(m, "blocks") : BlockReads(m[n].value, FALSE)
            /\ ProofReads(LastValue(m, Given(m, "proof")))
  BY <1>5, <1>6, <1>7 DEF Reads
<1>9. CASE a = Absent \/ p = Absent
  BY <1>2, <1>3, <1>8, <1>9
<1>10. CASE a # Absent /\ p # Absent
  <2>1. a[1] = LastValue(m, Given(m, "authority")) /\ p[1] = LastValue(m, Given(m, "proof"))
    BY <1>2, <1>10
  <2> QED
    BY <1>2, <1>3, <1>8, <1>10, <2>1
<1> QED
  BY <1>9, <1>10

\* The parts of a token are messages of their own.
LEMMA PartsAreMessages ==
  ASSUME NEW m, TokenMessage(m), NEW k \in 1 .. Len(m), FieldReads(m[k])
  PROVE  /\ m[k].is \in {"authority", "blocks"} => BlockMessage(m[k].value)
         /\ m[k].is = "proof" => ProofMessage(m[k].value)
<1>1. m[k] \in ToSet(m)
  BY MessageSized DEF TokenMessage, ToSet
<1>2. /\ m[k].is \in {"authority", "blocks"} =>
           m[k].value \in Nested(m, "authority") \cup Nested(m, "blocks")
      /\ m[k].is = "proof" => m[k].value \in Nested(m, "proof")
  BY <1>1 DEF Nested, FieldReads
<1> QED
  BY <1>2 DEF TokenMessage

LEMMA FoundAreMessages ==
  ASSUME NEW m, TokenMessage(m), NEW r, NEW a, NEW p, FoundIn(m, r, a, p, Len(m))
  PROVE  /\ a # Absent => BlockMessage(a[1])
         /\ p # Absent => ProofMessage(p[1])
<1>1. Len(m) \in Nat /\ DOMAIN m = 1 .. Len(m)
  BY MessageSized DEF TokenMessage
<1>2. ASSUME NEW v, NEW is, OneUpTo(v, m, is, Len(m)), v # Absent
      PROVE  \E k \in 1 .. Len(m) : m[k].is = is /\ v[1] = m[k].value
  <2>1. PICK k \in Given(m, is) : v = <<m[k].value>>
    BY <1>2 DEF OneUpTo, LastUpTo
  <2> QED
    BY <1>1, <2>1 DEF Given
<1> QED
  BY <1>1, <1>2, PartsAreMessages DEF FoundIn

LEMMA CountIsNat ==
  ASSUME NEW m, NEW n \in Nat
  PROVE  Count(m, n) \in Nat
<1>1. IsFiniteSet(1 .. n)
  BY FS_Interval
<1>2. IsFiniteSet({k \in 1 .. n : IsBlock(m[k])})
  BY <1>1, FS_Subset
<1> QED
  BY <1>2, FS_CardinalityType DEF Count

LEMMA CountGrows ==
  ASSUME NEW m, NEW n \in Nat \ {0}
  PROVE  /\ \A k \in 1 .. n : Count(m, k) <= Count(m, n)
         /\ IsBlock(m[n]) => Count(m, n) = Count(m, n - 1) + 1
         /\ ~IsBlock(m[n]) => Count(m, n) = Count(m, n - 1)
<1> DEFINE S(l) == {k \in 1 .. l : IsBlock(m[k])}
<1>1. \A l \in Nat : IsFiniteSet(S(l))
  <2> TAKE l \in Nat
  <2>1. IsFiniteSet(1 .. l)
    BY FS_Interval
  <2> QED
    BY <2>1, FS_Subset
<1>2. \A l : Count(m, l) = Cardinality(S(l))
  BY DEF Count
<1>3. \A k \in 1 .. n : S(k) \subseteq S(n)
  OBVIOUS
<1>4. n \in Nat /\ n - 1 \in Nat /\ \A k \in 1 .. n : k \in Nat
  OBVIOUS
<1>5. IsBlock(m[n]) => S(n) = S(n - 1) \cup {n} /\ n \notin S(n - 1)
  OBVIOUS
<1>6. ~IsBlock(m[n]) => S(n) = S(n - 1)
  OBVIOUS
<1> HIDE DEF S
<1>7. \A k \in 1 .. n : Count(m, k) <= Count(m, n)
  BY <1>1, <1>2, <1>3, <1>4, FS_Subset
<1>8. IsBlock(m[n]) => Cardinality(S(n)) = Cardinality(S(n - 1)) + 1
  BY <1>1, <1>4, <1>5, FS_AddElement
<1> QED
  BY <1>2, <1>6, <1>7, <1>8

\* The second pass decodes the authority,
LEMMA DecodedStart ==
  ASSUME NEW m, NEW a, NEW b, BlockReads(a[1], TRUE), b = BlockRead(a[1])
  PROVE  DecodedIn(m, a, Append(<<>>, b), 0)
<1>1. PICK bs : bs = Append(<<>>, b)
  OBVIOUS
<1>2. bs[1] = b
  BY <1>1
<1>3. \A k \in 1 .. 0 : FALSE
  OBVIOUS
<1>4. DecodedIn(m, a, bs, 0)
  BY <1>2, <1>3 DEF DecodedIn
<1> QED
  BY <1>1, <1>4

\* and each block behind the ones before.
LEMMA DecodedStep ==
  ASSUME NEW m, Len(m) \in Nat, NEW n \in 1 .. Len(m), NEW a, NEW bs,
         NEW S, bs \in Seq(S), Len(bs) = Count(m, n - 1) + 1, DecodedIn(m, a, bs, n - 1)
  PROVE  /\ ~IsBlock(m[n]) => DecodedIn(m, a, bs, n)
         /\ IsBlock(m[n]) /\ BlockReads(m[n].value, FALSE) =>
              DecodedIn(m, a, Append(bs, BlockRead(m[n].value)), n)
<1>1. 1 .. n = (1 .. n - 1) \cup {n} /\ n \in Nat \ {0} /\ n - 1 \in Nat
  OBVIOUS
<1>2. ASSUME ~IsBlock(m[n]) PROVE DecodedIn(m, a, bs, n)
  BY <1>1, <1>2 DEF DecodedIn
<1>3. ASSUME IsBlock(m[n]), BlockReads(m[n].value, FALSE)
      PROVE  DecodedIn(m, a, Append(bs, BlockRead(m[n].value)), n)
  <2> DEFINE b == BlockRead(m[n].value)
             cs == Append(bs, b)
  <2>1. /\ \A k \in 1 .. Len(bs) : cs[k] = bs[k]
        /\ cs[Len(bs) + 1] = b /\ Len(bs) \in Nat
    <3>1. bs \in Seq(S \cup {b})
      BY SeqMonotonic
    <3> QED
      BY <3>1, AppendProperties, LenProperties
  <2>2. Count(m, n - 1) \in Nat
    BY <1>1, CountIsNat
  <2>3. cs[1] = bs[1]
    BY <2>1, <2>2
  <2>4. ASSUME NEW k \in 1 .. n - 1, IsBlock(m[k])
        PROVE  BlockReads(m[k].value, FALSE) /\ cs[Count(m, k) + 1] = BlockRead(m[k].value)
    <3>1. n - 1 \in Nat \ {0} /\ k \in Nat
      OBVIOUS
    <3>2. Count(m, k) \in Nat /\ Count(m, k) <= Count(m, n - 1)
      BY <3>1, CountIsNat, CountGrows
    <3>3. Count(m, k) + 1 \in 1 .. Len(bs)
      BY <2>1, <2>2, <3>2
    <3>4. BlockReads(m[k].value, FALSE) /\ bs[Count(m, k) + 1] = BlockRead(m[k].value)
      BY <2>4 DEF DecodedIn
    <3> QED
      BY <2>1, <3>3, <3>4
  <2>5. cs[Count(m, n) + 1] = b
    <3>1. Count(m, n) = Count(m, n - 1) + 1
      BY <1>1, <1>3, CountGrows
    <3> QED
      BY <2>1, <3>1
  <2>6. BlockReads(a[1], TRUE) /\ cs[1] = BlockRead(a[1])
    BY <2>3 DEF DecodedIn
  <2> HIDE DEF cs
  <2>7. \A k \in 1 .. n : IsBlock(m[k]) =>
          BlockReads(m[k].value, FALSE) /\ cs[Count(m, k) + 1] = BlockRead(m[k].value)
    BY <1>1, <1>3, <2>4, <2>5
  <2> QED
    BY <2>6, <2>7 DEF DecodedIn, cs
<1> QED
  BY <1>2, <1>3

\* The places of a finite set can be counted off.
LEMMA NthIs ==
  ASSUME NEW L \in Nat, NEW ns, ns \subseteq 1 .. L, NEW n \in 1 .. Cardinality(ns)
  PROVE  /\ Nth(ns, n) \in ns
         /\ Cardinality({j \in ns : j < Nth(ns, n)}) = n - 1
<1> DEFINE B(l) == {j \in ns : j <= l}
           C(k) == Cardinality({j \in ns : j < k})
           S == {l \in 0 .. L : \A i \in 1 .. Cardinality(B(l)) : \E k \in ns : C(k) = i - 1}
<1>5. \A j \in ns : j \in Nat /\ 1 <= j /\ j <= L
  OBVIOUS
<1>1. \A l : IsFiniteSet(B(l))
  <2>1. IsFiniteSet(1 .. L)
    BY FS_Interval
  <2>2. IsFiniteSet(ns)
    BY <2>1, FS_Subset
  <2> QED
    BY <2>2, FS_Subset
<1>2. 0 \in S
  <2>1. B(0) = {}
    <3>1. \A j \in ns : ~(j <= 0)
      BY <1>5
    <3> QED
      BY <3>1
  <2>2. Cardinality(B(0)) = 0
    BY <2>1, FS_EmptySet
  <2> QED
    BY <2>2
<1>3. ASSUME NEW l \in 1 .. L, l - 1 \in S PROVE l \in S
  <2>1. CASE l \notin ns
    <3>1. \A j \in ns : j <= l <=> j <= l - 1
      BY <1>5, <2>1
    <3>2. B(l) = B(l - 1)
      BY <3>1
    <3> QED
      BY <1>3, <3>2
  <2>2. CASE l \in ns
    <3>6. /\ \A j \in ns : (j <= l <=> j <= l - 1 \/ j = l) /\ (j <= l - 1 <=> j < l)
          /\ ~(l <= l - 1)
      BY <1>5
    <3>1. B(l) = B(l - 1) \cup {l} /\ l \notin B(l - 1) /\ B(l - 1) = {j \in ns : j < l}
      BY <2>2, <3>6
    <3> DEFINE c == Cardinality(B(l - 1))
    <3>2. Cardinality(B(l)) = c + 1 /\ c \in Nat
      BY <1>1, <3>1, FS_AddElement, FS_CardinalityType
    <3>3. C(l) = c
      BY <3>1
    <3>4. \A i \in 1 .. c : \E k \in ns : C(k) = i - 1
      BY <1>3
    <3> HIDE DEF c, C, B
    <3>5. ASSUME NEW i \in 1 .. c + 1 PROVE \E k \in ns : C(k) = i - 1
      <4>1. CASE i \in 1 .. c
        BY <3>4, <4>1
      <4>2. CASE i = c + 1
        BY <2>2, <3>2, <3>3, <4>2
      <4> QED
        BY <3>2, <4>1, <4>2
    <3> QED
      BY <3>2, <3>5
  <2> QED
    BY <2>1, <2>2
<1>4. S = 0 .. L
  <2>1. S \subseteq 0 .. L
    OBVIOUS
  <2> HIDE DEF S
  <2> QED
    BY <1>2, <1>3, <2>1, UpTo
<1>6. B(L) = ns
  BY <1>5
<1>7. \E k \in ns : C(k) = n - 1
  BY <1>4, <1>6
<1> QED
  BY <1>7 DEF Nth

\* The n-th block that is appended is the n-th that is decoded.
LEMMA NthDecoded ==
  ASSUME NEW m, TokenMessage(m), NEW r, NEW a, NEW p, FoundIn(m, r, a, p, Len(m))
  PROVE  LET rest == Given(m, "blocks")
         IN  /\ Count(m, Len(m)) = Cardinality(rest)
             /\ \A n \in 1 .. Cardinality(rest) :
                  LET k == Nth(rest, n)
                  IN  k \in 1 .. Len(m) /\ IsBlock(m[k]) /\ Count(m, k) = n
<1> DEFINE rest == Given(m, "blocks")
<1>1. Len(m) \in Nat /\ DOMAIN m = 1 .. Len(m)
  BY MessageSized DEF TokenMessage
<1>2. rest \subseteq 1 .. Len(m)
  BY <1>1, GivenWithin
<1>3. \A k \in 1 .. Len(m) : IsBlock(m[k]) <=> k \in rest
  BY <1>1 DEF FoundIn, FieldReads, IsBlock, Given
<1>4. Count(m, Len(m)) = Cardinality(rest)
  <2>1. {k \in 1 .. Len(m) : IsBlock(m[k])} = rest
    BY <1>2, <1>3
  <2> QED
    BY <2>1 DEF Count
<1>5. ASSUME NEW n \in 1 .. Cardinality(rest)
      PROVE  Nth(rest, n) \in rest /\ Count(m, Nth(rest, n)) = n
  <2>1. PICK k : k = Nth(rest, n)
    OBVIOUS
  <2>2. k \in rest /\ Cardinality({j \in rest : j < k}) = n - 1
    BY <1>1, <1>2, <2>1, NthIs
  <2>7. /\ \A j \in rest : j \in 1 .. Len(m) /\ j \in Nat /\ 1 <= j
        /\ k \in 1 .. Len(m) /\ k \in Nat /\ k <= Len(m)
    BY <1>1, <1>2, <2>2
  <2> HIDE DEF rest
  <2>8. \A j : j \in 1 .. k /\ IsBlock(m[j]) <=> j \in rest /\ (j < k \/ j = k)
    <3>1. \A j \in 1 .. k : j \in 1 .. Len(m) /\ (j < k \/ j = k)
      BY <1>1, <2>7
    <3>2. \A j \in rest : j < k \/ j = k => j \in 1 .. k
      BY <2>7
    <3> QED
      BY <1>3, <2>2, <3>1, <3>2
  <2>3. {j \in 1 .. k : IsBlock(m[j])} = {j \in rest : j < k} \cup {k}
    BY <2>2, <2>8
  <2>4. k \notin {j \in rest : j < k}
    BY <1>2, <2>2
  <2>5. IsFiniteSet({j \in rest : j < k})
    <3>1. IsFiniteSet(1 .. Len(m))
      BY <1>1, FS_Interval
    <3>2. {j \in rest : j < k} \subseteq 1 .. Len(m)
      BY <1>2
    <3> QED
      BY <3>1, <3>2, FS_Subset
  <2>6. Count(m, k) = n - 1 + 1
    BY <2>2, <2>3, <2>4, <2>5, FS_AddElement DEF Count
  <2> QED
    BY <2>1, <2>2, <2>6
<1> QED
  BY <1>2, <1>3, <1>4, <1>5

\* What is handed out once the proof is decoded is what the schema reads.
LEMMA ReadsAll ==
  ASSUME NEW m, TokenMessage(m), NEW r, NEW a, NEW p, FoundIn(m, r, a, p, Len(m)),
         a # Absent, p # Absent,
         NEW S, NEW bs \in Seq(S), Len(bs) = Count(m, Len(m)) + 1,
         DecodedIn(m, a, bs, Len(m))
  PROVE  LET d == DecodeProof(p[1])
         IN  /\ d.st \in {"OK", "MALFORMED"}
             /\ d.st = "OK" <=> Reads(m)
             /\ Reads(m) => Read(m) = [root_key_id |-> r, blocks |-> bs,
                                       sealed |-> d.sealed, proof |-> d.proof]
<1> DEFINE d == DecodeProof(p[1])
           rest == Given(m, "blocks")
           end == LastValue(m, Given(m, "proof"))
           first == LastValue(m, Given(m, "authority"))
           tail == [n \in 1 .. Cardinality(rest) |-> BlockRead(m[Nth(rest, n)].value)]
<1>1. Len(m) \in Nat /\ DOMAIN m = 1 .. Len(m)
  BY MessageSized DEF TokenMessage
<1>2. a[1] = first /\ p[1] = end
  <2>1. a = <<first>> /\ p = <<end>>
    BY FoundAll
  <2> QED
    BY <2>1
<1>3. /\ d.st \in {"OK", "MALFORMED"} /\ (d.st = "OK" <=> ProofReads(end))
      /\ ProofReads(end) =>
           /\ d.sealed = (OfWire(end, "final_signature", "bytes") # {})
           /\ d.proof = LastValue(end, OfWire(end,
                IF OfWire(end, "final_signature", "bytes") # {}
                THEN "final_signature" ELSE "next_secret", "bytes"))
  BY <1>2, ProofDecodes, FoundAreMessages
<1>4. \A n \in rest : BlockReads(m[n].value, FALSE)
  <2>1. \A k \in rest : k \in 1 .. Len(m) /\ IsBlock(m[k])
    BY <1>1 DEF FoundIn, FieldReads, IsBlock, Given
  <2> QED
    BY <2>1 DEF DecodedIn
<1>5. Reads(m) <=> ProofReads(end)
  BY <1>2, <1>4, FoundAll DEF DecodedIn
<1>6. <<BlockRead(first)>> \o tail = bs
  <2>1. Len(bs) = Cardinality(rest) + 1 /\ Cardinality(rest) \in Nat
    BY <1>1, NthDecoded, CountIsNat
  <2>2. Len(tail) = Cardinality(rest) /\ Len(<<BlockRead(first)>>) = 1
    BY <2>1
  <2>3. bs[1] = BlockRead(first)
    BY <1>2 DEF DecodedIn
  <2>4. ASSUME NEW n \in 1 .. Cardinality(rest)
        PROVE  bs[n + 1] = tail[n]
    <3>1. PICK k : k = Nth(rest, n)
      OBVIOUS
    <3>2. k \in 1 .. Len(m) /\ IsBlock(m[k]) /\ Count(m, k) = n
      BY <3>1, NthDecoded
    <3>3. bs[Count(m, k) + 1] = BlockRead(m[k].value)
      BY <3>2 DEF DecodedIn
    <3> QED
      BY <3>1, <3>2, <3>3
  <2>5. bs = [n \in 1 .. Cardinality(rest) + 1 |-> bs[n]]
    BY <2>1
  <2>6. <<BlockRead(first)>> \o tail
          = [n \in 1 .. Cardinality(rest) + 1 |->
               IF n = 1 THEN BlockRead(first) ELSE tail[n - 1]]
    <3> HIDE DEF tail
    <3> QED
      BY <2>1, <2>2
  <2> HIDE DEF tail
  <2>7. ASSUME NEW n \in 1 .. Cardinality(rest) + 1
        PROVE  bs[n] = IF n = 1 THEN BlockRead(first) ELSE tail[n - 1]
    <3>1. CASE n = 1
      BY <2>3, <3>1
    <3>2. CASE n # 1
      <4>1. n - 1 \in 1 .. Cardinality(rest) /\ n - 1 + 1 = n
        BY <2>1, <3>2
      <4> QED
        BY <2>4, <3>2, <4>1
    <3> QED
      BY <3>1, <3>2
  <2> QED
    BY <2>5, <2>6, <2>7
<1>7. r = IF Given(m, "root_key_id") = {} THEN <<>>
          ELSE <<LastValue(m, Given(m, "root_key_id"))>>
  BY FoundAll
<1>8. Reads(m) => Read(m) = [root_key_id |-> r, blocks |-> bs,
                             sealed |-> d.sealed, proof |-> d.proof]
  <2> SUFFICES ASSUME Reads(m)
               PROVE  Read(m) = [root_key_id |-> r, blocks |-> bs,
                                 sealed |-> d.sealed, proof |-> d.proof]
    OBVIOUS
  <2>1. Read(m) = [root_key_id |-> IF Given(m, "root_key_id") = {} THEN <<>>
                                   ELSE <<LastValue(m, Given(m, "root_key_id"))>>,
                   blocks |-> <<BlockRead(first)>> \o tail,
                   sealed |-> OfWire(end, "final_signature", "bytes") # {},
                   proof |-> LastValue(end, OfWire(end,
                     IF OfWire(end, "final_signature", "bytes") # {}
                     THEN "final_signature" ELSE "next_secret", "bytes"))]
    BY DEF Read
  <2> HIDE DEF d, tail, end, first
  <2> QED
    BY <1>3, <1>5, <1>6, <1>7, <2>1
<1> QED
  BY <1>3, <1>5, <1>8

-----------------------------------------------------------------------------
(* Counting the appended blocks.                                           *)

LEMMA AppendedIsNat ==
  ASSUME NEW n \in Nat
  PROVE  Appended(n) \in Nat
<1>1. IsFiniteSet(1 .. n)
  BY FS_Interval
<1>2. IsFiniteSet({k \in 1 .. n : IsBlock(input[k])})
  BY <1>1, FS_Subset
<1> QED
  BY <1>2, FS_CardinalityType DEF Appended

LEMMA NoneAppended == Appended(0) = 0
<1>1. {k \in 1 .. 0 : IsBlock(input[k])} = {}
  OBVIOUS
<1> QED
  BY <1>1, FS_EmptySet DEF Appended

LEMMA AppendedStep ==
  ASSUME NEW n \in Nat \ {0}
  PROVE  Appended(n) = IF IsBlock(input[n]) THEN Appended(n - 1) + 1
                       ELSE Appended(n - 1)
<1> DEFINE S(m) == {k \in 1 .. m : IsBlock(input[k])}
<1>1. IsFiniteSet(S(n - 1))
  <2>1. IsFiniteSet(1 .. n - 1)
    BY FS_Interval
  <2> QED
    BY <2>1, FS_Subset
<1>2. CASE IsBlock(input[n])
  <2>1. S(n) = S(n - 1) \cup {n} /\ n \notin S(n - 1)
    BY <1>2
  <2>2. Cardinality(S(n - 1) \cup {n}) = Cardinality(S(n - 1)) + 1
    BY <1>1, <2>1, FS_AddElement
  <2> QED
    BY <1>2, <2>1, <2>2 DEF Appended
<1>3. CASE ~IsBlock(input[n])
  <2>1. S(n) = S(n - 1)
    BY <1>3
  <2> QED
    BY <1>3, <2>1 DEF Appended
<1> QED
  BY <1>2, <1>3

-----------------------------------------------------------------------------
(* What the decoders hand back.                                            *)

\* A block that decodes fits.
LEMMA DecodedFits ==
  ASSUME NEW m, NEW first, DecodeBlock(m, first).st = "OK"
  PROVE  Fits(SignedBlock(DecodeBlock(m, first)))
<1> DEFINE s == BlockScan(m, first)
<1>1. DecodeBlock(m, first) = BlockOf(s)
  BY DEF DecodeBlock
<1> HIDE DEF s
<1>2. CASE s.st # "OK"
  <2>1. BlockOf(s) = s
    BY <1>2 DEF BlockOf
  <2> QED
    BY <1>1, <1>2, <2>1
<1>3. CASE /\ s.st = "OK" /\ s.block # Absent /\ s.next_key # Absent /\ s.signature # Absent
           /\ IsSig(s.signature[1]) /\ ExternalFits(s)
  <2>1. BlockOf(s) = [st |-> "OK", block |-> s.block[1], next_key |-> s.next_key[1],
                      signature |-> s.signature[1], external |-> s.external,
                      version |-> s.version]
    BY <1>3 DEF BlockOf
  <2> QED
    BY <1>1, <1>3, <2>1 DEF SignedBlock, Fits, ExternalFits
<1>4. CASE s.st = "OK" /\ ~(/\ s.block # Absent /\ s.next_key # Absent /\ s.signature # Absent
                            /\ IsSig(s.signature[1]) /\ ExternalFits(s))
  <2>1. BlockOf(s) = Refused("MALFORMED")
    BY <1>4 DEF BlockOf
  <2> QED
    BY <1>1, <2>1 DEF Refused
<1> QED
  BY <1>2, <1>3, <1>4

LEMMA DecodedProofFits ==
  ASSUME NEW m, DecodeProof(m).st = "OK"
  PROVE  ProofFits(DecodeProof(m).sealed, DecodeProof(m).proof)
<1> DEFINE s == ProofScan(m)
<1>1. DecodeProof(m) = ProofOf(s)
  BY DEF DecodeProof
<1> HIDE DEF s
<1>2. CASE s.st # "OK"
  <2>1. ProofOf(s) = s
    BY <1>2 DEF ProofOf
  <2> QED
    BY <1>1, <1>2, <2>1
<1>3. CASE s.st = "OK" /\ OneKind(s) /\ ProofFits(s.sealed, s.proof[1])
  <2>1. ProofOf(s) = [st |-> "OK", sealed |-> s.sealed, proof |-> s.proof[1]]
    BY <1>3 DEF ProofOf
  <2> QED
    BY <1>1, <1>3, <2>1
<1>4. CASE s.st = "OK" /\ ~(OneKind(s) /\ ProofFits(s.sealed, s.proof[1]))
  <2>1. ProofOf(s) = Refused("MALFORMED")
    BY <1>4 DEF ProofOf
  <2> QED
    BY <1>1, <2>1 DEF Refused
<1> QED
  BY <1>2, <1>3, <1>4

-----------------------------------------------------------------------------
(* The parser.                                                             *)

\* What of the input is relied on.
Sized == Len(input) \in Nat

\* What the input alone decides stays as it is.
LEMMA SameInput ==
  ASSUME input' = input
  PROVE  /\ \A n \in Nat : Appended(n)' = Appended(n)
         /\ \A n \in Nat : Readable(n)' = Readable(n)
         /\ Sized' = Sized
BY DEF Appended, Readable, Sized

\* What the first pass needs when it moves on.
LEMMA PassesOn ==
  ASSUME Sized, ParseInv, AtField, Field.is # "broken", GoOn,
         appended' = IF IsBlock(Field) THEN appended + 1 ELSE appended
  PROVE  ParseInv'
<1>1. /\ cursor \in 1 .. Len(input) /\ cursor' = cursor + 1 /\ input' = input
      /\ cursor \in Nat \ {0} /\ Len(input) \in Nat /\ cursor - 1 \in Nat
  BY DEF Sized, ParseInv, AtField, FieldsLeft, GoOn
<1>2. Appended(cursor) = IF IsBlock(Field) THEN Appended(cursor - 1) + 1
                         ELSE Appended(cursor - 1)
  BY <1>1, AppendedStep DEF Field
<1>3. appended = Appended(cursor - 1) /\ Readable(cursor - 1)
  BY DEF ParseInv, AtField
<1>4. Readable(cursor)
  BY <1>1, <1>3 DEF Readable, Field
<1>5. /\ pc = "locate" /\ pc' = pc /\ blocks = <<>> /\ blocks' = blocks
      /\ token = Absent /\ token' = token
  BY DEF ParseInv, AtField, GoOn
<1>6. (appended = Appended(cursor - 1))'
  <2>1. appended' = Appended(cursor)
    BY <1>2, <1>3
  <2>2. Appended(cursor - 1)' = Appended(cursor)
    BY <1>1 DEF Appended
  <2> QED
    BY <2>1, <2>2
<1>7. Readable(cursor - 1)'
  BY <1>1, <1>4 DEF Readable
<1>8. (cursor \in 1 .. Len(input) + 1)'
  BY <1>1
<1>9. (blocks \in Seq(ToSet(blocks)) /\ \A b \in ToSet(blocks) : Fits(b))'
  BY <1>5 DEF ParseInv
<1> QED
  BY <1>5, <1>6, <1>7, <1>8, <1>9 DEF ParseInv

LEMMA ParseInvStart ==
  ASSUME Sized, ParseStart
  PROVE  ParseInv
<1>1. Appended(0) = 0
  BY NoneAppended
<1>2. blocks \in Seq(ToSet(blocks)) /\ \A b \in ToSet(blocks) : Fits(b)
  BY DEF ParseStart, ToSet
<1> QED
  BY <1>1, <1>2 DEF ParseStart, ParseInv, Sized, Readable, Absent

\* One more decoded block.
LEMMA TakesOne ==
  ASSUME ParseInv, NEW b, Fits(b), blocks' = Append(blocks, b)
  PROVE  /\ Len(blocks') = Len(blocks) + 1
         /\ blocks' \in Seq(ToSet(blocks'))
         /\ \A c \in ToSet(blocks') : Fits(c)
         /\ Len(blocks) \in Nat
<1> DEFINE S == ToSet(blocks) \cup {b}
<1>1. blocks \in Seq(S)
  BY SeqMonotonic DEF ParseInv
<1>2. /\ Len(blocks') = Len(blocks) + 1 /\ blocks' \in Seq(S)
      /\ \A n \in 1 .. Len(blocks) : blocks'[n] = blocks[n]
      /\ blocks'[Len(blocks) + 1] = b
  BY <1>1, AppendProperties
<1>3. DOMAIN blocks' = 1 .. Len(blocks) + 1 /\ DOMAIN blocks = 1 .. Len(blocks)
      /\ Len(blocks) \in Nat
  BY <1>1, <1>2, LenProperties
<1>4. \A c \in ToSet(blocks') : Fits(c)
  <2> SUFFICES ASSUME NEW n \in 1 .. Len(blocks) + 1
               PROVE  Fits(blocks'[n])
    BY <1>3 DEF ToSet
  <2>1. CASE n = Len(blocks) + 1
    BY <1>2, <2>1
  <2>2. CASE n \in 1 .. Len(blocks)
    BY <1>2, <1>3, <2>2 DEF ParseInv, ToSet
  <2> QED
    BY <1>3, <2>1, <2>2
<1>5. blocks' \in Seq(ToSet(blocks'))
  <2>1. \A n \in 1 .. Len(blocks') : blocks'[n] \in ToSet(blocks')
    BY <1>2, <1>3 DEF ToSet
  <2> QED
    BY <1>2, <2>1, ElementOfSeq, LenProperties
<1> QED
  BY <1>2, <1>3, <1>4, <1>5

\* When the input, the decoded blocks and the token stay, only where the
\* parser is matters.
LEMMA OnlyMoves ==
  ASSUME Sized, ParseInv, UNCHANGED <<input, cursor, appended, authority, proof, blocks, token>>
  PROVE  /\ pc' \notin {"locate", "authority", "decode"} => ParseInv'
         /\ pc' = pc => ParseInv'
<1>1. /\ Appended(Len(input))' = Appended(Len(input))
      /\ Readable(Len(input))' = Readable(Len(input))
      /\ Appended(cursor - 1)' = Appended(cursor - 1)
      /\ Readable(cursor - 1)' = Readable(cursor - 1)
  BY DEF Appended, Readable
<1>2. Missing' = Missing /\ TooMany' = TooMany
  BY DEF Missing, TooMany
<1>3. (blocks \in Seq(ToSet(blocks)) /\ \A b \in ToSet(blocks) : Fits(b))'
  BY DEF ParseInv
<1>4. (token # Absent =>
         /\ token[1].blocks = blocks
         /\ Len(blocks) = Appended(Len(input)) + 1 /\ Len(blocks) <= MaxBlocks
         /\ ProofFits(token[1].sealed, token[1].proof))'
  BY <1>1 DEF ParseInv, ProofFits
<1>5. CASE pc' \notin {"locate", "authority", "decode"}
  BY <1>1, <1>2, <1>3, <1>4, <1>5 DEF ParseInv
<1>6. CASE pc' = pc
  BY <1>1, <1>2, <1>3, <1>4, <1>6 DEF ParseInv
<1> QED
  BY <1>5, <1>6

\* At the end of a pass the cursor is past the last field.
LEMMA AtTheEnd ==
  ASSUME Sized, ParseInv, ~FieldsLeft
  PROVE  cursor = Len(input) + 1 /\ cursor - 1 = Len(input)
BY DEF Sized, ParseInv, FieldsLeft

\* The second pass goes on: it is at the field c, after as many blocks as
\* stand before it.
LEMMA DecodesOn ==
  ASSUME Sized, ParseInv, pc \in {"authority", "decode"},
         NEW b, Take(b, cursor'), b.st = "OK" => Fits(SignedBlock(b)),
         UNCHANGED <<input, foundVars, token>>,
         b.st = "OK" => /\ cursor' \in 1 .. Len(input) + 1
                        /\ Len(blocks) = Appended(cursor' - 1)
  PROVE  ParseInv'
<1>1. CASE b.st # "OK"
  <2>1. /\ UNCHANGED <<input, cursor, appended, authority, proof, blocks, token>>
        /\ pc' = "stopped"
    BY <1>1 DEF Take, Fail, foundVars
  <2> QED
    BY <2>1, OnlyMoves
<1>2. CASE b.st = "OK"
  <2>1. blocks' = Append(blocks, SignedBlock(b)) /\ pc' = "decode"
    BY <1>2 DEF Take
  <2>2. /\ Len(blocks') = Len(blocks) + 1 /\ blocks' \in Seq(ToSet(blocks'))
        /\ \A c \in ToSet(blocks') : Fits(c)
    BY <1>2, <2>1, TakesOne
  <2>3. (blocks \in Seq(ToSet(blocks)) /\ \A c \in ToSet(blocks) : Fits(c))'
    BY <2>2 DEF Fits
  <2>4. /\ cursor' - 1 \in Nat /\ Len(input) \in Nat
    BY <1>2 DEF Sized
  <2>5. (Len(blocks) = Appended(cursor - 1) + 1)'
    BY <1>2, <2>2 DEF Appended
  <2>6. /\ appended' = appended /\ input' = input /\ token' = token /\ token = Absent
        /\ authority' = authority /\ proof' = proof
    BY DEF foundVars, ParseInv
  <2>7. /\ (appended = Appended(Len(input)))' /\ Readable(Len(input))'
        /\ (~Missing /\ ~TooMany)'
    BY <2>6 DEF ParseInv, Appended, Readable, Missing, TooMany
  <2>8. (cursor \in 1 .. Len(input) + 1)'
    BY <1>2, <2>6
  <2> QED
    BY <2>1, <2>3, <2>5, <2>6, <2>7, <2>8 DEF ParseInv
<1> QED
  BY <1>1, <1>2

LEMMA ParseStepKeeps ==
  ASSUME Sized, ParseInv, ParseStep
  PROVE  ParseInv'
<1>1. CASE LocateRootKeyId
  BY <1>1, PassesOn DEF LocateRootKeyId, IsRootKeyId, IsBlock
<1>2. CASE LocateAuthority
  BY <1>2, PassesOn DEF LocateAuthority, IsAuthority, IsBlock
<1>3. CASE CountBlock
  BY <1>3, PassesOn DEF CountBlock, IsAppended, IsBlock
<1>4. CASE LocateProof
  BY <1>4, PassesOn DEF LocateProof, IsProof, IsBlock
<1>5. CASE PassUnknown
  BY <1>5, PassesOn DEF PassUnknown, IsUnknown, IsBlock, foundVars
<1>6. CASE RefuseField
  BY <1>6, OnlyMoves DEF RefuseField, Fail, foundVars
<1>7. CASE Located
  <2>1. CASE pc' # "authority"
    BY <1>7, <2>1, OnlyMoves DEF Located, Fail, foundVars
  <2>2. CASE pc' = "authority"
    <3>1. cursor - 1 = Len(input)
      BY <1>7, AtTheEnd DEF Located
    <3>2. appended = Appended(Len(input)) /\ Readable(Len(input))
      BY <1>7, <3>1 DEF Located, ParseInv
    <3>3. /\ UNCHANGED <<input, cursor, appended, authority, proof, blocks, token>>
          /\ ~Missing /\ ~TooMany /\ blocks = <<>> /\ token = Absent
      BY <1>7 DEF Located, foundVars, ParseInv
    <3>4. /\ (appended = Appended(Len(input)))' /\ Readable(Len(input))'
          /\ (~Missing /\ ~TooMany)' /\ (cursor \in 1 .. Len(input) + 1)'
      BY <3>2, <3>3 DEF Appended, Readable, Missing, TooMany, ParseInv
    <3>5. (blocks \in Seq(ToSet(blocks)) /\ \A b \in ToSet(blocks) : Fits(b))'
      BY <3>3 DEF ParseInv
    <3> QED
      BY <2>2, <3>3, <3>4, <3>5 DEF ParseInv
  <2> QED
    BY <2>1, <2>2
<1>8. CASE NotLocated
  BY <1>8, OnlyMoves DEF NotLocated, Fail, foundVars
<1>9. CASE DecodeAuthority
  <2> DEFINE b == DecodeBlock(authority[1], TRUE)
  <2>1. /\ pc = "authority" /\ blocks = <<>> /\ Take(b, 1)
        /\ UNCHANGED <<input, foundVars, token>>
    BY <1>9 DEF DecodeAuthority, ParseInv
  <2>2. b.st = "OK" => Fits(SignedBlock(b))
    BY DecodedFits
  <2> HIDE DEF b
  <2>3. Take(b, cursor')
    BY <2>1 DEF Take
  <2>4. b.st = "OK" => /\ cursor' \in 1 .. Len(input) + 1
                       /\ Len(blocks) = Appended(cursor' - 1)
    <3>1. b.st = "OK" => cursor' = 1
      BY <2>1 DEF Take
    <3>2. Len(blocks) = Appended(0) /\ 1 \in 1 .. Len(input) + 1
      BY <2>1, NoneAppended DEF Sized
    <3> QED
      BY <3>1, <3>2
  <2> QED
    BY <2>1, <2>2, <2>3, <2>4, DecodesOn
<1>10. CASE SkipField
  <2>1. /\ cursor \in 1 .. Len(input) /\ cursor - 1 \in Nat /\ cursor \in Nat \ {0}
        /\ Len(input) \in Nat /\ pc = "decode" /\ ~IsBlock(Field)
        /\ cursor' = cursor + 1 /\ (cursor \in 1 .. Len(input) + 1)'
        /\ UNCHANGED <<input, blocks, token, pc, appended, authority, proof>>
    BY <1>10 DEF SkipField, ParseInv, Sized, FieldsLeft, GoOn, foundVars, IsAppended
  <2>2. Appended(cursor) = Appended(cursor - 1)
    BY <2>1, AppendedStep DEF Field
  <2>3. Len(blocks') = Appended(cursor) + 1
    BY <2>1, <2>2 DEF ParseInv
  <2>4. (Len(blocks) = Appended(cursor - 1) + 1)'
    <3>1. Appended(cursor - 1)' = Appended(cursor)
      BY <2>1 DEF Appended
    <3> QED
      BY <2>3, <3>1
  <2>5. /\ (appended = Appended(Len(input)))' /\ Readable(Len(input))'
        /\ (~Missing /\ ~TooMany)' /\ token = Absent
    BY <2>1 DEF ParseInv, Appended, Readable, Missing, TooMany
  <2>6. (blocks \in Seq(ToSet(blocks)) /\ \A b \in ToSet(blocks) : Fits(b))'
    BY <2>1 DEF ParseInv
  <2> QED
    BY <2>1, <2>4, <2>5, <2>6 DEF ParseInv
<1>11. CASE DecodeNext
  <2> DEFINE b == DecodeBlock(Field.value, FALSE)
  <2>1. /\ cursor \in 1 .. Len(input) /\ cursor - 1 \in Nat /\ cursor \in Nat \ {0}
        /\ Len(input) \in Nat /\ pc = "decode" /\ IsBlock(Field)
        /\ cursor + 1 \in 1 .. Len(input) + 1 /\ cursor + 1 - 1 = cursor
    BY <1>11 DEF DecodeNext, ParseInv, Sized, FieldsLeft, IsAppended
  <2>2. Len(blocks) = Appended(cursor)
    <3>1. Appended(cursor) = Appended(cursor - 1) + 1
      BY <2>1, AppendedStep DEF Field
    <3> QED
      BY <2>1, <3>1 DEF ParseInv
  <2>3. Take(b, cursor + 1) /\ UNCHANGED <<input, foundVars, token>>
    BY <1>11 DEF DecodeNext
  <2>4. b.st = "OK" => Fits(SignedBlock(b))
    BY DecodedFits
  <2> HIDE DEF b
  <2>5. Take(b, cursor')
    BY <2>3 DEF Take
  <2>6. b.st = "OK" => /\ cursor' \in 1 .. Len(input) + 1
                       /\ Len(blocks) = Appended(cursor' - 1)
    <3>1. b.st = "OK" => cursor' = cursor + 1
      BY <2>3 DEF Take
    <3> QED
      BY <2>1, <2>2, <3>1
  <2> QED
    BY <2>1, <2>3, <2>4, <2>5, <2>6, DecodesOn
<1>12. CASE Finish
  <2> DEFINE p == DecodeProof(proof[1])
  <2>1. HandOut(p) /\ UNCHANGED <<input, cursor, appended, authority, proof, blocks>>
        /\ pc = "decode" /\ ~FieldsLeft
    BY <1>12 DEF Finish, foundVars
  <2>2. p.st = "OK" => ProofFits(p.sealed, p.proof)
    BY DecodedProofFits
  <2> HIDE DEF p
  <2>3. CASE p.st # "OK"
    BY <2>1, <2>3, OnlyMoves DEF HandOut, Fail
  <2>4. CASE p.st = "OK"
    <3>1. /\ token' = <<[root_key_id |-> root_key_id, blocks |-> blocks,
                         sealed |-> p.sealed, proof |-> p.proof]>>
          /\ pc' = "parsed"
      BY <2>1, <2>4 DEF HandOut
    <3>2. token'[1].blocks = blocks' /\ token'[1].sealed = p.sealed /\ token'[1].proof = p.proof
      BY <2>1, <3>1
    <3>3. Len(blocks) = Appended(Len(input)) + 1
      BY <2>1, AtTheEnd DEF ParseInv
    <3>4. Len(blocks) <= MaxBlocks
      <4>1. appended = Appended(Len(input)) /\ ~TooMany
        BY <2>1 DEF ParseInv
      <4>2. Appended(Len(input)) \in Nat
        BY AppendedIsNat DEF Sized
      <4> QED
        BY <3>3, <4>1, <4>2, TokenAssumption DEF TooMany
    <3>5. (Len(blocks) = Appended(Len(input)) + 1 /\ Len(blocks) <= MaxBlocks)'
      BY <2>1, <3>3, <3>4 DEF Appended
    <3>6. ProofFits(token[1].sealed, token[1].proof)'
      BY <2>2, <2>4, <3>2 DEF ProofFits
    <3>7. (cursor \in 1 .. Len(input) + 1)'
      BY <2>1 DEF ParseInv
    <3>8. (blocks \in Seq(ToSet(blocks)) /\ \A b \in ToSet(blocks) : Fits(b))'
      BY <2>1 DEF ParseInv
    <3> QED
      BY <3>1, <3>2, <3>5, <3>6, <3>7, <3>8 DEF ParseInv
  <2> QED
    BY <2>3, <2>4
<1> QED
  BY <1>1, <1>2, <1>3, <1>4, <1>5, <1>6, <1>7, <1>8, <1>9, <1>10, <1>11, <1>12
     DEF ParseStep

-----------------------------------------------------------------------------
(* The verifier.                                                           *)

verifyKept == <<input, cursor, foundVars, blocks, token>>

\* What the verifier reads stays as it is, and the parser is done.
LEMMA VerifyKeepsParsed ==
  ASSUME Sized, ParseInv, UNCHANGED verifyKept,
         pc' \in {"block", "external", "stopped"}
  PROVE  ParseInv' /\ Sized'
<1>1. UNCHANGED <<input, cursor, appended, authority, proof, blocks, token>>
  BY DEF verifyKept, foundVars
<1> QED
  BY <1>1, OnlyMoves DEF Sized

\* Every step of a verification leaves them alone.
LEMMA VerifySteps ==
  ASSUME ChainNext, ~ParseOn, ~Stopped
  PROVE  UNCHANGED verifyKept /\ pc' \in {"block", "external", "stopped"}
BY DEF ChainNext, RootUnsupported, RootTaken, VersionUnsupported, NotSigned, Signed,
       NotExternal, External, Proven, NotProven, Stop, Fail, Advance, verifyKept

LEMMA ParseInvKept ==
  ASSUME Sized, ParseInv, [ChainNext]_chainVars
  PROVE  Sized' /\ ParseInv'
<1>1. CASE ParseOn
  <2>1. input' = input
    BY <1>1 DEF ParseOn, ParseStep, LocateRootKeyId, LocateAuthority, CountBlock,
       LocateProof, PassUnknown, RefuseField, Located, NotLocated, DecodeAuthority,
       SkipField, DecodeNext, Finish, GoOn
  <2> QED
    BY <1>1, <2>1, ParseStepKeeps DEF ParseOn, Sized
<1>2. CASE UNCHANGED chainVars \/ Stopped
  <2>1. UNCHANGED <<input, cursor, appended, authority, proof, blocks, token, pc>>
    BY <1>2 DEF chainVars, tokenVars, foundVars, Stopped
  <2> QED
    BY <2>1, OnlyMoves DEF Sized
<1>3. CASE ChainNext /\ ~ParseOn /\ ~Stopped
  BY <1>3, VerifySteps, VerifyKeepsParsed
<1> QED
  BY <1>1, <1>2, <1>3

\* The two passes of bs_token_parse agree on what the input holds, and what
\* it hands out is a whole token within the limit, for every input and
\* however the values in it look (60_token.inc:264-395).
THEOREM ParseInvariant == ChainSpec => []ParseInv
<1>1. ChainInit => Sized /\ ParseInv
  <2> SUFFICES ASSUME ChainInit PROVE Sized /\ ParseInv
    OBVIOUS
  <2>1. Sized
    BY ChainAssumption, MessageSized DEF ChainInit, TokenMessage, Sized
  <2> QED
    BY <2>1, ParseInvStart DEF ChainInit
<1>2. Sized /\ ParseInv /\ [ChainNext]_chainVars => (Sized /\ ParseInv)'
  BY ParseInvKept
<1> QED
  BY <1>1, <1>2, PTL DEF ChainSpec

-----------------------------------------------------------------------------
(* A token that is handed out.                                             *)

LEMMA TokenShape ==
  ASSUME Sized, ParseInv, token # Absent
  PROVE  /\ Len(Token.blocks) \in Nat \ {0}
         /\ DOMAIN Token.blocks = 1 .. Len(Token.blocks)
<1>1. Token.blocks = blocks /\ blocks \in Seq(ToSet(blocks))
      /\ Len(blocks) = Appended(Len(input)) + 1
  BY DEF ParseInv, Token
<1>2. Appended(Len(input)) \in Nat
  BY AppendedIsNat DEF Sized
<1> QED
  BY <1>1, <1>2, LenProperties

\* Where blocks stand depends on the token and the root key alone.
LEMMA SameToken ==
  ASSUME UNCHANGED <<token, root>>
  PROVE  /\ Token' = Token
         /\ \A n : KeyBefore(n)' = KeyBefore(n) /\ SigBefore(n)' = SigBefore(n)
         /\ \A n : BlockStands(n)' = BlockStands(n)
         /\ Authentic' = Authentic
<1>1. Token' = Token
  BY DEF Token
<1>2. \A n : KeyBefore(n)' = KeyBefore(n) /\ SigBefore(n)' = SigBefore(n)
  BY <1>1 DEF KeyBefore, SigBefore
<1>3. \A n : BlockStands(n)' = BlockStands(n)
  BY <1>1, <1>2 DEF BlockStands
<1>4. Authentic' = Authentic
  BY <1>1, <1>3 DEF Authentic
<1> QED
  BY <1>1, <1>2, <1>3, <1>4

\* A step that stops with anything but OK.
LEMMA StopsShort ==
  ASSUME ChainInv, NEW code, Stop(code), code # "OK", ~Authentic
  PROVE  ChainInv'
<1>1. pc' = "stopped" /\ status' = code /\ UNCHANGED <<token, root>>
  BY DEF Stop, Fail, verifyVars
<1>2. ~Authentic'
  BY <1>1, SameToken
<1> QED
  BY <1>1, <1>2 DEF ChainInv

\* A block at which the walk stops does not stand there.
LEMMA StopsAt ==
  ASSUME Sized, ParseInv, ChainInv, pc \in {"block", "external"},
         place <= Len(Token.blocks), ~BlockStands(place)
  PROVE  ~Authentic
<1>1. Len(Token.blocks) \in Nat /\ DOMAIN Token.blocks = 1 .. Len(Token.blocks)
  BY TokenShape DEF ChainInv
<1>2. place \in DOMAIN Token.blocks
  BY <1>1 DEF ChainInv
<1> QED
  BY <1>2 DEF Authentic

\* The walk goes on to the next block.
LEMMA GoesOn ==
  ASSUME Sized, ParseInv, ChainInv, pc \in {"block", "external"},
         place <= Len(Token.blocks), BlockStands(place), Advance,
         UNCHANGED <<input, cursor, foundVars, blocks, token, root, status>>
  PROVE  ChainInv'
<1>1. /\ token # Absent /\ root \in Key /\ status = "none"
      /\ place \in 1 .. Len(Token.blocks) + 1
      /\ \A n \in 1 .. place - 1 : BlockStands(n)
  BY DEF ChainInv
<1>2. Len(Token.blocks) \in Nat \ {0}
  BY <1>1, TokenShape
<1>3. /\ Token' = Token
      /\ \A n : KeyBefore(n)' = KeyBefore(n) /\ SigBefore(n)' = SigBefore(n)
      /\ \A n : BlockStands(n)' = BlockStands(n)
  BY SameToken
<1>4. /\ place' = place + 1 /\ pc' = "block" /\ token' = token /\ root' = root
      /\ status' = "none" /\ current' = Here.next_key /\ prev_sig' = <<Here.signature>>
  BY <1>1 DEF Advance
<1>5. /\ place' \in 1 .. Len(Token.blocks) + 1 /\ place' # 1 /\ place' - 1 = place
      /\ place \in 1 .. Len(Token.blocks)
  BY <1>1, <1>2, <1>4
<1>6. current' = KeyBefore(place') /\ prev_sig' = SigBefore(place')
  BY <1>4, <1>5 DEF KeyBefore, SigBefore, Here
<1>7. (current = KeyBefore(place) /\ prev_sig = SigBefore(place))'
  BY <1>3, <1>4, <1>5 DEF KeyBefore, SigBefore, Here
<1>8. (\A n \in 1 .. place - 1 : BlockStands(n))'
  <2>1. \A n \in 1 .. place : BlockStands(n)
    BY <1>1, <1>5
  <2> QED
    BY <2>1, <1>3, <1>5
<1>9. (place \in 1 .. Len(Token.blocks) + 1)'
  BY <1>3, <1>5
<1> QED
  BY <1>1, <1>4, <1>7, <1>8, <1>9 DEF ChainInv

LEMMA ChainInvKept ==
  ASSUME Sized, ParseInv, ChainInv, [ChainNext]_chainVars
  PROVE  ChainInv'
<1>1. CASE ParseOn
  <2>1. UNCHANGED <<root, place, current, prev_sig>>
    BY <1>1 DEF ParseOn, verifyVars
  <2>2. /\ pc \in {"locate", "authority", "decode"}
        /\ \/ pc' \in {"locate", "authority", "decode"} /\ status' = status
           \/ pc' = "stopped" /\ status' # "OK" /\ token' = Absent
           \/ pc' = "parsed" /\ token' # Absent /\ status' = status
    <3> USE DEF Fail
    <3>1. CASE LocateRootKeyId \/ LocateAuthority \/ CountBlock \/ LocateProof
               \/ PassUnknown \/ SkipField
      BY <3>1 DEF LocateRootKeyId, LocateAuthority, CountBlock, LocateProof,
         PassUnknown, SkipField, AtField, GoOn
    <3>2. CASE RefuseField \/ Located \/ NotLocated
      BY <3>2 DEF RefuseField, Located, NotLocated, AtField, ParseInv
    <3>3. CASE DecodeAuthority
      BY <3>3 DEF DecodeAuthority, Take, ParseInv
    <3>4. CASE DecodeNext
      BY <3>4 DEF DecodeNext, Take, ParseInv
    <3>5. CASE Finish
      <4>1. /\ pc = "decode" /\ token = Absent
            /\ HandOut(DecodeProof(proof[1]))
        BY <3>5 DEF Finish, ParseInv
      <4> QED
        BY <4>1 DEF HandOut, Absent
    <3> QED
      BY <1>1, <3>1, <3>2, <3>3, <3>4, <3>5 DEF ParseOn, ParseStep
  <2> QED
    BY <2>1, <2>2 DEF ChainInv
<1>2. CASE UNCHANGED chainVars \/ Stopped
  <2>1. UNCHANGED <<root, place, current, prev_sig, token, pc, status>>
    BY <1>2 DEF chainVars, tokenVars, verifyVars, Stopped
  <2>2. /\ Authentic' = Authentic /\ Token' = Token
        /\ \A n : KeyBefore(n)' = KeyBefore(n) /\ SigBefore(n)' = SigBefore(n)
        /\ \A n : BlockStands(n)' = BlockStands(n)
    BY <2>1, SameToken
  <2>3. Here' = Here /\ SignedHere' = SignedHere
    BY <2>1, <2>2 DEF Here, SignedHere
  <2> QED
    BY <2>1, <2>2, <2>3 DEF ChainInv
<1>3. CASE RootUnsupported
  BY <1>3, StopsShort DEF RootUnsupported, Authentic
<1>4. CASE RootTaken
  <2>1. /\ pc = "parsed" /\ root \in Key /\ pc' = "block" /\ status = "none"
        /\ place = 1 /\ current = root /\ prev_sig = Absent /\ token # Absent
        /\ UNCHANGED <<token, root, place, current, prev_sig, status>>
    BY <1>4 DEF RootTaken, verifyVars, ChainInv
  <2>2. Len(Token.blocks) \in Nat \ {0} /\ Token' = Token
    BY <2>1, TokenShape, SameToken
  <2>3. (current = KeyBefore(place) /\ prev_sig = SigBefore(place))'
    BY <2>1 DEF KeyBefore, SigBefore
  <2>4. (place \in 1 .. Len(Token.blocks) + 1)' /\ (1 .. place - 1)' = {}
    BY <2>1, <2>2
  <2> QED
    BY <2>1, <2>3, <2>4 DEF ChainInv
<1>5. CASE VersionUnsupported
  <2>1. pc = "block" /\ place <= Len(Token.blocks) /\ Newer(Here)
    BY <1>5 DEF VersionUnsupported, AtBlock
  <2>2. ~BlockStands(place)
    BY <2>1 DEF BlockStands, Here
  <2> QED
    BY <1>5, <2>1, <2>2, StopsAt, StopsShort DEF VersionUnsupported
<1>6. CASE NotSigned
  <2>1. pc = "block" /\ place <= Len(Token.blocks) /\ ~SignedHere
        /\ current = KeyBefore(place) /\ prev_sig = SigBefore(place)
    BY <1>6 DEF NotSigned, AtBlock, ChainInv
  <2>2. ~BlockStands(place)
    BY <2>1 DEF BlockStands, SignedHere, Here
  <2> QED
    BY <1>6, <2>1, <2>2, StopsAt, StopsShort DEF NotSigned
<1>7. CASE Signed
  <2>1. /\ pc = "block" /\ place <= Len(Token.blocks) /\ ~Newer(Here) /\ SignedHere
        /\ current = KeyBefore(place) /\ prev_sig = SigBefore(place)
    BY <1>7 DEF Signed, AtBlock, ChainInv
  <2>2. CASE Here.external = Absent
    <3>1. BlockStands(place)
      BY <2>1, <2>2 DEF BlockStands, SignedHere, Here
    <3>2. Advance
      BY <1>7, <2>2 DEF Signed
    <3> QED
      BY <1>7, <2>1, <3>1, <3>2, GoesOn DEF Signed
  <2>3. CASE Here.external # Absent
    <3>1. /\ pc' = "external"
          /\ UNCHANGED <<place, current, prev_sig, token, root, status>>
      BY <1>7, <2>3 DEF Signed
    <3>2. /\ Token' = Token
          /\ \A n : KeyBefore(n)' = KeyBefore(n) /\ SigBefore(n)' = SigBefore(n)
          /\ \A n : BlockStands(n)' = BlockStands(n)
      BY <3>1, SameToken
    <3>3. Here' = Here /\ SignedHere' = SignedHere
      BY <3>1, <3>2 DEF Here, SignedHere
    <3>4. /\ token # Absent /\ root \in Key /\ status = "none"
          /\ place \in 1 .. Len(Token.blocks) + 1
          /\ \A n \in 1 .. place - 1 : BlockStands(n)
      BY <2>1 DEF ChainInv
    <3>5. /\ (place \in 1 .. Len(Token.blocks) + 1)'
          /\ (current = KeyBefore(place) /\ prev_sig = SigBefore(place))'
          /\ (\A n \in 1 .. place - 1 : BlockStands(n))'
      BY <2>1, <3>1, <3>2, <3>4
    <3>6. (place <= Len(Token.blocks) /\ ~Newer(Here) /\ SignedHere
           /\ Here.external # Absent)'
      BY <2>1, <2>3, <3>1, <3>2, <3>3 DEF Absent, Newer
    <3> QED
      BY <3>1, <3>4, <3>5, <3>6 DEF ChainInv
  <2> QED
    BY <2>2, <2>3
<1>8. CASE NotExternal
  <2>1. /\ pc = "external" /\ place <= Len(Token.blocks) /\ ~ExternalHere
        /\ Here.external # Absent /\ prev_sig = SigBefore(place)
    BY <1>8 DEF NotExternal, ChainInv
  <2>2. ~BlockStands(place)
    BY <2>1 DEF BlockStands, ExternalHere, Here
  <2> QED
    BY <1>8, <2>1, <2>2, StopsAt, StopsShort DEF NotExternal
<1>9. CASE External
  <2>1. /\ pc = "external" /\ ExternalHere /\ Advance
        /\ place <= Len(Token.blocks) /\ ~Newer(Here) /\ SignedHere
        /\ current = KeyBefore(place) /\ prev_sig = SigBefore(place)
    BY <1>9 DEF External, ChainInv
  <2>2. BlockStands(place)
    BY <2>1 DEF BlockStands, SignedHere, ExternalHere, Here
  <2> QED
    BY <1>9, <2>1, <2>2, GoesOn DEF External
<1>10. CASE Proven
  <2>1. /\ pc = "block" /\ place > Len(Token.blocks) /\ Proves /\ Stop("OK")
        /\ token # Absent /\ root \in Key /\ place \in 1 .. Len(Token.blocks) + 1
        /\ current = KeyBefore(place) /\ \A n \in 1 .. place - 1 : BlockStands(n)
    BY <1>10 DEF Proven, AtProof, ChainInv
  <2>2. /\ Len(Token.blocks) \in Nat \ {0}
        /\ DOMAIN Token.blocks = 1 .. Len(Token.blocks)
    BY <2>1, TokenShape
  <2>3. place = Len(Token.blocks) + 1 /\ place - 1 = Len(Token.blocks) /\ place # 1
    BY <2>1, <2>2
  <2>4. current = Last(Token.blocks).next_key
    BY <2>1, <2>3 DEF KeyBefore, Last
  <2>5. \A n \in DOMAIN Token.blocks : BlockStands(n)
    BY <2>1, <2>2, <2>3
  <2>6. Authentic
    BY <2>1, <2>4, <2>5 DEF Authentic, Proves
  <2>7. /\ pc' = "stopped" /\ status' = "OK" /\ UNCHANGED <<token, root>>
    BY <2>1 DEF Stop, Fail, verifyVars
  <2>8. Authentic' /\ token' # Absent
    BY <2>1, <2>6, <2>7, SameToken DEF Absent
  <2> QED
    BY <2>7, <2>8 DEF ChainInv
<1>11. CASE NotProven
  <2>1. /\ pc = "block" /\ place > Len(Token.blocks) /\ ~Proves
        /\ token # Absent /\ place \in 1 .. Len(Token.blocks) + 1
        /\ current = KeyBefore(place)
    BY <1>11 DEF NotProven, AtProof, ChainInv
  <2>2. Len(Token.blocks) \in Nat \ {0}
    BY <2>1, TokenShape
  <2>3. place - 1 = Len(Token.blocks) /\ place # 1
    BY <2>1, <2>2
  <2>4. current = Last(Token.blocks).next_key
    BY <2>1, <2>3 DEF KeyBefore, Last
  <2>5. ~Authentic
    BY <2>1, <2>4 DEF Authentic, Proves
  <2> QED
    BY <1>11, <2>5, StopsShort DEF NotProven
<1> QED
  BY <1>1, <1>2, <1>3, <1>4, <1>5, <1>6, <1>7, <1>8, <1>9, <1>10, <1>11 DEF ChainNext

\* A token bs_token_verify finds good is authentic from end to end, and one
\* it does not is not: each block is signed with the key the one before names, the first with the
\* root key, over everything the chain protects and in its place, and the
\* proof is of the last; for every token, every root key and whatever a
\* signature verifies over (47_chain.inc:149-224).
THEOREM ChainInvariant == ChainSpec => []ChainInv
<1>1. ChainInit => ChainInv
  BY DEF ChainInit, ParseStart, ChainInv, Absent
<1>2. ChainInit => Sized
  BY ChainAssumption, MessageSized DEF ChainInit, TokenMessage, Sized
<1>3. Sized /\ [ChainNext]_chainVars /\ ParseInv => Sized'
  BY ParseInvKept
<1>4. Sized /\ ParseInv /\ ChainInv /\ [ChainNext]_chainVars => ChainInv'
  BY ChainInvKept
<1> QED
  BY <1>1, <1>2, <1>3, <1>4, ParseInvariant, PTL DEF ChainSpec

\* In particular, a host's call ends with OK for an authentic token, and for
\* no other.
COROLLARY OnlyTheAuthentic ==
  ChainSpec => [](pc = "stopped" => (status = "OK" <=> token # Absent /\ Authentic))
<1>1. ChainInv => (pc = "stopped" => (status = "OK" <=> token # Absent /\ Authentic))
  BY DEF ChainInv
<1> QED
  BY <1>1, ChainInvariant, PTL

-----------------------------------------------------------------------------
(* What is read is what is written.                                        *)

\* The inductive invariant of the reading: what the first pass found among
\* the fields it is past, what the second has decoded of them, and that
\* both are as the schema reads the whole.
ReadingInv ==
  /\ TokenMessage(input)
  /\ pc = "locate" => FoundIn(input, root_key_id, authority, proof, cursor - 1)
  /\ pc \in {"authority", "decode"} =>
       FoundIn(input, root_key_id, authority, proof, Len(input))
  /\ pc = "decode" => DecodedIn(input, authority, blocks, cursor - 1)
  /\ ReadsWhatIsWritten

LEMMA InputSized ==
  ASSUME TokenMessage(input)
  PROVE  Sized /\ Len(input) \in Nat /\ DOMAIN input = 1 .. Len(input)
BY MessageSized DEF TokenMessage, Sized

\* While nothing is handed out or returned there is nothing to say,
LEMMA StillReading ==
  ASSUME token = Absent, status = "none"
  PROVE  ReadsWhatIsWritten
BY DEF ReadsWhatIsWritten

\* and what is said of a token that was handed out stays true of it.
LEMMA StillRead ==
  ASSUME ReadsWhatIsWritten, token # Absent, UNCHANGED <<input, token, root>>,
         \/ status' \in {"none", "OK", "SIGNATURE"}
         \/ status' = "UNSUPPORTED" /\ (root \notin Key \/ SpeaksNewer)
  PROVE  ReadsWhatIsWritten'
<1>1. /\ token' # Absent /\ Reads(input') /\ token' = <<Read(input')>>
      /\ root' = root /\ SpeaksNewer' = SpeaksNewer
  BY DEF ReadsWhatIsWritten, SpeaksNewer, Token, Absent
<1> QED
  BY <1>1 DEF ReadsWhatIsWritten

\* One more field is located.
LEMMA LocatedOne ==
  ASSUME ReadingInv, ParseInv, ChainInv, AtField, GoOn,
         FoundIn(input, root_key_id', authority', proof', cursor)
  PROVE  ReadingInv'
<1>1. /\ pc = "locate" /\ token = Absent /\ status = "none" /\ cursor \in 1 .. Len(input) + 1
      /\ Len(input) \in Nat
  BY InputSized DEF AtField, ReadingInv, ParseInv, ChainInv
<1>2. /\ input' = input /\ cursor' - 1 = cursor /\ pc' = "locate"
      /\ token' = Absent /\ status' = "none"
  BY <1>1 DEF GoOn
<1>3. ReadsWhatIsWritten'
  BY <1>2, StillReading DEF ReadsWhatIsWritten, Absent
<1> QED
  BY <1>2, <1>3 DEF ReadingInv

LEMMA LocatingKept ==
  ASSUME ReadingInv, ParseInv, ChainInv,
         LocateRootKeyId \/ LocateAuthority \/ CountBlock \/ LocateProof \/ PassUnknown
  PROVE  ReadingInv'
<1>1. /\ Len(input) \in Nat /\ DOMAIN input = 1 .. Len(input)
      /\ AtField /\ GoOn /\ pc = "locate"
  BY InputSized DEF ReadingInv, LocateRootKeyId, LocateAuthority, CountBlock, LocateProof,
     PassUnknown, AtField
<1>2. cursor \in 1 .. Len(input)
  BY <1>1 DEF ParseInv, AtField, FieldsLeft
<1>3. FoundIn(input, root_key_id, authority, proof, cursor - 1)
  BY <1>1 DEF ReadingInv
<1>4. FoundIn(input, root_key_id', authority', proof', cursor)
  <2>1. CASE LocateRootKeyId
    BY <1>1, <1>2, <1>3, <2>1, FoundStep DEF LocateRootKeyId, IsRootKeyId, Field
  <2>2. CASE LocateAuthority
    BY <1>1, <1>2, <1>3, <2>2, FoundStep DEF LocateAuthority, IsAuthority, Field
  <2>3. CASE CountBlock
    BY <1>1, <1>2, <1>3, <2>3, FoundStep DEF CountBlock, IsAppended, IsBlock, Field
  <2>4. CASE LocateProof
    BY <1>1, <1>2, <1>3, <2>4, FoundStep DEF LocateProof, IsProof, Field
  <2>5. CASE PassUnknown
    BY <1>1, <1>2, <1>3, <2>5, FoundStep DEF PassUnknown, IsUnknown, Field, foundVars
  <2> QED
    BY <2>1, <2>2, <2>3, <2>4, <2>5
<1> QED
  BY <1>1, <1>4, LocatedOne

\* A token that is refused before it is handed out.
LEMMA RefusedRightly ==
  ASSUME ReadingInv, token = Absent, UNCHANGED <<input, token>>, pc' = "stopped",
         \/ status' \in {"MALFORMED", "UNSUPPORTED"} /\ ~Reads(input)
         \/ status' = "LIMIT" /\ Cardinality(Given(input, "blocks")) >= MaxBlocks
         \/ status' = "NOMEM"
  PROVE  ReadingInv'
<1>1. ReadsWhatIsWritten'
  BY DEF ReadsWhatIsWritten, Absent
<1> QED
  BY <1>1 DEF ReadingInv

\* The end of the first pass.
LEMMA LocatedKept ==
  ASSUME ReadingInv, ParseInv, ChainInv, RefuseField \/ Located \/ NotLocated
  PROVE  ReadingInv'
<1>1. /\ Sized /\ Len(input) \in Nat /\ DOMAIN input = 1 .. Len(input) /\ TokenMessage(input)
      /\ pc = "locate" /\ token = Absent /\ status = "none"
      /\ FoundIn(input, root_key_id, authority, proof, cursor - 1)
      /\ appended = Appended(cursor - 1)
  BY InputSized DEF ReadingInv, ParseInv, ChainInv, RefuseField, Located, NotLocated, AtField
<1>2. UNCHANGED <<input, cursor, foundVars, blocks, token>>
  BY DEF RefuseField, Located, NotLocated
<1>3. CASE RefuseField
  <2>1. cursor \in 1 .. Len(input)
    BY <1>1, <1>3 DEF ParseInv, RefuseField, AtField, FieldsLeft
  <2>2. ~Reads(input)
    BY <1>1, <1>3, <2>1, FieldRefused
       DEF RefuseField, IsRootKeyId, IsAuthority, IsAppended, IsBlock, IsProof, IsUnknown, Field
  <2> QED
    BY <1>1, <1>2, <1>3, <2>2, RefusedRightly DEF RefuseField, Fail
<1>4. ASSUME ~FieldsLeft PROVE cursor - 1 = Len(input)
  BY <1>1, <1>4, AtTheEnd
<1>5. CASE Located
  <2>1. FoundIn(input, root_key_id, authority, proof, Len(input))
    BY <1>1, <1>4, <1>5 DEF Located
  <2>2. CASE pc' = "authority" /\ UNCHANGED status
    <3>1. token' = Absent /\ status' = "none"
      BY <1>1, <1>2, <2>2
    <3>2. ReadsWhatIsWritten'
      BY <3>1 DEF ReadsWhatIsWritten, Absent
    <3> QED
      BY <1>1, <1>2, <2>1, <2>2, <3>2 DEF ReadingInv, foundVars
  <2>3. CASE Fail("NOMEM")
    BY <1>1, <1>2, <2>3, RefusedRightly DEF Fail
  <2> QED
    BY <1>5, <2>2, <2>3 DEF Located
<1>6. CASE NotLocated
  <2>1. FoundIn(input, root_key_id, authority, proof, Len(input))
    BY <1>1, <1>4, <1>6 DEF NotLocated
  <2>2. CASE Missing /\ Fail("MALFORMED")
    <3>1. ~Reads(input)
      BY <1>1, <2>1, <2>2, FoundAll DEF Missing
    <3> QED
      BY <1>1, <1>2, <2>2, <3>1, RefusedRightly DEF Fail
  <2>3. CASE TooMany /\ Fail("LIMIT")
    <3>1. appended = Count(input, Len(input))
      BY <1>1, <1>4, <1>6 DEF NotLocated, Appended, Count
    <3>2. Cardinality(Given(input, "blocks")) = appended /\ appended \in Nat
      BY <1>1, <2>1, <3>1, NthDecoded, CountIsNat
    <3>3. Cardinality(Given(input, "blocks")) >= MaxBlocks
      BY <2>3, <3>2, TokenAssumption DEF TooMany
    <3> QED
      BY <1>1, <1>2, <2>3, <3>3, RefusedRightly DEF Fail
  <2> QED
    BY <1>6, <2>2, <2>3 DEF NotLocated
<1> QED
  BY <1>3, <1>5, <1>6

\* The second pass.
LEMMA DecodingKept ==
  ASSUME ReadingInv, ParseInv, ChainInv, DecodeAuthority \/ SkipField \/ DecodeNext
  PROVE  ReadingInv'
<1>1. /\ Sized /\ Len(input) \in Nat /\ DOMAIN input = 1 .. Len(input) /\ TokenMessage(input)
      /\ pc \in {"authority", "decode"} /\ token = Absent /\ status = "none"
      /\ FoundIn(input, root_key_id, authority, proof, Len(input))
      /\ authority # Absent /\ proof # Absent
  BY InputSized DEF ReadingInv, ParseInv, ChainInv, DecodeAuthority, SkipField, DecodeNext,
     Missing
<1>2. UNCHANGED <<input, foundVars, token>>
  BY DEF DecodeAuthority, SkipField, DecodeNext, GoOn
<1>3. ASSUME pc' = "decode", status' = status,
             DecodedIn(input, authority, blocks', cursor' - 1)
      PROVE  ReadingInv'
  <2>1. token' = Absent /\ status' = "none"
    BY <1>1, <1>2, <1>3
  <2>2. ReadsWhatIsWritten'
    BY <2>1 DEF ReadsWhatIsWritten, Absent
  <2> QED
    BY <1>1, <1>2, <1>3, <2>2 DEF ReadingInv, foundVars
<1>4. ASSUME NEW m, NEW first \in BOOLEAN, BlockMessage(m),
             DecodeBlock(m, first).st # "OK", ~BlockReads(m, first) => ~Reads(input),
             Fail(DecodeBlock(m, first).st)
      PROVE  ReadingInv'
  <2>1. DecodeBlock(m, first).st \in {"MALFORMED", "UNSUPPORTED"} /\ ~BlockReads(m, first)
    BY <1>4, BlockDecodes
  <2> QED
    BY <1>1, <1>2, <1>4, <2>1, RefusedRightly DEF Fail
<1>5. CASE DecodeAuthority
  <2> DEFINE b == DecodeBlock(authority[1], TRUE)
  <2>1. Take(b, 1) /\ blocks = <<>>
    BY <1>5 DEF DecodeAuthority, ParseInv
  <2>2. BlockMessage(authority[1])
    BY <1>1, FoundAreMessages
  <2>3. ~BlockReads(authority[1], TRUE) => ~Reads(input)
    BY <1>1, FoundAll
  <2>4. CASE b.st # "OK"
    BY <1>4, <2>1, <2>2, <2>3, <2>4 DEF Take
  <2>5. CASE b.st = "OK"
    <3>1. BlockReads(authority[1], TRUE) /\ SignedBlock(b) = BlockRead(authority[1])
      BY <2>2, <2>5, BlockDecodes
    <3> HIDE DEF b
    <3>4. /\ blocks' = Append(blocks, SignedBlock(b)) /\ cursor' = 1
          /\ pc' = "decode" /\ status' = status
      BY <2>1, <2>5 DEF Take
    <3>2. /\ blocks' = Append(<<>>, SignedBlock(b)) /\ cursor' - 1 = 0
          /\ pc' = "decode" /\ status' = status
      BY <2>1, <3>4
    <3>3. DecodedIn(input, authority, blocks', cursor' - 1)
      BY <3>1, <3>2, DecodedStart
    <3> QED
      BY <1>3, <3>2, <3>3
  <2> QED
    BY <2>4, <2>5
<1>6. ASSUME pc = "decode", FieldsLeft
      PROVE  /\ cursor \in 1 .. Len(input) /\ Len(blocks) = Count(input, cursor - 1) + 1
             /\ blocks \in Seq(ToSet(blocks))
             /\ DecodedIn(input, authority, blocks, cursor - 1)
  BY <1>1, <1>6 DEF ParseInv, FieldsLeft, ReadingInv, Appended, Count
<1>7. CASE SkipField
  <2>1. ~IsBlock(input[cursor]) /\ cursor' = cursor + 1 /\ blocks' = blocks
        /\ pc = "decode" /\ FieldsLeft /\ pc' = "decode" /\ status' = status
    BY <1>7 DEF SkipField, IsAppended, Field, GoOn
  <2>2. DecodedIn(input, authority, blocks, cursor)
    BY <1>1, <1>6, <2>1, DecodedStep
  <2>3. cursor' - 1 = cursor
    BY <1>6, <2>1
  <2> QED
    BY <1>3, <2>1, <2>2, <2>3
<1>8. CASE DecodeNext
  <2> DEFINE m == input[cursor].value
             b == DecodeBlock(m, FALSE)
  <2>1. IsBlock(input[cursor]) /\ pc = "decode" /\ FieldsLeft /\ Take(b, cursor + 1)
    BY <1>8 DEF DecodeNext, IsAppended, Field
  <2>2. BlockMessage(m)
    BY <1>1, <1>6, <2>1, PartsAreMessages DEF FoundIn, IsBlock
  <2>3. ~BlockReads(m, FALSE) => ~Reads(input)
    <3>1. cursor \in Given(input, "blocks")
      BY <1>1, <1>6, <2>1 DEF Given, IsBlock
    <3> QED
      BY <1>1, <3>1, FoundAll
  <2>4. CASE b.st # "OK"
    BY <1>4, <2>1, <2>2, <2>3, <2>4 DEF Take
  <2>5. CASE b.st = "OK"
    <3>1. BlockReads(m, FALSE) /\ SignedBlock(b) = BlockRead(m)
      BY <2>2, <2>5, BlockDecodes
    <3>2. /\ blocks' = Append(blocks, SignedBlock(b)) /\ cursor' = cursor + 1
          /\ pc' = "decode" /\ status' = status
      BY <2>1, <2>5 DEF Take
    <3> HIDE DEF b
    <3>3. DecodedIn(input, authority, Append(blocks, BlockRead(m)), cursor)
      BY <1>1, <1>6, <2>1, <3>1, DecodedStep
    <3>4. cursor' - 1 = cursor
      BY <1>6, <2>1, <3>2
    <3> QED
      BY <1>3, <3>1, <3>2, <3>3, <3>4
  <2> QED
    BY <2>4, <2>5
<1> QED
  BY <1>5, <1>7, <1>8

\* The token is handed out.
LEMMA FinishKept ==
  ASSUME ReadingInv, ParseInv, ChainInv, Finish
  PROVE  ReadingInv'
<1> DEFINE d == DecodeProof(proof[1])
<1>1. /\ Sized /\ Len(input) \in Nat /\ TokenMessage(input)
      /\ pc = "decode" /\ ~FieldsLeft /\ token = Absent /\ status = "none"
      /\ FoundIn(input, root_key_id, authority, proof, Len(input))
      /\ authority # Absent /\ proof # Absent /\ HandOut(d)
      /\ UNCHANGED <<input, cursor, foundVars, blocks>>
  BY InputSized DEF ReadingInv, ParseInv, ChainInv, Finish, Missing
<1>2. cursor - 1 = Len(input)
  BY <1>1, AtTheEnd
<1>3. /\ Len(blocks) = Count(input, Len(input)) + 1 /\ blocks \in Seq(ToSet(blocks))
      /\ DecodedIn(input, authority, blocks, Len(input))
  BY <1>1, <1>2 DEF ParseInv, ReadingInv, Appended, Count
<1>4. /\ d.st \in {"OK", "MALFORMED"} /\ (d.st = "OK" <=> Reads(input))
      /\ Reads(input) => Read(input) = [root_key_id |-> root_key_id, blocks |-> blocks,
                                        sealed |-> d.sealed, proof |-> d.proof]
  BY <1>1, <1>3, ReadsAll
<1> HIDE DEF d
<1>5. CASE d.st # "OK"
  BY <1>1, <1>4, <1>5, RefusedRightly DEF HandOut, Fail
<1>6. CASE d.st = "OK"
  <2>1. /\ token' = <<Read(input)>> /\ Reads(input) /\ pc' = "parsed" /\ status' = "none"
    BY <1>1, <1>4, <1>6 DEF HandOut
  <2>2. ReadsWhatIsWritten'
    BY <1>1, <2>1 DEF ReadsWhatIsWritten, Absent
  <2> QED
    BY <1>1, <2>1, <2>2 DEF ReadingInv
<1> QED
  BY <1>5, <1>6

LEMMA ReadingKept ==
  ASSUME ReadingInv, ParseInv, ChainInv, [ChainNext]_chainVars
  PROVE  ReadingInv'
<1>1. CASE ParseOn
  BY <1>1, LocatingKept, LocatedKept, DecodingKept, FinishKept DEF ParseOn, ParseStep
<1>2. CASE UNCHANGED chainVars \/ Stopped
  <2>1. UNCHANGED <<input, cursor, root_key_id, authority, proof, blocks, token, pc, status, root>>
    BY <1>2 DEF chainVars, tokenVars, verifyVars, foundVars, Stopped
  <2>2. ReadsWhatIsWritten'
    BY <2>1 DEF ReadingInv, ReadsWhatIsWritten, SpeaksNewer, Token
  <2> QED
    BY <2>1, <2>2 DEF ReadingInv
<1>3. CASE ChainNext /\ ~ParseOn /\ ~Stopped
  <2>1. UNCHANGED <<input, token>> /\ pc' \in {"block", "external", "stopped"}
    BY <1>3, VerifySteps DEF verifyKept
  <2>2. token # Absent /\ root' = root
    BY <1>3 DEF ChainNext, RootUnsupported, RootTaken, VersionUnsupported, NotSigned, Signed,
       NotExternal, External, Proven, NotProven, Stop, AtBlock, AtProof, verifyVars, ChainInv
  <2>3. \/ status' \in {"none", "OK", "SIGNATURE"}
        \/ status' = "UNSUPPORTED" /\ (root \notin Key \/ SpeaksNewer)
    <3>1. CASE RootUnsupported
      BY <3>1 DEF RootUnsupported, Stop, Fail
    <3>2. CASE RootTaken \/ Signed \/ External
      BY <3>2 DEF RootTaken, Signed, External, AtBlock, ChainInv
    <3>3. CASE NotSigned \/ NotExternal \/ Proven \/ NotProven
      BY <3>3 DEF NotSigned, NotExternal, Proven, NotProven, Stop, Fail
    <3>4. CASE VersionUnsupported
      <4>1. place \in DOMAIN Token.blocks /\ Newer(Token.blocks[place])
        <5>1. /\ DOMAIN Token.blocks = 1 .. Len(Token.blocks) /\ Len(Token.blocks) \in Nat
              /\ Newer(Here) /\ place <= Len(Token.blocks)
              /\ place \in 1 .. Len(Token.blocks) + 1
          BY <2>2, <3>4, InputSized, TokenShape
             DEF ReadingInv, VersionUnsupported, AtBlock, ChainInv
        <5> QED
          BY <5>1 DEF Here
      <4> QED
        BY <3>4, <4>1 DEF VersionUnsupported, Stop, Fail, SpeaksNewer
    <3> QED
      BY <1>3, <3>1, <3>2, <3>3, <3>4 DEF ChainNext
  <2>5. UNCHANGED <<input, token, root>> /\ ReadsWhatIsWritten
    BY <2>1, <2>2 DEF ReadingInv
  <2>4. ReadsWhatIsWritten'
    <3>1. token # Absent
      BY <2>2
    <3> QED
      BY ONLY <2>3, <2>5, <3>1, StillRead
  <2> QED
    BY <2>1, <2>4 DEF ReadingInv
<1> QED
  BY <1>1, <1>2, <1>3

\* A container is read as its schema says, whole or not at all: what is
\* handed out is the one reading of the message, in whatever order and
\* however often its fields come, and each code a call returns instead has
\* its cause; for every message (60_token.inc:30-395).
THEOREM ContainerReads == ChainSpec => []ReadsWhatIsWritten
<1>1. ChainInit => ReadingInv
  <2> SUFFICES ASSUME ChainInit PROVE ReadingInv
    OBVIOUS
  <2>1. TokenMessage(input) /\ pc = "locate" /\ cursor - 1 = 0 /\ token = Absent
        /\ status = "none" /\ root_key_id = Absent /\ authority = Absent /\ proof = Absent
    BY ChainAssumption DEF ChainInit, ParseStart
  <2>2. FoundIn(input, root_key_id, authority, proof, cursor - 1)
    BY <2>1, InputSized, FoundStart
  <2> QED
    BY <2>1, <2>2, StillReading DEF ReadingInv
<1>2. ReadingInv /\ ParseInv /\ ChainInv /\ [ChainNext]_chainVars => ReadingInv'
  BY ReadingKept
<1>3. ReadingInv => ReadsWhatIsWritten
  BY DEF ReadingInv
<1> QED
  BY <1>1, <1>2, <1>3, ParseInvariant, ChainInvariant, PTL DEF ChainSpec
=============================================================================
