---------------------------- MODULE BsLoadProofs ----------------------------
(***************************************************************************)
(* Loading, proved for every token, every limit and every choice of tables *)
(* and of the seed: the loader keeps its types and its room, a world has   *)
(* one number for one text, it says what the token says, and a load fails  *)
(* for the reason it gives.                                                *)
(*                                                                         *)
(* Numbers.  Interning a text gives its canonical number, the first place  *)
(* the text has, and appending a text moves no first place.  So all the    *)
(* numbers a world and a half-read clause hold are canonical, and two      *)
(* canonical numbers of one text are the same.                             *)
(*                                                                         *)
(* Statements.  Appending a text moves no text either, so what is spelled  *)
(* out stays: the world says what the token says before the place of the   *)
(* loops, and the clause at hand what the message says before the turn     *)
(* (ReadInv).  A reader goes by the signer's tables and the loader by its  *)
(* own; that they name alike is TablesGoOn, shown of the tables that are   *)
(* built.                                                                  *)
(*                                                                         *)
(* Causes.  Every pool holds the sum of what the statements before the     *)
(* turn take, and every symbol of those has a name the table knows         *)
(* (CauseInv).  So what does not fit does not fit the token, and at the    *)
(* end there is nothing left that could be wrong.                          *)
(***************************************************************************)
EXTENDS BsReading, TLAPS, NaturalsInduction, WellFoundedInduction, SequenceTheorems,
        FiniteSetTheorems

-----------------------------------------------------------------------------
(* First places.                                                           *)

\* A set of numbers that is not empty has a least.
LEMMA LeastNumber ==
  ASSUME NEW S \in SUBSET Nat, S # {}
  PROVE  \E i \in S : \A j \in S : i <= j
<1>1. PICK i \in S : \A j \in S : ~(<<j, i>> \in OpToRel(<, Nat))
  BY WFMin, NatLessThanWellFounded
<1>2. ASSUME NEW j \in S PROVE i <= j
  <2>1. ~(j < i)
    BY <1>1 DEF OpToRel
  <2>2. QED
    BY <2>1
<1>3. QED
  BY <1>2

USE SymbolAssumption, MessageAssumption, LoadAssumption

\* PlaceOf is the first place.
LEMMA FirstPlace ==
  ASSUME NEW seq \in Seq(Text), NEW t \in ToSet(seq)
  PROVE  /\ PlaceOf(t, seq) \in 0 .. Len(seq) - 1
         /\ seq[PlaceOf(t, seq) + 1] = t
         /\ \A j \in 1 .. PlaceOf(t, seq) : seq[j] # t
<1> DEFINE places == {n \in Nat : n + 1 \in DOMAIN seq /\ seq[n + 1] = t}
<1>1. PICK i \in DOMAIN seq : seq[i] = t
  BY DEF ToSet
<1>2. Len(seq) \in Nat /\ DOMAIN seq = 1 .. Len(seq)
  BY LenProperties
<1>3. i - 1 \in places
  BY <1>1, <1>2
<1>4. PICK k \in places : \A n \in places : k <= n
  <2>1. places # {} /\ places \in SUBSET Nat
    BY <1>3
  <2> HIDE DEF places
  <2>2. QED
    BY <2>1, LeastNumber
<1>5. k \in 0 .. Len(seq) - 1 /\ seq[k + 1] = t
  BY <1>2, <1>4
<1>6. \A j \in 1 .. k : seq[j] # t
  <2>1. SUFFICES ASSUME NEW j \in 1 .. k, seq[j] = t PROVE FALSE
    OBVIOUS
  <2>2. j - 1 \in places
    BY <1>2, <1>5, <2>1
  <2>3. QED
    BY <1>4, <2>1, <2>2
<1>7. QED
  BY <1>5, <1>6 DEF PlaceOf

\* There is one first place.
LEMMA OneFirstPlace ==
  ASSUME NEW seq, NEW t, NEW k \in Nat, NEW n \in Nat,
         seq[k + 1] = t, \A j \in 1 .. k : seq[j] # t,
         seq[n + 1] = t, \A j \in 1 .. n : seq[j] # t
  PROVE  k = n
<1>1. ~(k < n)
  <2>1. k < n => k + 1 \in 1 .. n
    OBVIOUS
  <2>2. QED
    BY <2>1
<1>2. ~(n < k)
  <2>1. n < k => n + 1 \in 1 .. k
    OBVIOUS
  <2>2. QED
    BY <2>1
<1>3. QED
  BY <1>1, <1>2

-----------------------------------------------------------------------------
(* Interning.                                                              *)

\* What appending a text leaves alone.
LEMMA Appended ==
  ASSUME NEW table \in Seq(Text), NEW x \in Text
  PROVE  /\ Append(table, x) \in Seq(Text)
         /\ Len(Append(table, x)) = Len(table) + 1
         /\ \A j \in 1 .. Len(table) : Append(table, x)[j] = table[j]
         /\ Append(table, x)[Len(table) + 1] = x
         /\ ToSet(Append(table, x)) = ToSet(table) \cup {x}
<1>1. /\ Append(table, x) \in Seq(Text)
      /\ Len(Append(table, x)) = Len(table) + 1
      /\ \A j \in 1 .. Len(table) : Append(table, x)[j] = table[j]
      /\ Append(table, x)[Len(table) + 1] = x
  BY AppendProperties
<1>2. /\ DOMAIN table = 1 .. Len(table) /\ Len(table) \in Nat
      /\ DOMAIN Append(table, x) = 1 .. Len(table) + 1
  BY <1>1, LenProperties
<1>3. QED
  BY <1>1, <1>2 DEF ToSet

\* A table stays a table, whatever is interned.
LEMMA InternedTable ==
  ASSUME NEW table \in Seq(Text), NEW x \in Text
  PROVE  /\ Interned(table, x) \in Seq(Text)
         /\ Len(table) <= Len(Interned(table, x))
         /\ NumberOf(table, x) \in Nat
<1>1. Interned(table, x) \in Seq(Text) /\ Len(table) <= Len(Interned(table, x))
  BY Appended, LenProperties DEF Interned
<1>2. NumberOf(table, x) \in Nat
  <2>1. x \in ToSet(WellKnown) => PlaceOf(x, WellKnown) \in Nat
    BY FirstPlace, LenProperties
  <2>2. x \in ToSet(table) => PlaceOf(x, table) \in Nat
    BY FirstPlace, LenProperties
  <2>3. QED
    BY <2>1, <2>2, LenProperties DEF NumberOf
<1>3. QED
  BY <1>1, <1>2

\* What a text is interned as is canonical.
LEMMA InternedCanonical ==
  ASSUME NEW table \in Seq(Text), NEW x \in Text
  PROVE  Canonical(Interned(table, x), NumberOf(table, x))
<1> DEFINE after == Interned(table, x)
<1>0. /\ Len(table) \in Nat /\ Len(WellKnown) \in Nat
      /\ after \in Seq(Text) /\ Len(after) \in Nat
  BY InternedTable, LenProperties
<1>1. CASE x \in ToSet(WellKnown)
  <2>1. /\ PlaceOf(x, WellKnown) \in 0 .. Len(WellKnown) - 1
        /\ WellKnown[PlaceOf(x, WellKnown) + 1] = x
    BY <1>1, FirstPlace
  <2>2. NumberOf(table, x) = PlaceOf(x, WellKnown) /\ NumberOf(after, x) = PlaceOf(x, WellKnown)
    BY <1>1 DEF NumberOf
  <2>3. QED
    BY <1>0, <2>1, <2>2 DEF Canonical, CanName, TextOf
<1>2. CASE x \notin ToSet(WellKnown) /\ x \in ToSet(table)
  <2>1. PlaceOf(x, table) \in 0 .. Len(table) - 1 /\ table[PlaceOf(x, table) + 1] = x
    BY <1>2, FirstPlace
  <2>2. after = table /\ NumberOf(table, x) = Offset + PlaceOf(x, table)
    BY <1>2 DEF NumberOf, Interned, Known
  <2>3. QED
    BY <1>0, <2>1, <2>2 DEF Canonical, CanName, TextOf
<1>3. CASE x \notin ToSet(WellKnown) /\ x \notin ToSet(table)
  <2>1. after = Append(table, x) /\ NumberOf(table, x) = Offset + Len(table)
    BY <1>3 DEF NumberOf, Interned, Known
  <2>2. /\ Len(after) = Len(table) + 1 /\ after[Len(table) + 1] = x
        /\ \A j \in 1 .. Len(table) : after[j] = table[j]
        /\ x \in ToSet(after)
    BY <2>1, Appended
  <2>3. \A j \in 1 .. Len(table) : table[j] # x
    BY <1>0, <1>3, LenProperties DEF ToSet
  <2>4. /\ PlaceOf(x, after) \in 0 .. Len(after) - 1
        /\ after[PlaceOf(x, after) + 1] = x
        /\ \A j \in 1 .. PlaceOf(x, after) : after[j] # x
    BY <1>0, <2>2, FirstPlace
  <2>5. PlaceOf(x, after) = Len(table)
    BY <1>0, <2>2, <2>3, <2>4, OneFirstPlace
  <2>6. NumberOf(after, x) = Offset + Len(table)
    BY <1>3, <2>2, <2>5 DEF NumberOf
  <2>7. QED
    BY <1>0, <2>1, <2>2, <2>6 DEF Canonical, CanName, TextOf
<1>4. QED
  BY <1>1, <1>2, <1>3

\* What was canonical stays so, whatever is interned.
LEMMA CanonicalKept ==
  ASSUME NEW table \in Seq(Text), NEW x \in Text, NEW i \in Nat, Canonical(table, i)
  PROVE  Canonical(Interned(table, x), i)
<1> DEFINE after == Append(table, x)
           y == TextOf(table, i)
<1>0. /\ Len(table) \in Nat /\ Len(WellKnown) \in Nat
      /\ Len(after) = Len(table) + 1 /\ after \in Seq(Text)
      /\ \A j \in 1 .. Len(table) : after[j] = table[j]
      /\ ToSet(after) = ToSet(table) \cup {x}
  BY Appended, LenProperties
<1>1. CanName(table, i) /\ NumberOf(table, y) = i
  BY DEF Canonical
<1>2. CanName(after, i) /\ TextOf(after, i) = y
  BY <1>0, <1>1 DEF CanName, TextOf
<1>3. NumberOf(after, y) = i
  <2>1. CASE y \in ToSet(WellKnown)
    BY <1>1, <2>1 DEF NumberOf
  <2>2. CASE y \notin ToSet(WellKnown)
    <3>1. i >= Offset /\ i - Offset < Len(table) /\ y = table[i - Offset + 1]
      <4>1. i < Len(WellKnown) => y \in ToSet(WellKnown)
        BY <1>0, LenProperties DEF TextOf, ToSet
      <4>2. QED
        BY <1>0, <1>1, <2>2, <4>1 DEF CanName, TextOf
    <3>2. y \in ToSet(table) /\ y \in ToSet(after)
      BY <1>0, <3>1, LenProperties DEF ToSet
    <3>3. /\ PlaceOf(y, table) \in 0 .. Len(table) - 1
          /\ table[PlaceOf(y, table) + 1] = y
          /\ \A j \in 1 .. PlaceOf(y, table) : table[j] # y
      BY <3>2, FirstPlace
    <3>4. /\ PlaceOf(y, after) \in 0 .. Len(after) - 1
          /\ after[PlaceOf(y, after) + 1] = y
          /\ \A j \in 1 .. PlaceOf(y, after) : after[j] # y
      BY <1>0, <3>2, FirstPlace
    <3>5. /\ after[PlaceOf(y, table) + 1] = y
          /\ \A j \in 1 .. PlaceOf(y, table) : after[j] # y
      BY <1>0, <3>3
    <3>6. PlaceOf(y, after) = PlaceOf(y, table)
      BY <1>0, <3>3, <3>4, <3>5, OneFirstPlace
    <3>7. QED
      BY <1>1, <2>2, <3>2, <3>6 DEF NumberOf
  <2>3. QED
    BY <2>1, <2>2
<1>4. Canonical(after, i)
  BY <1>2, <1>3 DEF Canonical
<1>5. QED
  BY <1>4 DEF Interned

-----------------------------------------------------------------------------
(* What is at hand.                                                        *)

\* The token, its limits and the block at hand have their types.
LEMMA TokenTyped ==
  ASSUME LoadTypeOK, LoadInv
  PROVE  /\ token \in Seq(Message) /\ Len(token) \in 1 .. MaxBlocks
         /\ block \in 0 .. Len(token) - 1 /\ block \in 0 .. MaxBlocks - 1
         /\ Here \in Message /\ From \in TablesOf
         /\ limits \in Limit /\ Seed(token) \in Seq(Text)
<1>1. /\ token \in Seq(Message) /\ Len(token) \in 1 .. MaxBlocks
      /\ limits \in Limit /\ Seed(token) \in Seq(Text)
  BY DEF LoadInv
<1>2. block \in 0 .. Len(token) - 1 /\ block \in 0 .. MaxBlocks - 1
  BY <1>1 DEF LoadInv, OnStatement, LoadTypeOK
<1>3. Here \in Message
  BY <1>1, <1>2, ElementOfSeq DEF Here
<1>4. From \in TablesOf
  BY <1>2 DEF From, LoadInv
<1>5. QED
  BY <1>1, <1>2, <1>3, <1>4

\* A message holds what its fields say.
LEMMA MessageFields ==
  ASSUME NEW m \in Message
  PROVE  /\ m.scopes \in Seq(Scope) /\ m.facts \in Seq(Predicate)
         /\ m.rules \in Seq(Clause) /\ m.checks \in Seq(CheckMessage)
BY DEF Message

\* The statement at hand is a clause.
LEMMA ClauseTyped ==
  ASSUME LoadTypeOK, LoadInv, InClause \/ AtStatement
  PROVE  CurrentClause \in Clause
<1>1. /\ Here.facts \in Seq(Predicate) /\ Here.rules \in Seq(Clause)
      /\ Here.checks \in Seq(CheckMessage)
  BY TokenTyped, MessageFields
<1>2. CASE phase = "facts" /\ msg \in DOMAIN Here.facts
  <2>1. Here.facts[msg] \in Predicate
    BY <1>1, <1>2, ElementOfSeq, LenProperties
  <2>2. QED
    BY <1>2, <2>1 DEF CurrentClause, Clause
<1>3. CASE phase = "rules" /\ msg \in DOMAIN Here.rules
  <2>1. Here.rules[msg] \in Clause
    BY <1>1, <1>3, ElementOfSeq, LenProperties
  <2>2. QED
    BY <1>3, <2>1 DEF CurrentClause
<1>4. CASE /\ phase = "checks" /\ msg \in DOMAIN Here.checks
           /\ query \in DOMAIN Here.checks[msg].queries
  <2>1. Here.checks[msg] \in CheckMessage
    BY <1>1, <1>4, ElementOfSeq, LenProperties
  <2>2. Here.checks[msg].queries \in Seq(Clause)
    BY <2>1 DEF CheckMessage
  <2>3. Here.checks[msg].queries[query] \in Clause
    BY <1>4, <2>2, ElementOfSeq, LenProperties
  <2>4. QED
    BY <1>4, <2>3 DEF CurrentClause
<1>5. QED
  BY <1>2, <1>3, <1>4 DEF LoadInv, OnStatement, AtStatement

\* So is the predicate being read, and the expression.
LEMMA WantedTyped ==
  ASSUME LoadTypeOK, LoadInv
  PROVE  /\ pc \in {"name", "room", "terms"} => Wanted \in Predicate
         /\ pc \in {"ops", "value", "operand"} => NextTest \in Test
<1>1. ASSUME pc \in {"name", "room", "terms"} PROVE Wanted \in Predicate
  <2>1. CurrentClause \in Clause
    BY <1>1, ClauseTyped DEF InClause
  <2>2. CurrentClause.head \in Predicate /\ CurrentClause.body \in Seq(Predicate)
    BY <2>1 DEF Clause
  <2>3. made \in Seq(Predicate) /\ Len(made) <= Len(CurrentClause.body)
    BY <1>1 DEF LoadTypeOK, LoadInv, InOrder
  <2>4. made # <<>> => CurrentClause.body[Len(made)] \in Predicate
    <3>1. made # <<>> => Len(made) \in 1 .. Len(CurrentClause.body)
      BY <2>2, <2>3, EmptySeq, LenProperties
    <3>2. QED
      BY <2>2, <3>1, ElementOfSeq
  <2>5. QED
    BY <2>2, <2>4 DEF Wanted
<1>2. ASSUME pc \in {"ops", "value", "operand"} PROVE NextTest \in Test
  <2>1. CurrentClause \in Clause
    BY <1>2, ClauseTyped DEF InClause
  <2>2. CurrentClause.expr \in Seq(Test)
    BY <2>1 DEF Clause
  <2>3. Len(tests) \in Nat /\ Len(tests) < Len(CurrentClause.expr)
    BY <1>2, LenProperties DEF LoadTypeOK, LoadInv, InOrder
  <2>4. QED
    BY <2>2, <2>3, ElementOfSeq, LenProperties DEF NextTest
<1>3. QED
  BY <1>1, <1>2

\* The numbers of a predicate are numbers.
LEMMA NumbersTyped ==
  /\ \A p \in Predicate : NumbersOf(p) \subseteq Nat
  /\ \A e \in Test : TestNumbers(e) \subseteq Nat
<1>1. \A u \in Texts \cup Variables : u.sym \in Nat
  BY DEF Texts, Variables, Symbol
<1>2. ASSUME NEW p \in Predicate PROVE NumbersOf(p) \subseteq Nat
  <2>1. p.name \in Nat /\ p.terms \in Seq(Texts \cup Variables)
    BY DEF Predicate, Term, Symbol
  <2>2. \A k \in DOMAIN p.terms : p.terms[k] \in Texts \cup Variables
    BY <2>1, ElementOfSeq, LenProperties
  <2>3. QED
    BY <1>1, <2>1, <2>2 DEF NumbersOf
<1>3. ASSUME NEW e \in Test PROVE TestNumbers(e) \subseteq Nat
  BY <1>1 DEF Test, Term, TestNumbers
<1>4. QED
  BY <1>2, <1>3

\* What is read next is a symbol number, and what it spells is a text.
LEMMA IncomingTyped ==
  ASSUME LoadTypeOK, LoadInv, Reading
  PROVE  Incoming \in Nat /\ (Nameable => Spelling \in Text)
<1>1. Incoming \in Nat
  <2>1. CASE pc = "name"
    BY <2>1, WantedTyped DEF Incoming, Predicate, Symbol
  <2>2. CASE pc = "terms" /\ Len(cur.terms) < Len(Wanted.terms)
    <3>1. Wanted.terms \in Seq(Texts \cup Variables)
      BY <2>2, WantedTyped DEF Predicate, Term
    <3>2. Len(cur.terms) \in Nat
      BY LenProperties DEF LoadTypeOK, Predicate
    <3>3. Wanted.terms[Len(cur.terms) + 1] \in Texts \cup Variables
      BY <2>2, <3>1, <3>2, ElementOfSeq, LenProperties
    <3>4. QED
      BY <2>2, <3>3 DEF Incoming, Texts, Variables, Symbol
  <2>3. CASE pc = "operand"
    <3>1. NextTest.left \in Texts \cup Variables /\ NextTest.right \in Texts \cup Variables
      BY <2>3, WantedTyped DEF Test, Term
    <3>2. QED
      BY <2>3, <3>1 DEF Incoming, Texts, Variables, Symbol
  <2>4. QED
    BY <2>1, <2>2, <2>3 DEF Reading
<1>2. ASSUME Nameable PROVE Spelling \in Text
  <2>1. From.symbols \in Seq(Text)
    BY TokenTyped DEF TablesOf
  <2>2. CASE Incoming < Offset
    <3>1. Incoming + 1 \in 1 .. Len(WellKnown)
      BY <1>1, <1>2, <2>2, LenProperties DEF Nameable, CanName
    <3>2. QED
      BY <2>2, <3>1, ElementOfSeq DEF Spelling, TextOf
  <2>3. CASE ~(Incoming < Offset)
    <3>1. Incoming - Offset + 1 \in 1 .. Len(From.symbols)
      BY <1>1, <1>2, <2>1, <2>3, LenProperties DEF Nameable, CanName
    <3>2. QED
      BY <2>1, <2>3, <3>1, ElementOfSeq DEF Spelling, TextOf
  <2>4. QED
    BY <2>2, <2>3
<1>3. QED
  BY <1>1, <1>2

\* A translation gives a canonical number and takes none away.
LEMMA Translated ==
  ASSUME LoadTypeOK, LoadInv, Reading, Translates
  PROVE  /\ entries' \in Seq(Text)
         /\ Len(entries') <= Len(Seed(token)) + limits.extra
         /\ Number \in Nat /\ Canonical(entries', Number)
         /\ \A S \in SUBSET Nat : AllCanonical(entries, S) => AllCanonical(entries', S)
<1>1. entries \in Seq(Text) /\ Len(entries) <= Len(Seed(token)) + limits.extra
  BY DEF LoadTypeOK
<1>2. Spelling \in Text /\ entries' = Interned(entries, Spelling)
  BY IncomingTyped DEF Translates
<1>3. Len(entries') <= Len(Seed(token)) + limits.extra
  <2>1. /\ Len(Seed(token)) \in Nat /\ limits.extra \in Nat /\ Len(entries) \in Nat
        /\ Len(Append(entries, Spelling)) = Len(entries) + 1
    BY <1>1, <1>2, TokenTyped, LenProperties, AppendProperties DEF Limit
  <2>2. QED
    BY <1>1, <1>2, <2>1 DEF Translates, SymbolRoom, Interned
<1>4. Canonical(entries', Number)
  BY <1>1, <1>2, InternedCanonical DEF Number
<1>5. ASSUME NEW S \in SUBSET Nat, AllCanonical(entries, S) PROVE AllCanonical(entries', S)
  BY <1>1, <1>2, <1>5, CanonicalKept DEF AllCanonical
<1>6. QED
  BY <1>1, <1>2, <1>3, <1>4, <1>5, InternedTable DEF Number

-----------------------------------------------------------------------------
(* What the turns have in common.                                          *)

\* The place in the loops is as good as it was.
LEMMA PlaceKept ==
  ASSUME LoadInv, UNCHANGED <<token, limits, facts, rules, placeVars>>,
         InClause' => InClause, pc' = "query" => pc = "query"
  PROVE  /\ token' \in Tokens /\ limits' \in Limits
         /\ OnStatement'
         /\ CurrentClause' = CurrentClause
<1>1. UNCHANGED <<token, limits, facts, rules, block, phase, msg, query, at>>
  BY DEF placeVars
<1>2. Here' = Here
  BY <1>1 DEF Here
<1>3. OnStatement'
  <2>1. RoomAhead'
    BY <1>1, <1>2 DEF LoadInv, OnStatement, RoomAhead
  <2>2. AtStatement' = AtStatement
    BY <1>1, <1>2 DEF AtStatement
  <2>3. QED
    BY <1>1, <1>2, <2>1, <2>2 DEF LoadInv, OnStatement
<1>4. CurrentClause' = CurrentClause
  BY <1>1, <1>2 DEF CurrentClause
<1>5. QED
  BY <1>1, <1>3, <1>4 DEF LoadInv

\* The clause read so far is kept, and so is the world.
LEMMA NumbersKept ==
  ASSUME LoadInv, UNCHANGED <<entries, facts, rules, clauseVars>>,
         pc' \in {"room", "terms"} => pc \in {"room", "terms"}
  PROVE  NumbersCanonical'
BY DEF LoadInv, NumbersCanonical, clauseVars

\* Nothing is at hand when a clause opens.
LEMMA NumbersOpened ==
  ASSUME LoadInv, UNCHANGED <<entries, facts, rules>>, OpenClause
  PROVE  NumbersCanonical'
BY DEF LoadInv, NumbersCanonical, OpenClause

\* A refusal changes nothing.
LEMMA Refused ==
  ASSUME LoadTypeOK, LoadInv, NEW code \in {"OK", "MALFORMED", "NOMEM", "UNBOUND"},
         Refuse(code), UNCHANGED <<token, limits, poolVars, placeVars, clauseVars>>
  PROVE  LoadTypeOK' /\ LoadInv'
<1>1. pc' = "stopped" /\ status' = code
  BY DEF Refuse
<1>2. LoadTypeOK'
  BY <1>1 DEF LoadTypeOK, poolVars, placeVars, clauseVars, Places
<1>3. OnStatement' /\ token' \in Tokens /\ limits' \in Limits
  BY <1>1, PlaceKept DEF InClause, poolVars
<1>4. InOrder'
  BY <1>1 DEF InOrder, InClause
<1>5. NumbersCanonical'
  BY <1>1, NumbersKept DEF poolVars
<1>6. QED
  BY <1>2, <1>3, <1>4, <1>5 DEF LoadInv

\* A statement opens where there is one.
LEMMA Opened ==
  ASSUME LoadTypeOK, LoadInv, OpenClause, AtStatement,
         phase = "checks" => Here.checks[msg].kind # "unknown",
         phase = "facts" => Len(facts) < limits.facts,
         phase = "rules" => Len(rules) < limits.rules,
         phase = "checks" => /\ Len(rules) = at + query - 1
                             /\ at + Len(Here.checks[msg].queries) <= limits.rules,
         UNCHANGED <<token, limits, poolVars, placeVars, status>>
  PROVE  LoadTypeOK' /\ LoadInv'
<1>1. /\ made' = <<>> /\ cur' = NoTerms /\ tests' = <<>> /\ given' = <<>> /\ pc' = "name"
      /\ UNCHANGED <<token, limits, entries, facts, rules, checks, used,
                     block, phase, msg, query, at, trust, status>>
  BY DEF OpenClause, poolVars, placeVars
<1>2. NoTerms \in Predicate
  BY EmptySeq DEF NoTerms, Predicate, Symbol
<1>3. LoadTypeOK'
  BY <1>1, <1>2, EmptySeq DEF LoadTypeOK, Places
<1>4. Here' = Here
  BY <1>1 DEF Here
<1>5. OnStatement' /\ InClause'
  <2>1. RoomAhead'
    BY <1>1, <1>4 DEF RoomAhead
  <2>2. QED
    BY <1>1, <1>4, <2>1 DEF LoadInv, OnStatement, InClause, AtStatement
<1>6. InOrder'
  <2>1. CurrentClause \in Clause
    BY ClauseTyped
  <2>2. CurrentClause' = CurrentClause
    BY <1>1, <1>4 DEF CurrentClause
  <2>3. Len(CurrentClause.body) \in Nat
    BY <2>1, LenProperties DEF Clause
  <2>4. Len(made') = 0
    BY <1>1, EmptySeq
  <2>5. QED
    BY <1>1, <2>2, <2>3, <2>4 DEF InOrder, InClause
<1>7. NumbersCanonical'
  BY <1>1, NumbersOpened
<1>8. QED
  BY <1>1, <1>3, <1>5, <1>6, <1>7 DEF LoadInv

-----------------------------------------------------------------------------
(* Turns within a clause.                                                  *)

\* A turn that only moves on.
LEMMA MovedOn ==
  ASSUME LoadTypeOK, LoadInv, NextPredicate \/ NextExpression
  PROVE  LoadTypeOK' /\ LoadInv'
<1>1. /\ UNCHANGED <<token, limits, entries, facts, rules, checks, used, status>>
      /\ UNCHANGED <<made, cur, tests, given>>
      /\ UNCHANGED <<block, phase, msg, query, at, trust>>
  BY DEF NextPredicate, NextExpression, poolVars, placeVars, clauseVars
<1>2. \/ pc = "preds" /\ pc' = "name" /\ Len(made) <= Len(CurrentClause.body)
      \/ pc = "preds" /\ pc' = "exprs"
      \/ pc = "tests" /\ pc' = "ops" /\ Len(tests) < Len(CurrentClause.expr)
      \/ pc = "tests" /\ pc' = "place"
  BY DEF NextPredicate, NextExpression
<1>3. LoadTypeOK'
  BY <1>1, <1>2 DEF LoadTypeOK, Places
<1>4. OnStatement' /\ token' \in Tokens /\ limits' \in Limits /\ CurrentClause' = CurrentClause
  BY <1>1, <1>2, PlaceKept DEF InClause, placeVars
<1>5. InOrder'
  BY <1>1, <1>2, <1>4 DEF LoadInv, InOrder, InClause
<1>6. NumbersCanonical'
  BY <1>1, <1>2, NumbersKept DEF clauseVars
<1>7. QED
  BY <1>3, <1>4, <1>5, <1>6 DEF LoadInv

\* Room is reserved where there is some.
LEMMA Reserved ==
  ASSUME LoadTypeOK, LoadInv, Reserve
  PROVE  LoadTypeOK' /\ LoadInv'
<1>1. /\ UNCHANGED <<token, limits, entries, facts, rules, checks, status>>
      /\ UNCHANGED <<made, cur, tests, given>>
      /\ UNCHANGED <<block, phase, msg, query, at, trust>>
  BY DEF Reserve, placeVars, clauseVars
<1>2. /\ pc \in {"room", "body", "exprs", "ops", "value"}
      /\ used' = [used EXCEPT ![Demand.pool] = @ + Demand.n] /\ pc' = Demand.then
      /\ used[Demand.pool] + Demand.n <= limits[Demand.pool]
  BY DEF Reserve, Reserving, Fits
<1>3. /\ Demand.n \in Nat /\ Demand.pool \in Pools
      /\ \/ pc = "room" /\ pc' = "terms"
         \/ pc = "body" /\ pc' = "preds"
         \/ pc = "exprs" /\ pc' = "tests"
         \/ pc = "ops" /\ pc' = "value"
         \/ pc = "value" /\ pc' = "operand"
  <2>1. CASE pc = "room"
    <3>1. Len(Wanted.terms) \in Nat
      BY <2>1, WantedTyped, LenProperties DEF Predicate
    <3>2. QED
      BY <1>2, <2>1, <3>1 DEF Demand, Pools
  <2>2. CASE pc \in {"body", "exprs"}
    <3>1. Len(CurrentClause.body) \in Nat /\ Len(CurrentClause.expr) \in Nat
      BY <2>2, ClauseTyped, LenProperties DEF Clause, InClause
    <3>2. QED
      BY <1>2, <2>2, <3>1 DEF Demand, Pools
  <2>3. CASE pc \in {"ops", "value"}
    BY <1>2, <2>3 DEF Demand, Pools
  <2>4. QED
    BY <1>2, <2>1, <2>2, <2>3
<1>4. used \in [Pools -> Nat] /\ \A p \in Pools : used[p] <= limits[p]
  BY DEF LoadTypeOK
<1>5. used' \in [Pools -> Nat] /\ \A p \in Pools : used'[p] <= limits[p]
  BY <1>2, <1>3, <1>4
<1>6. LoadTypeOK'
  BY <1>1, <1>3, <1>5 DEF LoadTypeOK, Places
<1>7. OnStatement' /\ token' \in Tokens /\ limits' \in Limits /\ CurrentClause' = CurrentClause
  BY <1>1, <1>3, PlaceKept DEF InClause, placeVars
<1>8. InOrder'
  BY <1>1, <1>3, <1>7 DEF LoadInv, InOrder, InClause
<1>9. NumbersCanonical'
  BY <1>1, <1>3, NumbersKept DEF clauseVars
<1>10. QED
  BY <1>6, <1>7, <1>8, <1>9 DEF LoadInv

\* A predicate is finished.
LEMMA PredicateFinished ==
  ASSUME LoadTypeOK, LoadInv, PredicateDone
  PROVE  LoadTypeOK' /\ LoadInv'
<1>1. /\ UNCHANGED <<token, limits, entries, facts, rules, checks, used, status>>
      /\ UNCHANGED <<cur, tests, given>>
      /\ UNCHANGED <<block, phase, msg, query, at, trust>>
      /\ pc = "terms" /\ made' = Append(made, cur) /\ pc' \in {"place", "body", "preds"}
  BY DEF PredicateDone, poolVars, placeVars
<1>2. made \in Seq(Predicate) /\ cur \in Predicate
  BY DEF LoadTypeOK
<1>3. /\ made' \in Seq(Predicate) /\ Len(made') = Len(made) + 1
      /\ \A n \in 1 .. Len(made) : made'[n] = made[n]
      /\ made'[Len(made) + 1] = cur
      /\ Len(made) \in Nat
      /\ DOMAIN made = 1 .. Len(made) /\ DOMAIN made' = 1 .. Len(made) + 1
  BY <1>1, <1>2, AppendProperties, LenProperties
<1>4. LoadTypeOK'
  BY <1>1, <1>3 DEF LoadTypeOK, Places
<1>5. OnStatement' /\ token' \in Tokens /\ limits' \in Limits
  BY <1>1, PlaceKept DEF InClause, placeVars
<1>6. InOrder'
  BY <1>1, <1>3, EmptySeq DEF InOrder, InClause
<1>7. NumbersCanonical'
  <2>1. AllCanonical(entries, NumbersOf(cur))
    BY <1>1 DEF LoadInv, NumbersCanonical
  <2>2. \A n \in DOMAIN made' : AllCanonical(entries, NumbersOf(made'[n]))
    <3>1. \A n \in 1 .. Len(made) : AllCanonical(entries, NumbersOf(made'[n]))
      BY <1>3 DEF LoadInv, NumbersCanonical
    <3>2. QED
      BY <1>3, <2>1, <3>1
  <2>3. QED
    BY <1>1, <2>2 DEF LoadInv, NumbersCanonical
<1>8. QED
  BY <1>4, <1>5, <1>6, <1>7 DEF LoadInv

-----------------------------------------------------------------------------
(* Turns that translate a symbol.                                          *)

\* The numbers there were are as good in the table that follows.
LEMMA NumbersTranslated ==
  ASSUME LoadTypeOK, LoadInv, Reading, Translates
  PROVE  /\ \A n \in DOMAIN facts : AllCanonical(entries', NumbersOf(facts[n]))
         /\ \A n \in DOMAIN rules : AllCanonical(entries', ClauseNumbers(rules[n]))
         /\ \A n \in DOMAIN made : AllCanonical(entries', NumbersOf(made[n]))
         /\ \A n \in DOMAIN tests : AllCanonical(entries', TestNumbers(tests[n]))
         /\ \A n \in DOMAIN given : Canonical(entries', given[n].sym)
         /\ pc \in {"room", "terms"} => AllCanonical(entries', NumbersOf(cur))
<1>1. /\ facts \in Seq(Fact) /\ rules \in Seq(Rule) /\ made \in Seq(Predicate)
      /\ tests \in Seq(Test) /\ given \in Seq(Texts \cup Variables) /\ cur \in Predicate
  BY DEF LoadTypeOK
<1>2. \A S \in SUBSET Nat : AllCanonical(entries, S) => AllCanonical(entries', S)
  BY Translated
<1>3. ASSUME NEW n \in DOMAIN facts PROVE AllCanonical(entries', NumbersOf(facts[n]))
  <2>1. facts[n] \in Fact
    BY <1>1, ElementOfSeq, LenProperties
  <2>2. NumbersOf(facts[n]) \subseteq Nat
    <3> DEFINE p == [name |-> facts[n].name, terms |-> facts[n].terms]
    <3>1. p \in Predicate /\ NumbersOf(p) = NumbersOf(facts[n])
      BY <2>1 DEF Fact, Predicate, NumbersOf
    <3>2. QED
      BY <3>1, NumbersTyped
  <2>3. AllCanonical(entries, NumbersOf(facts[n]))
    BY DEF LoadInv, NumbersCanonical
  <2>4. QED
    BY <1>2, <2>2, <2>3
<1>4. ASSUME NEW n \in DOMAIN rules PROVE AllCanonical(entries', ClauseNumbers(rules[n]))
  <2>1. rules[n] \in Rule
    BY <1>1, ElementOfSeq, LenProperties
  <2>2. /\ rules[n].head \in Predicate
        /\ \A i \in DOMAIN rules[n].body : rules[n].body[i] \in Predicate
        /\ \A e \in DOMAIN rules[n].expr : rules[n].expr[e] \in Test
    BY <2>1, ElementOfSeq, LenProperties DEF Rule
  <2>3. ClauseNumbers(rules[n]) \subseteq Nat
    BY <2>2, NumbersTyped DEF ClauseNumbers
  <2>4. AllCanonical(entries, ClauseNumbers(rules[n]))
    BY DEF LoadInv, NumbersCanonical
  <2>5. QED
    BY <1>2, <2>3, <2>4
<1>5. ASSUME NEW n \in DOMAIN made PROVE AllCanonical(entries', NumbersOf(made[n]))
  <2>1. made[n] \in Predicate /\ AllCanonical(entries, NumbersOf(made[n]))
    BY <1>1, ElementOfSeq, LenProperties DEF LoadInv, NumbersCanonical
  <2>2. QED
    BY <1>2, <2>1, NumbersTyped
<1>6. ASSUME NEW n \in DOMAIN tests PROVE AllCanonical(entries', TestNumbers(tests[n]))
  <2>1. tests[n] \in Test /\ AllCanonical(entries, TestNumbers(tests[n]))
    BY <1>1, ElementOfSeq, LenProperties DEF LoadInv, NumbersCanonical
  <2>2. QED
    BY <1>2, <2>1, NumbersTyped
<1>7. ASSUME NEW n \in DOMAIN given PROVE Canonical(entries', given[n].sym)
  <2>1. given[n] \in Texts \cup Variables /\ Canonical(entries, given[n].sym)
    BY <1>1, ElementOfSeq, LenProperties DEF LoadInv, NumbersCanonical
  <2>2. {given[n].sym} \in SUBSET Nat
    BY <2>1 DEF Texts, Variables, Symbol
  <2>3. QED
    BY <1>2, <2>1, <2>2 DEF AllCanonical
<1>8. ASSUME pc \in {"room", "terms"} PROVE AllCanonical(entries', NumbersOf(cur))
  <2>1. AllCanonical(entries, NumbersOf(cur)) /\ NumbersOf(cur) \in SUBSET Nat
    BY <1>1, <1>8, NumbersTyped DEF LoadInv, NumbersCanonical
  <2>2. QED
    BY <1>2, <2>1
<1>9. QED
  BY <1>3, <1>4, <1>5, <1>6, <1>7, <1>8

\* A name is read.
LEMMA NameRead ==
  ASSUME LoadTypeOK, LoadInv, ReadName
  PROVE  LoadTypeOK' /\ LoadInv'
<1>1. /\ UNCHANGED <<token, limits, facts, rules, checks, used, status>>
      /\ UNCHANGED <<made, tests, given>>
      /\ UNCHANGED <<block, phase, msg, query, at, trust>>
      /\ pc = "name" /\ pc' = "room" /\ cur' = [name |-> Number, terms |-> <<>>]
      /\ Reading /\ Translates
  BY DEF ReadName, Reading, placeVars
<1>2. /\ entries' \in Seq(Text) /\ Len(entries') <= Len(Seed(token)) + limits.extra
      /\ Number \in Nat /\ Canonical(entries', Number)
  BY <1>1, Translated
<1>3. cur' \in Predicate
  BY <1>1, <1>2, EmptySeq DEF Predicate, Symbol
<1>4. LoadTypeOK'
  BY <1>1, <1>2, <1>3 DEF LoadTypeOK, Places
<1>5. OnStatement' /\ token' \in Tokens /\ limits' \in Limits /\ CurrentClause' = CurrentClause
  BY <1>1, PlaceKept DEF InClause, placeVars
<1>6. InOrder'
  BY <1>1, <1>5 DEF LoadInv, InOrder, InClause
<1>7. NumbersCanonical'
  <2>1. NumbersOf(cur') = {Number}
    BY <1>1, EmptySeq DEF NumbersOf
  <2>2. AllCanonical(entries', NumbersOf(cur'))
    BY <1>2, <2>1 DEF AllCanonical
  <2>3. QED
    BY <1>1, <2>2, NumbersTranslated DEF NumbersCanonical
<1>8. QED
  BY <1>4, <1>5, <1>6, <1>7 DEF LoadInv

\* A term is read.
LEMMA TermRead ==
  ASSUME LoadTypeOK, LoadInv, ReadTerm
  PROVE  LoadTypeOK' /\ LoadInv'
<1> DEFINE u == [kind |-> Wanted.terms[Len(cur.terms) + 1].kind, sym |-> Number]
<1>1. /\ UNCHANGED <<token, limits, facts, rules, checks, used, status, pc>>
      /\ UNCHANGED <<made, tests, given>>
      /\ UNCHANGED <<block, phase, msg, query, at, trust>>
      /\ pc = "terms" /\ cur' = [name |-> cur.name, terms |-> Append(cur.terms, u)]
      /\ Reading /\ Translates /\ Len(cur.terms) < Len(Wanted.terms)
  BY DEF ReadTerm, Reading, placeVars
<1>2. /\ entries' \in Seq(Text) /\ Len(entries') <= Len(Seed(token)) + limits.extra
      /\ Number \in Nat /\ Canonical(entries', Number)
  BY <1>1, Translated
<1>3. u \in Texts \cup Variables
  <2>1. Wanted.terms \in Seq(Texts \cup Variables) /\ Len(cur.terms) \in Nat
    BY <1>1, WantedTyped, LenProperties DEF Predicate, Term, LoadTypeOK
  <2>2. Wanted.terms[Len(cur.terms) + 1] \in Texts \cup Variables
    BY <1>1, <2>1, ElementOfSeq, LenProperties
  <2>3. QED
    BY <1>2, <2>2 DEF Texts, Variables, Symbol
<1> HIDE DEF u
<1>4. /\ cur.terms \in Seq(Texts \cup Variables) /\ cur \in Predicate
      /\ cur'.name = cur.name /\ cur'.terms = Append(cur.terms, u)
  BY <1>1 DEF LoadTypeOK, Predicate, Term
<1>5. /\ cur'.terms \in Seq(Texts \cup Variables)
      /\ \A k \in DOMAIN cur'.terms : \/ k \in DOMAIN cur.terms /\ cur'.terms[k] = cur.terms[k]
                                      \/ cur'.terms[k] = u
  BY <1>3, <1>4, AppendProperties, LenProperties
<1>6. cur' \in Predicate
  BY <1>1, <1>4, <1>5 DEF Predicate, Term
<1>7. LoadTypeOK'
  BY <1>1, <1>2, <1>6 DEF LoadTypeOK, Places
<1>8. OnStatement' /\ token' \in Tokens /\ limits' \in Limits /\ CurrentClause' = CurrentClause
  BY <1>1, PlaceKept DEF InClause, placeVars
<1>9. InOrder'
  BY <1>1, <1>8 DEF LoadInv, InOrder, InClause
<1>10. NumbersCanonical'
  <2>1. u.sym = Number
    BY DEF u
  <2>2. NumbersOf(cur') \subseteq NumbersOf(cur) \cup {Number}
    BY <1>4, <1>5, <2>1 DEF NumbersOf
  <2>3. AllCanonical(entries', NumbersOf(cur))
    BY <1>1, NumbersTranslated
  <2>4. AllCanonical(entries', NumbersOf(cur'))
    BY <1>2, <2>2, <2>3 DEF AllCanonical
  <2>5. QED
    BY <1>1, <2>4, NumbersTranslated DEF NumbersCanonical
<1>11. QED
  BY <1>7, <1>8, <1>9, <1>10 DEF LoadInv

\* An operand is read; the second one finishes the expression.
LEMMA OperandRead ==
  ASSUME LoadTypeOK, LoadInv, ReadOperand
  PROVE  LoadTypeOK' /\ LoadInv'
<1> DEFINE t == IF given = <<>> THEN NextTest.left ELSE NextTest.right
           u == [kind |-> t.kind, sym |-> Number]
           e == [op |-> NextTest.op, left |-> given[1], right |-> u]
<1>1. /\ UNCHANGED <<token, limits, facts, rules, checks, used, status>>
      /\ UNCHANGED <<made, cur>>
      /\ UNCHANGED <<block, phase, msg, query, at, trust>>
      /\ pc = "operand" /\ Reading /\ Translates
      /\ \/ given = <<>> /\ given' = <<u>> /\ pc' = "value" /\ tests' = tests
         \/ given # <<>> /\ given' = <<>> /\ pc' = "tests" /\ tests' = Append(tests, e)
  BY DEF ReadOperand, Reading, placeVars
<1>2. /\ entries' \in Seq(Text) /\ Len(entries') <= Len(Seed(token)) + limits.extra
      /\ Number \in Nat /\ Canonical(entries', Number)
  BY <1>1, Translated
<1>3. u \in Texts \cup Variables /\ u.sym = Number
  <2>1. NextTest.left \in Texts \cup Variables /\ NextTest.right \in Texts \cup Variables
    BY <1>1, WantedTyped DEF Test, Term
  <2>2. QED
    BY <1>2, <2>1 DEF Texts, Variables, Symbol
<1>4. given # <<>> => e \in Test /\ TestNumbers(e) = {given[1].sym, Number}
  <2>1. ASSUME given # <<>> PROVE given[1] \in Texts \cup Variables
    <3>1. given \in Seq(Texts \cup Variables)
      BY DEF LoadTypeOK
    <3>2. 1 \in 1 .. Len(given)
      BY <2>1, <3>1, EmptySeq, LenProperties
    <3>3. QED
      BY <3>1, <3>2, ElementOfSeq
  <2>2. NextTest.op \in {"equal", "unequal", "overflow"}
    BY <1>1, WantedTyped DEF Test
  <2>3. QED
    BY <1>3, <2>1, <2>2 DEF Test, Term, TestNumbers
<1> HIDE DEF t, u, e
<1>5. CASE given = <<>>
  <2>1. given' = <<u>> /\ pc' = "value" /\ tests' = tests
    BY <1>1, <1>5
  <2>2. given' \in Seq(Texts \cup Variables) /\ Len(given') = 1 /\ given'[1] = u
        /\ DOMAIN given' = {1}
    BY <1>3, <2>1
  <2>3. LoadTypeOK'
    BY <1>1, <1>2, <2>1, <2>2 DEF LoadTypeOK, Places
  <2>4. OnStatement' /\ token' \in Tokens /\ limits' \in Limits /\ CurrentClause' = CurrentClause
    BY <1>1, <2>1, PlaceKept DEF InClause, placeVars
  <2>5. InOrder'
    BY <1>1, <2>1, <2>4 DEF LoadInv, InOrder, InClause
  <2>6. NumbersCanonical'
    BY <1>1, <1>2, <1>3, <2>1, <2>2, NumbersTranslated DEF NumbersCanonical
  <2>7. QED
    BY <2>3, <2>4, <2>5, <2>6 DEF LoadInv
<1>6. CASE given # <<>>
  <2>1. given' = <<>> /\ pc' = "tests" /\ tests' = Append(tests, e)
    BY <1>1, <1>6
  <2>2. tests \in Seq(Test) /\ e \in Test
    BY <1>4, <1>6 DEF LoadTypeOK
  <2>3. /\ tests' \in Seq(Test)
        /\ \A k \in DOMAIN tests' : \/ k \in DOMAIN tests /\ tests'[k] = tests[k]
                                    \/ tests'[k] = e
    BY <2>1, <2>2, AppendProperties, LenProperties
  <2>4. given' \in Seq(Texts \cup Variables) /\ DOMAIN given' = {}
    BY <2>1, EmptySeq
  <2>5. LoadTypeOK'
    BY <1>1, <1>2, <2>1, <2>3, <2>4 DEF LoadTypeOK, Places
  <2>6. OnStatement' /\ token' \in Tokens /\ limits' \in Limits /\ CurrentClause' = CurrentClause
    BY <1>1, <2>1, PlaceKept DEF InClause, placeVars
  <2>7. InOrder'
    BY <1>1, <2>1, <2>6 DEF LoadInv, InOrder, InClause
  <2>8. NumbersCanonical'
    <3>1. Canonical(entries', given[1].sym)
      <4>1. 1 \in DOMAIN given
        BY <1>6, EmptySeq, LenProperties DEF LoadTypeOK
      <4>2. QED
        BY <1>1, <4>1, NumbersTranslated
    <3>2. AllCanonical(entries', TestNumbers(e))
      BY <1>2, <1>4, <1>6, <3>1 DEF AllCanonical
    <3>3. \A k \in DOMAIN tests' : AllCanonical(entries', TestNumbers(tests'[k]))
      BY <1>1, <2>3, <3>2, NumbersTranslated
    <3>4. QED
      BY <1>1, <2>1, <2>4, <3>3, NumbersTranslated DEF NumbersCanonical
  <2>9. QED
    BY <2>5, <2>6, <2>7, <2>8 DEF LoadInv
<1>7. QED
  BY <1>5, <1>6

-----------------------------------------------------------------------------
(* Statements placed.                                                      *)

\* What a clause may trust is a set of origins.
LEMMA TrustTyped ==
  ASSUME LoadTypeOK, LoadInv, NEW scopes \in Seq(Scope), ScopesResolve(scopes),
         NEW fallback \in Origin
  PROVE  Trust(token, block, scopes, fallback) \in Origin
<1>1. Len(token) \in 1 .. MaxBlocks /\ block \in 0 .. MaxBlocks - 1
  BY TokenTyped
<1>2. 0 .. Len(token) - 1 \subseteq 0 .. MaxBlocks /\ 0 .. block \subseteq 0 .. MaxBlocks
  BY <1>1
<1>3. ASSUME NEW s \in ToSet(scopes)
      PROVE  Resolved(token, block, s) \subseteq 0 .. MaxBlocks
  <2>1. s \in Scope
    BY ElementOfSeq, LenProperties DEF ToSet
  <2>2. s.kind \in {"authority", "previous", "key"}
    BY <2>1 DEF Scope, ScopesResolve, Resolvable
  <2>3. CASE s.kind = "authority"
    BY <1>1, <2>3 DEF Resolved
  <2>4. CASE s.kind = "previous"
    BY <1>2, <2>4 DEF Resolved, Previous
  <2>5. CASE s.kind = "key"
    BY <1>2, <2>5 DEF Resolved, SignedBy
  <2>6. QED
    BY <2>2, <2>3, <2>4, <2>5
<1>4. (UNION {Resolved(token, block, s) : s \in ToSet(scopes)}) \subseteq 0 .. MaxBlocks
  BY <1>3
<1>5. {Authorizer, block} \subseteq 0 .. MaxBlocks
  BY <1>1 DEF Authorizer
<1>6. QED
  BY <1>4, <1>5 DEF Trust, Origin

\* A clause that is read whole is a rule, and its numbers are canonical.
LEMMA ClauseLoaded ==
  ASSUME LoadTypeOK, LoadInv, pc = "place", phase \in {"rules", "checks"},
         ScopesResolve(CurrentClause.scopes), NEW is_query \in BOOLEAN
  PROVE  Loaded(is_query) \in Rule /\ AllCanonical(entries, ClauseNumbers(Loaded(is_query)))
<1>1. /\ made \in Seq(Predicate) /\ made # <<>>
      /\ tests \in Seq(Test) /\ trust \in Origin
  BY DEF LoadTypeOK, LoadInv, InOrder, InClause
<1>2. /\ Len(made) \in Nat \ {0} /\ DOMAIN made = 1 .. Len(made)
      /\ made[1] \in Predicate
      /\ Tail(made) \in Seq(Predicate) /\ Len(Tail(made)) = Len(made) - 1
      /\ DOMAIN Tail(made) = 1 .. Len(made) - 1
      /\ \A i \in 1 .. Len(made) - 1 : Tail(made)[i] = made[i + 1]
  BY <1>1, EmptySeq, LenProperties, ElementOfSeq, HeadTailProperties
<1>3. CurrentClause \in Clause
  BY ClauseTyped DEF InClause
<1>4. Trust(token, block, CurrentClause.scopes, trust) \in Origin
  BY <1>1, <1>3, TrustTyped DEF Clause
<1>5. block \in 0 .. MaxBlocks
  BY TokenTyped
<1>6. Loaded(is_query) \in Rule
  BY <1>1, <1>2, <1>4, <1>5 DEF Loaded, Rule
<1>7. ASSUME NEW i \in ClauseNumbers(Loaded(is_query)) PROVE Canonical(entries, i)
  <2>1. \/ i \in NumbersOf(made[1])
        \/ \E k \in DOMAIN Tail(made) : i \in NumbersOf(Tail(made)[k])
        \/ \E e \in DOMAIN tests : i \in TestNumbers(tests[e])
    BY <1>7 DEF ClauseNumbers, Loaded
  <2>2. \/ \E k \in DOMAIN made : i \in NumbersOf(made[k])
        \/ \E e \in DOMAIN tests : i \in TestNumbers(tests[e])
    <3>1. CASE i \in NumbersOf(made[1])
      BY <1>2, <3>1
    <3>2. CASE \E k \in DOMAIN Tail(made) : i \in NumbersOf(Tail(made)[k])
      <4>1. PICK k \in 1 .. Len(made) - 1 : i \in NumbersOf(made[k + 1])
        BY <1>2, <3>2
      <4>2. k + 1 \in DOMAIN made
        BY <1>2
      <4>3. QED
        BY <4>1, <4>2
    <3>3. QED
      BY <2>1, <3>1, <3>2
  <2>3. QED
    BY <2>2 DEF LoadInv, NumbersCanonical, AllCanonical
<1>8. QED
  BY <1>6, <1>7 DEF AllCanonical

\* A fact is placed.
LEMMA FactPlaced ==
  ASSUME LoadTypeOK, LoadInv, PlaceFact
  PROVE  LoadTypeOK' /\ LoadInv'
<1> DEFINE f == [name |-> made[1].name, terms |-> made[1].terms, origin |-> {block}]
<1>1. /\ UNCHANGED <<token, limits, entries, rules, checks, used, status>>
      /\ UNCHANGED <<made, cur, tests, given>>
      /\ UNCHANGED <<block, phase, query, at, trust>>
      /\ pc = "place" /\ phase = "facts" /\ pc' = "next"
      /\ facts' = Append(facts, f) /\ msg' = msg + 1
  BY DEF PlaceFact, clauseVars
<1>2. 1 \in DOMAIN made /\ made[1] \in Predicate
  <2>1. made \in Seq(Predicate) /\ made # <<>>
    BY <1>1 DEF LoadTypeOK, LoadInv, InOrder, InClause
  <2>2. QED
    BY <2>1, EmptySeq, LenProperties, ElementOfSeq
<1>3. f \in Fact /\ NumbersOf(f) = NumbersOf(made[1])
  BY <1>2, TokenTyped DEF Fact, Predicate, Origin, NumbersOf
<1> HIDE DEF f
<1>4. facts \in Seq(Fact) /\ Len(facts) < limits.facts
  BY <1>1 DEF LoadTypeOK, LoadInv, OnStatement, RoomAhead, InClause
<1>5. /\ facts' \in Seq(Fact) /\ Len(facts') = Len(facts) + 1 /\ Len(facts) \in Nat
      /\ \A n \in DOMAIN facts' : \/ n \in DOMAIN facts /\ facts'[n] = facts[n]
                                  \/ facts'[n] = f
  BY <1>1, <1>3, <1>4, AppendProperties, LenProperties
<1>6. limits.facts \in Nat
  BY TokenTyped DEF Limit
<1>7. LoadTypeOK'
  <2>1. facts' \in Seq(Fact) /\ Len(facts') <= limits'.facts
    BY <1>1, <1>4, <1>5, <1>6
  <2>2. msg' \in Nat \ {0} /\ pc' \in Places
    BY <1>1 DEF LoadTypeOK, Places
  <2>3. QED
    BY <1>1, <2>1, <2>2 DEF LoadTypeOK
<1>8. OnStatement' /\ InOrder' /\ token' \in Tokens /\ limits' \in Limits
  BY <1>1 DEF LoadInv, OnStatement, RoomAhead, InOrder, InClause
<1>9. NumbersCanonical'
  <2>1. AllCanonical(entries, NumbersOf(f))
    BY <1>2, <1>3 DEF LoadInv, NumbersCanonical
  <2>2. \A n \in DOMAIN facts' : AllCanonical(entries, NumbersOf(facts'[n]))
    BY <1>5, <2>1 DEF LoadInv, NumbersCanonical
  <2>3. QED
    BY <1>1, <2>2 DEF LoadInv, NumbersCanonical
<1>10. QED
  BY <1>7, <1>8, <1>9 DEF LoadInv

\* A rule, or a query, appended to the rules keeps their numbers canonical.
LEMMA ClauseAppended ==
  ASSUME LoadTypeOK, LoadInv, UNCHANGED <<entries, facts, clauseVars>>,
         pc' \notin {"room", "terms"},
         NEW r \in Rule, AllCanonical(entries, ClauseNumbers(r)), rules' = Append(rules, r)
  PROVE  /\ rules' \in Seq(Rule) /\ Len(rules') = Len(rules) + 1 /\ Len(rules) \in Nat
         /\ NumbersCanonical'
<1>1. rules \in Seq(Rule)
  BY DEF LoadTypeOK
<1>2. /\ rules' \in Seq(Rule) /\ Len(rules') = Len(rules) + 1 /\ Len(rules) \in Nat
      /\ \A n \in DOMAIN rules' : \/ n \in DOMAIN rules /\ rules'[n] = rules[n]
                                  \/ rules'[n] = r
  BY <1>1, AppendProperties, LenProperties
<1>3. \A n \in DOMAIN rules' : AllCanonical(entries, ClauseNumbers(rules'[n]))
  BY <1>2 DEF LoadInv, NumbersCanonical
<1>4. NumbersCanonical'
  BY <1>3 DEF LoadInv, NumbersCanonical, clauseVars
<1>5. QED
  BY <1>2, <1>4

\* A rule is placed.
LEMMA RulePlaced ==
  ASSUME LoadTypeOK, LoadInv, PlaceRule
  PROVE  LoadTypeOK' /\ LoadInv'
<1>1. /\ UNCHANGED <<token, limits, entries, facts, checks, used, status, clauseVars>>
      /\ UNCHANGED <<block, phase, query, at, trust>>
      /\ pc = "place" /\ phase = "rules" /\ pc' = "next"
      /\ rules' = Append(rules, Loaded(FALSE)) /\ msg' = msg + 1
      /\ ScopesResolve(CurrentClause.scopes)
  BY DEF PlaceRule
<1>2. Loaded(FALSE) \in Rule /\ AllCanonical(entries, ClauseNumbers(Loaded(FALSE)))
  BY <1>1, ClauseLoaded
<1>3. /\ rules' \in Seq(Rule) /\ Len(rules') = Len(rules) + 1 /\ Len(rules) \in Nat
      /\ NumbersCanonical'
  BY <1>1, <1>2, ClauseAppended
<1>4. Len(rules) < limits.rules /\ limits.rules \in Nat
  BY <1>1, TokenTyped DEF LoadInv, OnStatement, RoomAhead, InClause, Limit
<1>5. LoadTypeOK'
  <2>1. Len(rules') <= limits'.rules
    BY <1>1, <1>3, <1>4
  <2>2. msg' \in Nat \ {0}
    BY <1>1 DEF LoadTypeOK
  <2>3. UNCHANGED <<made, cur, tests, given>>
    BY <1>1 DEF clauseVars
  <2>4. QED
    BY <1>1, <1>3, <2>1, <2>2, <2>3 DEF LoadTypeOK, Places
<1>6. OnStatement' /\ InOrder' /\ token' \in Tokens /\ limits' \in Limits
  BY <1>1 DEF LoadInv, OnStatement, RoomAhead, InOrder, InClause
<1>7. QED
  BY <1>3, <1>5, <1>6 DEF LoadInv

\* A query is placed, where the run of its check goes on.
LEMMA QueryPlaced ==
  ASSUME LoadTypeOK, LoadInv, PlaceQuery
  PROVE  LoadTypeOK' /\ LoadInv'
<1>1. /\ UNCHANGED <<token, limits, entries, facts, checks, used, status, clauseVars>>
      /\ UNCHANGED <<block, phase, msg, at, trust>>
      /\ pc = "place" /\ phase = "checks" /\ pc' = "query"
      /\ rules' = Append(rules, Loaded(TRUE)) /\ query' = query + 1
      /\ ScopesResolve(CurrentClause.scopes)
  BY DEF PlaceQuery
<1>2. Loaded(TRUE) \in Rule /\ AllCanonical(entries, ClauseNumbers(Loaded(TRUE)))
  BY <1>1, ClauseLoaded
<1>3. /\ rules' \in Seq(Rule) /\ Len(rules') = Len(rules) + 1 /\ Len(rules) \in Nat
      /\ NumbersCanonical'
  BY <1>1, <1>2, ClauseAppended
<1>4. /\ Len(rules) = at + query - 1
      /\ at + Len(Here.checks[msg].queries) <= limits.rules
      /\ msg \in DOMAIN Here.checks /\ query \in DOMAIN Here.checks[msg].queries
      /\ Here.checks[msg].kind # "unknown"
      /\ block < Len(token) /\ token \in Tokens /\ limits \in Limits
  BY <1>1 DEF LoadInv, OnStatement, RoomAhead, InClause, AtStatement
<1>5. query <= Len(Here.checks[msg].queries) /\ Len(Here.checks[msg].queries) \in Nat
  <2>1. Here.checks \in Seq(CheckMessage)
    BY TokenTyped, MessageFields
  <2>2. Here.checks[msg] \in CheckMessage
    BY <1>4, <2>1, ElementOfSeq, LenProperties
  <2>3. Here.checks[msg].queries \in Seq(Clause)
    BY <2>2 DEF CheckMessage
  <2>4. QED
    BY <1>4, <2>3, LenProperties
<1>6. at \in Nat /\ query \in Nat \ {0} /\ limits.rules \in Nat
  BY TokenTyped DEF LoadTypeOK, Limit
<1>7. Len(rules') <= limits.rules /\ Len(rules') = at + query' - 1
  <2>1. /\ Len(rules') = Len(rules) + 1 /\ Len(rules) = at + query - 1
        /\ at + Len(Here.checks[msg].queries) <= limits.rules
    BY <1>3, <1>4
  <2>2. query' = query + 1
    BY <1>1
  <2>3. QED
    BY <1>5, <1>6, <2>1, <2>2
<1>8. LoadTypeOK'
  <2>1. Len(rules') <= limits'.rules
    BY <1>1, <1>7
  <2>2. query' \in Nat \ {0}
    BY <1>1, <1>6
  <2>3. UNCHANGED <<made, cur, tests, given>>
    BY <1>1 DEF clauseVars
  <2>4. QED
    BY <1>1, <1>3, <2>1, <2>2, <2>3 DEF LoadTypeOK, Places
<1>9. OnStatement'
  <2>1. Here' = Here
    BY <1>1 DEF Here
  <2>2. RoomAhead'
    BY <1>1, <1>4, <1>7, <2>1 DEF RoomAhead, InClause
  <2>3. QED
    BY <1>1, <1>4, <2>1, <2>2 DEF OnStatement, InClause
<1>10. InOrder'
  BY <1>1 DEF InOrder, InClause
<1>11. QED
  BY <1>1, <1>3, <1>4, <1>8, <1>9, <1>10 DEF LoadInv

\* A check is placed, with the kind its message says.
LEMMA CheckPlaced ==
  ASSUME LoadTypeOK, LoadInv, PlaceCheck
  PROVE  LoadTypeOK' /\ LoadInv'
<1> DEFINE c == [query_at |-> at, query_count |-> query - 1,
                 kind |-> Here.checks[msg].kind, block |-> block]
<1>1. /\ UNCHANGED <<token, limits, entries, facts, rules, used, status, clauseVars>>
      /\ UNCHANGED <<block, phase, query, at, trust>>
      /\ pc = "query" /\ pc' = "next" /\ Len(checks) < limits.checks
      /\ checks' = Append(checks, c) /\ msg' = msg + 1
  BY DEF PlaceCheck
<1>2. c \in Check
  <2>1. msg \in DOMAIN Here.checks /\ Here.checks[msg].kind # "unknown"
    BY <1>1 DEF LoadInv, OnStatement
  <2>2. Here.checks \in Seq(CheckMessage)
    BY TokenTyped, MessageFields
  <2>3. Here.checks[msg] \in CheckMessage
    BY <2>1, <2>2, ElementOfSeq, LenProperties
  <2>4. Here.checks[msg].kind \in {"one", "all", "reject"}
    BY <2>1, <2>3 DEF CheckMessage
  <2>5. at \in Nat /\ query - 1 \in Nat /\ block \in 0 .. MaxBlocks
    BY TokenTyped DEF LoadTypeOK
  <2>6. QED
    BY <2>4, <2>5 DEF Check
<1> HIDE DEF c
<1>3. /\ checks' \in Seq(Check) /\ Len(checks') = Len(checks) + 1 /\ Len(checks) \in Nat
      /\ limits.checks \in Nat
  BY <1>1, <1>2, TokenTyped, AppendProperties, LenProperties DEF LoadTypeOK, Limit
<1>4. LoadTypeOK'
  <2>1. Len(checks') <= limits'.checks
    BY <1>1, <1>3
  <2>2. msg' \in Nat \ {0}
    BY <1>1 DEF LoadTypeOK
  <2>3. UNCHANGED <<made, cur, tests, given>>
    BY <1>1 DEF clauseVars
  <2>4. QED
    BY <1>1, <1>3, <2>1, <2>2, <2>3 DEF LoadTypeOK, Places
<1>5. OnStatement' /\ InOrder' /\ token' \in Tokens /\ limits' \in Limits
  BY <1>1 DEF LoadInv, OnStatement, RoomAhead, InOrder, InClause
<1>6. NumbersCanonical'
  BY <1>1, NumbersKept
<1>7. QED
  BY <1>4, <1>5, <1>6 DEF LoadInv

-----------------------------------------------------------------------------
(* The loops.                                                              *)

\* A fact or a rule is opened.
LEMMA StatementOpened ==
  ASSUME LoadTypeOK, LoadInv, NextFact \/ NextRule
  PROVE  LoadTypeOK' /\ LoadInv'
<1>1. UNCHANGED <<token, limits, poolVars, placeVars>>
  BY DEF NextFact, NextRule
<1>2. \/ Refuse("NOMEM") /\ UNCHANGED clauseVars
      \/ /\ phase = "facts" /\ msg <= Len(Here.facts) /\ Len(facts) < limits.facts
         /\ OpenClause /\ UNCHANGED status
      \/ /\ phase = "rules" /\ msg <= Len(Here.rules) /\ Len(rules) < limits.rules
         /\ OpenClause /\ UNCHANGED status
  BY DEF NextFact, NextRule
<1>3. CASE Refuse("NOMEM") /\ UNCHANGED clauseVars
  BY <1>1, <1>3, Refused
<1>4. /\ Here.facts \in Seq(Predicate) /\ Here.rules \in Seq(Clause) /\ msg \in Nat \ {0}
  BY TokenTyped, MessageFields DEF LoadTypeOK
<1>5. CASE /\ phase = "facts" /\ msg <= Len(Here.facts) /\ Len(facts) < limits.facts
           /\ OpenClause /\ UNCHANGED status
  <2>1. msg \in DOMAIN Here.facts
    BY <1>4, <1>5, LenProperties
  <2>2. AtStatement
    BY <1>5, <2>1 DEF AtStatement
  <2>3. QED
    BY <1>1, <1>5, <2>2, Opened
<1>6. CASE /\ phase = "rules" /\ msg <= Len(Here.rules) /\ Len(rules) < limits.rules
           /\ OpenClause /\ UNCHANGED status
  <2>1. msg \in DOMAIN Here.rules
    BY <1>4, <1>6, LenProperties
  <2>2. AtStatement
    BY <1>6, <2>1 DEF AtStatement
  <2>3. QED
    BY <1>1, <1>6, <2>2, Opened
<1>7. QED
  BY <1>2, <1>3, <1>5, <1>6

\* A query is opened.
LEMMA QueryOpened ==
  ASSUME LoadTypeOK, LoadInv, NextQuery
  PROVE  LoadTypeOK' /\ LoadInv'
<1>1. /\ UNCHANGED <<token, limits, poolVars, placeVars, status>>
      /\ pc = "query" /\ query <= Len(Here.checks[msg].queries) /\ OpenClause
  BY DEF NextQuery
<1>2. /\ phase = "checks" /\ msg \in DOMAIN Here.checks
      /\ Here.checks[msg].kind # "unknown"
      /\ Len(rules) = at + query - 1
      /\ at + Len(Here.checks[msg].queries) <= limits.rules
  BY <1>1 DEF LoadInv, OnStatement, RoomAhead
<1>3. query \in DOMAIN Here.checks[msg].queries
  <2>1. Here.checks \in Seq(CheckMessage)
    BY TokenTyped, MessageFields
  <2>2. Here.checks[msg] \in CheckMessage
    BY <1>2, <2>1, ElementOfSeq, LenProperties
  <2>3. Here.checks[msg].queries \in Seq(Clause)
    BY <2>2 DEF CheckMessage
  <2>4. QED
    BY <1>1, <2>3, LenProperties DEF LoadTypeOK
<1>4. AtStatement
  BY <1>2, <1>3 DEF AtStatement
<1>5. QED
  BY <1>1, <1>2, <1>4, Opened

\* A check is opened, with room for its queries.
LEMMA CheckOpened ==
  ASSUME LoadTypeOK, LoadInv, NextCheck
  PROVE  LoadTypeOK' /\ LoadInv'
<1> DEFINE c == Here.checks[msg]
<1>1. /\ UNCHANGED <<token, limits, poolVars, clauseVars, block, phase, msg, trust>>
      /\ pc = "next" /\ phase = "checks" /\ msg <= Len(Here.checks)
      /\ \/ Refuse("MALFORMED") /\ UNCHANGED <<query, at>>
         \/ Refuse("NOMEM") /\ UNCHANGED <<query, at>>
         \/ /\ c.kind # "unknown" /\ ~(Len(rules) + Len(c.queries) > limits.rules)
            /\ query' = 1 /\ at' = Len(rules) /\ pc' = "query" /\ UNCHANGED status
  BY DEF NextCheck, Meaningless
<1>2. CASE \/ Refuse("MALFORMED") /\ UNCHANGED <<query, at>>
           \/ Refuse("NOMEM") /\ UNCHANGED <<query, at>>
  <2>1. UNCHANGED placeVars
    BY <1>1, <1>2 DEF placeVars
  <2>2. QED
    BY <1>1, <1>2, <2>1, Refused
<1>3. CASE /\ c.kind # "unknown" /\ ~(Len(rules) + Len(c.queries) > limits.rules)
           /\ query' = 1 /\ at' = Len(rules) /\ pc' = "query" /\ UNCHANGED status
  <2>1. /\ UNCHANGED <<entries, facts, rules, checks, used>>
        /\ UNCHANGED <<made, cur, tests, given>>
    BY <1>1 DEF poolVars, clauseVars
  <2>2. Len(rules) \in Nat /\ limits.rules \in Nat /\ msg \in DOMAIN Here.checks
    <3>1. Here.checks \in Seq(CheckMessage) /\ msg \in Nat \ {0}
      BY TokenTyped, MessageFields DEF LoadTypeOK
    <3>2. limits \in Limit /\ rules \in Seq(Rule)
      BY TokenTyped DEF LoadTypeOK
    <3>3. limits.rules \in Nat
      BY <3>2 DEF Limit
    <3>4. Len(rules) \in Nat
      BY <3>2, LenProperties
    <3>5. msg \in DOMAIN Here.checks
      BY <1>1, <3>1, LenProperties
    <3>6. QED
      BY <3>3, <3>4, <3>5
  <2>3. Len(c.queries) \in Nat
    <3>1. Here.checks \in Seq(CheckMessage)
      BY TokenTyped, MessageFields
    <3>2. c \in CheckMessage
      BY <2>2, <3>1, ElementOfSeq, LenProperties
    <3>3. QED
      BY <3>2, LenProperties DEF CheckMessage
  <2>4. LoadTypeOK'
    BY <1>1, <1>3, <2>1, <2>2 DEF LoadTypeOK, Places
  <2>5. Here' = Here
    BY <1>1 DEF Here
  <2>6. /\ Len(rules') = at' + query' - 1
        /\ at' + Len(Here'.checks[msg'].queries) <= limits'.rules
    BY <1>1, <1>3, <2>1, <2>2, <2>3, <2>5
  <2>7. OnStatement'
    <3>1. RoomAhead'
      BY <1>1, <1>3, <2>6 DEF RoomAhead, InClause
    <3>2. QED
      BY <1>1, <1>3, <2>2, <2>5, <3>1 DEF LoadInv, OnStatement, InClause
  <2>8. InOrder' /\ token' \in Tokens /\ limits' \in Limits
    BY <1>1, <1>3 DEF LoadInv, InOrder, InClause
  <2>9. NumbersCanonical'
    BY <1>1, <1>3, <2>1, NumbersKept
  <2>10. QED
    BY <2>4, <2>7, <2>8, <2>9 DEF LoadInv
<1>4. QED
  BY <1>1, <1>2, <1>3

\* One loop ends and the next one begins.
LEMMA LoopEnded ==
  ASSUME LoadTypeOK, LoadInv, FactsDone \/ RulesDone \/ ChecksDone
  PROVE  LoadTypeOK' /\ LoadInv'
<1>1. /\ UNCHANGED <<token, limits, poolVars, clauseVars, query, at, trust>>
      /\ pc = "next"
      /\ \/ Refuse("OK") /\ UNCHANGED <<block, phase, msg>>
         \/ /\ block' \in {block, 0, block + 1} /\ block' < Len(token) /\ msg' = 1
            /\ phase' \in {"facts", "scope", "checks"} /\ UNCHANGED <<pc, status>>
  <2>1. block \in 0 .. Len(token) - 1 /\ Len(token) \in Nat \ {0}
    BY TokenTyped
  <2>2. CASE FactsDone
    <3>1. \/ block' = block + 1 /\ block + 1 < Len(token) /\ phase' = phase /\ phase = "facts"
          \/ block' = 0 /\ phase' = "scope"
      BY <2>2 DEF FactsDone
    <3>2. QED
      BY <2>1, <2>2, <3>1 DEF FactsDone
  <2>3. CASE RulesDone
    BY <2>1, <2>3 DEF RulesDone
  <2>4. CASE ChecksDone
    <3>1. CASE block + 1 < Len(token)
      BY <2>1, <2>4, <3>1 DEF ChecksDone
    <3>2. CASE ~(block + 1 < Len(token))
      BY <2>4, <3>2 DEF ChecksDone
    <3>3. QED
      BY <3>1, <3>2
  <2>5. QED
    BY <2>2, <2>3, <2>4
<1>2. CASE Refuse("OK") /\ UNCHANGED <<block, phase, msg>>
  <2>1. UNCHANGED placeVars
    BY <1>1, <1>2 DEF placeVars
  <2>2. QED
    BY <1>1, <1>2, <2>1, Refused
<1>3. CASE /\ block' \in {block, 0, block + 1} /\ block' < Len(token) /\ msg' = 1
           /\ phase' \in {"facts", "scope", "checks"} /\ UNCHANGED <<pc, status>>
  <2>1. /\ UNCHANGED <<entries, facts, rules, checks, used>>
        /\ UNCHANGED <<made, cur, tests, given>>
    BY <1>1 DEF poolVars, clauseVars
  <2>2. block' \in 0 .. MaxBlocks - 1
    BY <1>3, TokenTyped
  <2>3. LoadTypeOK'
    BY <1>1, <1>3, <2>1, <2>2 DEF LoadTypeOK
  <2>4. OnStatement' /\ InOrder' /\ token' \in Tokens /\ limits' \in Limits
    BY <1>1, <1>3 DEF LoadInv, OnStatement, RoomAhead, InOrder, InClause
  <2>5. NumbersCanonical'
    BY <1>1, <1>3, <2>1, NumbersKept
  <2>6. QED
    BY <2>3, <2>4, <2>5 DEF LoadInv
<1>4. QED
  BY <1>1, <1>2, <1>3

\* The scopes of the block are resolved.
LEMMA ScopesRead ==
  ASSUME LoadTypeOK, LoadInv, BlockTrust
  PROVE  LoadTypeOK' /\ LoadInv'
<1>1. /\ UNCHANGED <<token, limits, poolVars, clauseVars, block, msg, query, at>>
      /\ pc = "next"
      /\ \/ Refuse("MALFORMED") /\ UNCHANGED <<trust, phase>>
         \/ /\ ScopesResolve(Here.scopes)
            /\ trust' = Trust(token, block, Here.scopes, {0})
            /\ phase' = "rules" /\ UNCHANGED <<pc, status>>
  BY DEF BlockTrust
<1>2. CASE Refuse("MALFORMED") /\ UNCHANGED <<trust, phase>>
  <2>1. UNCHANGED placeVars
    BY <1>1, <1>2 DEF placeVars
  <2>2. QED
    BY <1>1, <1>2, <2>1, Refused
<1>3. CASE /\ ScopesResolve(Here.scopes)
           /\ trust' = Trust(token, block, Here.scopes, {0})
           /\ phase' = "rules" /\ UNCHANGED <<pc, status>>
  <2>1. {0} \in Origin /\ Here.scopes \in Seq(Scope)
    BY TokenTyped, MessageFields DEF Origin
  <2>2. trust' \in Origin
    BY <1>3, <2>1, TrustTyped
  <2>3. UNCHANGED <<entries, facts, rules, checks, used, made, cur, tests, given>>
    BY <1>1 DEF poolVars, clauseVars
  <2>4. LoadTypeOK'
    BY <1>1, <1>3, <2>2, <2>3 DEF LoadTypeOK
  <2>5. OnStatement' /\ InOrder' /\ token' \in Tokens /\ limits' \in Limits
    BY <1>1, <1>3 DEF LoadInv, OnStatement, RoomAhead, InOrder, InClause
  <2>6. NumbersCanonical'
    BY <1>1, <1>3, <2>3, NumbersKept
  <2>7. QED
    BY <2>4, <2>5, <2>6 DEF LoadInv
<1>4. QED
  BY <1>1, <1>2, <1>3

-----------------------------------------------------------------------------
(* The theorems.                                                           *)

\* Every turn of the loader keeps its types and its invariant.
LEMMA LoadInvStep ==
  ASSUME LoadTypeOK, LoadInv, [LoadNext]_loadVars
  PROVE  LoadTypeOK' /\ LoadInv'
<1>1. CASE ReadName
  BY <1>1, NameRead
<1>2. CASE ReadTerm
  BY <1>2, TermRead
<1>3. CASE ReadOperand
  BY <1>3, OperandRead
<1>4. CASE \/ Unnamed \/ NoSymbolRoom \/ PoolFull
           \/ BadScope \/ UnboundRule \/ NoCheckRoom
  <2>1. /\ UNCHANGED <<token, limits, poolVars, placeVars, clauseVars>>
        /\ \/ Refuse("MALFORMED") \/ Refuse("NOMEM") \/ Refuse("UNBOUND")
    BY <1>4 DEF Unnamed, NoSymbolRoom, PoolFull, BadScope, UnboundRule, NoCheckRoom
  <2>2. QED
    BY <2>1, Refused
<1>5. CASE Reserve
  BY <1>5, Reserved
<1>6. CASE PredicateDone
  BY <1>6, PredicateFinished
<1>7. CASE NextPredicate \/ NextExpression
  BY <1>7, MovedOn
<1>8. CASE PlaceFact
  BY <1>8, FactPlaced
<1>9. CASE PlaceRule
  BY <1>9, RulePlaced
<1>10. CASE PlaceQuery
  BY <1>10, QueryPlaced
<1>11. CASE PlaceCheck
  BY <1>11, CheckPlaced
<1>12. CASE NextFact \/ NextRule
  BY <1>12, StatementOpened
<1>13. CASE NextCheck
  BY <1>13, CheckOpened
<1>14. CASE NextQuery
  BY <1>14, QueryOpened
<1>15. CASE FactsDone \/ RulesDone \/ ChecksDone
  BY <1>15, LoopEnded
<1>16. CASE BlockTrust
  BY <1>16, ScopesRead
<1>17. CASE UNCHANGED loadVars
  <2>1. /\ UNCHANGED <<token, limits, entries, facts, rules, checks, used, placeVars>>
        /\ UNCHANGED <<block, phase, msg, query, at, trust>>
        /\ UNCHANGED <<made, cur, tests, given, pc, status>> /\ UNCHANGED clauseVars
    BY <1>17 DEF loadVars, poolVars, placeVars, clauseVars
  <2>2. LoadTypeOK'
    BY <2>1 DEF LoadTypeOK
  <2>3. OnStatement' /\ token' \in Tokens /\ limits' \in Limits /\ CurrentClause' = CurrentClause
    BY <2>1, PlaceKept DEF InClause
  <2>4. InOrder'
    BY <2>1, <2>3 DEF LoadInv, InOrder, InClause
  <2>5. NumbersCanonical'
    BY <2>1, NumbersKept
  <2>6. QED
    BY <2>2, <2>3, <2>4, <2>5 DEF LoadInv
<1>18. QED
  <2>1. LoadNext \/ UNCHANGED loadVars
    OBVIOUS
  <2>2. LoadStep \/ UNCHANGED loadVars
    BY <2>1 DEF LoadNext, Stopped
  <2>3. QED
    BY <2>2, <1>1, <1>2, <1>3, <1>4, <1>5, <1>6, <1>7, <1>8, <1>9, <1>10, <1>11,
       <1>12, <1>13, <1>14, <1>15, <1>16, <1>17 DEF LoadStep

\* They hold when the world and the symbol table are made.
LEMMA LoadInvInit ==
  ASSUME LoadInit
  PROVE  LoadTypeOK /\ LoadInv
<1>1. /\ token \in Tokens /\ limits \in Limits /\ entries = Seed(token)
      /\ facts = <<>> /\ rules = <<>> /\ checks = <<>> /\ used = [p \in Pools |-> 0]
      /\ block = 0 /\ phase = "facts" /\ msg = 1 /\ query = 1 /\ at = 0 /\ trust = {}
      /\ made = <<>> /\ cur = NoTerms /\ tests = <<>> /\ given = <<>>
      /\ pc = "next" /\ status = "none"
  BY DEF LoadInit
<1>2. /\ limits \in Limit /\ Len(token) \in 1 .. MaxBlocks /\ Seed(token) \in Seq(Text)
      /\ Len(Seed(token)) \in Nat
  BY <1>1, LenProperties
<1>3. /\ \A p \in Pools : limits[p] \in Nat
      /\ limits.facts \in Nat /\ limits.rules \in Nat
      /\ limits.checks \in Nat /\ limits.extra \in Nat
  BY <1>2 DEF Limit, Pools
<1>4. used \in [Pools -> Nat] /\ \A p \in Pools : used[p] <= limits[p]
  BY <1>1, <1>3
<1>5. NoTerms \in Predicate
  BY EmptySeq DEF NoTerms, Predicate, Symbol
<1>6. 0 \in 0 .. MaxBlocks - 1 /\ {} \in Origin
  BY DEF Origin
<1>7. LoadTypeOK
  BY <1>1, <1>2, <1>3, <1>4, <1>5, <1>6, EmptySeq DEF LoadTypeOK, Places
<1>8. OnStatement /\ InOrder
  BY <1>1, <1>2 DEF OnStatement, RoomAhead, InOrder, InClause
<1>9. NumbersCanonical
  BY <1>1, EmptySeq DEF NumbersCanonical
<1>10. QED
  BY <1>1, <1>7, <1>8, <1>9 DEF LoadInv

\* A loader keeps its types, never fills a pool past its end, stands on a
\* statement there is, and holds only canonical numbers.
THEOREM LoadInvariant == LoadSpec => [](LoadTypeOK /\ LoadInv)
<1>1. LoadInit => LoadTypeOK /\ LoadInv
  BY LoadInvInit
<1>2. LoadTypeOK /\ LoadInv /\ [LoadNext]_loadVars => (LoadTypeOK /\ LoadInv)'
  BY LoadInvStep
<1>3. QED
  BY <1>1, <1>2, PTL DEF LoadSpec

\* Two canonical numbers of one text are one number.
LEMMA OneNumber ==
  ASSUME LoadInv
  PROVE  OneSymbolOneText
<1>1. ASSUME NEW i \in WorldNumbers PROVE Canonical(entries, i)
  <2>1. \/ \E n \in DOMAIN facts : i \in NumbersOf(facts[n])
        \/ \E n \in DOMAIN rules : i \in ClauseNumbers(rules[n])
    BY <1>1 DEF WorldNumbers
  <2>2. QED
    BY <2>1 DEF LoadInv, NumbersCanonical, AllCanonical
<1>2. QED
  BY <1>1 DEF OneSymbolOneText, Canonical

\* In whatever order the blocks of a token are read, whichever tables number
\* their symbols and wherever the loading stops, two numbers of the world are
\* equal exactly when they spell the same.
THEOREM LoadOneSymbol == LoadSpec => []OneSymbolOneText
<1>1. LoadTypeOK /\ LoadInv => OneSymbolOneText
  BY OneNumber
<1>2. QED
  BY <1>1, LoadInvariant, PTL

-----------------------------------------------------------------------------
(* Sequences joined, and what is first in them.                            *)

\* A sequence begins with itself.
LEMMA PrefixItself ==
  ASSUME NEW S, NEW s \in Seq(S)
  PROVE  IsPrefix(s, s)
BY LenProperties DEF IsPrefix

\* A join begins with what it joins to.
LEMMA PrefixOfJoin ==
  ASSUME NEW S, NEW s \in Seq(S), NEW u \in Seq(S)
  PROVE  IsPrefix(s, s \o u)
<1>1. Len(s) \in Nat /\ Len(u) \in Nat /\ Len(s \o u) = Len(s) + Len(u)
  BY ConcatProperties, LenProperties
<1>2. SubSeq(s \o u, 1, Len(s)) = s /\ SubSeq(s, 1, Len(s)) = s
  BY <1>1, SubSeqOfConcat1, SubSeqFull
<1>3. QED
  BY <1>1, <1>2 DEF IsPrefix

\* What a prefix is, place by place.
LEMMA PrefixPlaces ==
  ASSUME NEW S, NEW s \in Seq(S), NEW u \in Seq(S)
  PROVE  IsPrefix(s, u) <=> /\ Len(s) <= Len(u)
                            /\ \A k \in 1 .. Len(s) : s[k] = u[k]
<1>1. Len(s) \in Nat /\ Len(u) \in Nat
  BY LenProperties
<1>2. SubSeq(s, 1, Len(s)) = s
  BY SubSeqFull
<1>3. ASSUME Len(s) <= Len(u)
      PROVE  /\ SubSeq(u, 1, Len(s)) \in Seq(S) /\ Len(SubSeq(u, 1, Len(s))) = Len(s)
             /\ \A k \in 1 .. Len(s) : SubSeq(u, 1, Len(s))[k] = u[k]
  <2>1. \A k \in 1 .. Len(s) : u[k] \in S
    BY <1>1, <1>3, ElementOfSeq
  <2>2. QED
    BY <1>1, <2>1, SubSeqProperties
<1>4. ASSUME Len(s) <= Len(u), \A k \in 1 .. Len(s) : s[k] = u[k]
      PROVE  SubSeq(u, 1, Len(s)) = s
  BY <1>1, <1>3, <1>4, SeqEqual
<1>5. QED
  BY <1>1, <1>2, <1>3, <1>4 DEF IsPrefix

\* The beginning of a beginning is a beginning.
LEMMA PrefixOn ==
  ASSUME NEW S, NEW s \in Seq(S), NEW u \in Seq(S), NEW v \in Seq(S),
         IsPrefix(s, u), IsPrefix(u, v)
  PROVE  IsPrefix(s, v)
<1>1. Len(s) \in Nat /\ Len(u) \in Nat /\ Len(v) \in Nat
  BY LenProperties
<1>2. Len(s) <= Len(u) /\ Len(u) <= Len(v) /\ (\A k \in 1 .. Len(s) : s[k] = u[k])
      /\ (\A k \in 1 .. Len(u) : u[k] = v[k])
  BY PrefixPlaces
<1>3. Len(s) <= Len(v) /\ \A k \in 1 .. Len(s) : s[k] = v[k]
  BY <1>1, <1>2
<1>4. QED
  BY <1>3, PrefixPlaces

\* A prefix before more.
LEMMA PrefixJoined ==
  ASSUME NEW S, NEW s \in Seq(S), NEW u \in Seq(S), NEW v \in Seq(S), IsPrefix(u, v)
  PROVE  IsPrefix(s \o u, s \o v)
<1>1. Len(s) \in Nat /\ Len(u) \in Nat /\ Len(v) \in Nat
  BY LenProperties
<1>2. Len(u) <= Len(v) /\ \A k \in 1 .. Len(u) : u[k] = v[k]
  BY PrefixPlaces
<1>3. /\ s \o u \in Seq(S) /\ Len(s \o u) = Len(s) + Len(u)
      /\ \A k \in 1 .. Len(s) + Len(u) : (s \o u)[k] = IF k <= Len(s) THEN s[k] ELSE u[k - Len(s)]
  BY ConcatProperties
<1>4. /\ s \o v \in Seq(S) /\ Len(s \o v) = Len(s) + Len(v)
      /\ \A k \in 1 .. Len(s) + Len(v) : (s \o v)[k] = IF k <= Len(s) THEN s[k] ELSE v[k - Len(s)]
  BY ConcatProperties
<1>5. ASSUME NEW k \in 1 .. Len(s) + Len(u) PROVE (s \o u)[k] = (s \o v)[k]
  <2>1. k \in 1 .. Len(s) + Len(v)
    BY <1>1, <1>2
  <2>2. k > Len(s) => k - Len(s) \in 1 .. Len(u)
    BY <1>1
  <2>3. QED
    BY <1>1, <1>2, <1>3, <1>4, <2>1, <2>2
<1>6. Len(s \o u) <= Len(s \o v) /\ \A k \in 1 .. Len(s \o u) : (s \o u)[k] = (s \o v)[k]
  BY <1>1, <1>2, <1>3, <1>4, <1>5
<1>7. QED
  BY <1>3, <1>4, <1>6, PrefixPlaces

\* The parts joined, part after part.
Joins(seqs, n, f) == f = [i \in 1 .. n |-> IF i = 1 THEN seqs[i] ELSE f[i - 1] \o seqs[i]]

\* One more can be joined.
LEMMA JoinsOn ==
  ASSUME NEW seqs, NEW n \in Nat \ {0}, NEW f, Joins(seqs, n, f)
  PROVE  \E g : Joins(seqs, n + 1, g)
<1> DEFINE g == [i \in 1 .. n + 1 |-> IF i = n + 1 THEN f[n] \o seqs[n + 1] ELSE f[i]]
<1>1. ASSUME NEW i \in 1 .. n + 1
      PROVE  g[i] = IF i = 1 THEN seqs[i] ELSE g[i - 1] \o seqs[i]
  <2>1. CASE i = n + 1
    <3>1. i - 1 = n /\ n \in 1 .. n + 1 /\ n # n + 1 /\ i # 1
      BY <2>1
    <3>2. g[i] = f[n] \o seqs[i] /\ g[n] = f[n]
      BY <2>1, <3>1
    <3>3. QED
      BY <3>1, <3>2
  <2>2. CASE i # n + 1
    <3>1. i \in 1 .. n /\ g[i] = f[i]
      BY <2>2
    <3>2. f[i] = IF i = 1 THEN seqs[i] ELSE f[i - 1] \o seqs[i]
      BY <3>1 DEF Joins
    <3>3. i # 1 => g[i - 1] = f[i - 1]
      BY <3>1
    <3>4. QED
      BY <3>1, <3>2, <3>3
  <2>3. QED
    BY <2>1, <2>2
<1>2. g = [i \in 1 .. n + 1 |-> g[i]]
  OBVIOUS
<1> HIDE DEF g
<1>3. g = [i \in 1 .. n + 1 |-> IF i = 1 THEN seqs[i] ELSE g[i - 1] \o seqs[i]]
  BY <1>1, <1>2
<1>4. QED
  BY <1>3 DEF Joins

\* So any number can.
LEMMA JoinsExist ==
  ASSUME NEW seqs, NEW n \in Nat \ {0}
  PROVE  \E f : Joins(seqs, n, f)
<1> DEFINE Off == {m \in Nat \ {0} : ~\E f : Joins(seqs, m, f)}
<1>1. ASSUME Off # {} PROVE FALSE
  <2>1. PICK m \in Off : \A j \in Off : m <= j
    <3>1. Off \in SUBSET Nat
      OBVIOUS
    <3> HIDE DEF Off
    <3>2. QED
      BY <1>1, <3>1, LeastNumber
  <2>2. CASE m = 1
    <3>1. Joins(seqs, 1, [i \in 1 .. 1 |-> seqs[i]])
      BY DEF Joins
    <3>2. QED
      BY <2>1, <2>2, <3>1
  <2>3. CASE m # 1
    <3>1. m - 1 \in Nat \ {0} /\ (m - 1) + 1 = m /\ ~(m <= m - 1)
      BY <2>1, <2>3
    <3>2. PICK f : Joins(seqs, m - 1, f)
      BY <2>1, <3>1
    <3>3. \E g : Joins(seqs, (m - 1) + 1, g)
      BY <3>1, <3>2, JoinsOn
    <3>4. QED
      BY <2>1, <3>1, <3>3
  <2>4. QED
    BY <2>2, <2>3
<1>2. QED
  BY <1>1

\* Whatever follows in the parts.
LEMMA JoinsAgree ==
  ASSUME NEW S, NEW seqs \in Seq(Seq(S)), NEW parts, NEW n \in Nat, NEW m \in Nat,
         n <= m, n <= Len(seqs), \A k \in 1 .. n : seqs[k] = parts[k],
         NEW f, Joins(seqs, n, f), NEW g, Joins(parts, m, g)
  PROVE  \A k \in 1 .. n : f[k] = g[k] /\ f[k] \in Seq(S)
<1> DEFINE Off == {k \in 1 .. n : ~(f[k] = g[k] /\ f[k] \in Seq(S))}
<1>1. ASSUME Off # {} PROVE FALSE
  <2>1. PICK k \in Off : \A j \in Off : k <= j
    <3>1. Off \in SUBSET Nat
      OBVIOUS
    <3> HIDE DEF Off
    <3>2. QED
      BY <1>1, <3>1, LeastNumber
  <2>2. k \in 1 .. n /\ k \in 1 .. m
    BY <2>1
  <2>3. f[k] = IF k = 1 THEN seqs[k] ELSE f[k - 1] \o seqs[k]
    BY <2>2 DEF Joins
  <2>4. g[k] = IF k = 1 THEN parts[k] ELSE g[k - 1] \o parts[k]
    BY <2>2 DEF Joins
  <2>5. seqs[k] = parts[k] /\ seqs[k] \in Seq(S)
    <3>1. k \in 1 .. Len(seqs)
      BY <2>2, LenProperties
    <3>2. QED
      BY <2>2, <3>1, ElementOfSeq
  <2>6. CASE k = 1
    BY <2>1, <2>3, <2>4, <2>5, <2>6
  <2>7. CASE k # 1
    <3>1. k - 1 \in 1 .. n /\ ~(k <= k - 1)
      BY <2>2, <2>7
    <3>2. f[k - 1] = g[k - 1] /\ f[k - 1] \in Seq(S)
      BY <2>1, <3>1
    <3>3. f[k - 1] \o seqs[k] \in Seq(S)
      BY <2>5, <3>2, ConcatProperties
    <3>4. QED
      BY <2>1, <2>3, <2>4, <2>5, <2>7, <3>2, <3>3
  <2>8. QED
    BY <2>6, <2>7
<1>2. QED
  BY <1>1

\* FlattenSeq is the last of the joins.
LEMMA FlattenIs ==
  ASSUME NEW seqs, Len(seqs) \in Nat \ {0}
  PROVE  \E f : Joins(seqs, Len(seqs), f) /\ FlattenSeq(seqs) = f[Len(seqs)]
<1> DEFINE flat == CHOOSE f : f = [i \in 1 .. Len(seqs) |->
                     IF i = 1 THEN seqs[i] ELSE f[i - 1] \o seqs[i]]
<1>1. FlattenSeq(seqs) = flat[Len(seqs)]
  BY DEF FlattenSeq
<1>2. flat = CHOOSE f : Joins(seqs, Len(seqs), f)
  BY DEF Joins
<1>3. Joins(seqs, Len(seqs), CHOOSE f : Joins(seqs, Len(seqs), f))
  BY JoinsExist
<1>4. QED
  BY <1>1, <1>2, <1>3

\* Before the first part there is nothing.
LEMMA NoneBefore ==
  ASSUME NEW seqs
  PROVE  FirstParts(seqs, 0) = <<>>
<1>1. SubSeq(seqs, 1, 0) = <<>>
  BY SubSeqEmpty
<1>2. QED
  BY <1>1 DEF FirstParts, FlattenSeq

\* All the parts are the whole.
LEMMA AllBefore ==
  ASSUME NEW S, NEW seqs \in Seq(S)
  PROVE  FirstParts(seqs, Len(seqs)) = FlattenSeq(seqs)
BY SubSeqFull DEF FirstParts

\* One part more.
LEMMA OneMore ==
  ASSUME NEW S, NEW seqs \in Seq(Seq(S)), NEW n \in Nat, n < Len(seqs)
  PROVE  /\ FirstParts(seqs, n + 1) = FirstParts(seqs, n) \o seqs[n + 1]
         /\ FirstParts(seqs, n) \in Seq(S) /\ FirstParts(seqs, n + 1) \in Seq(S)
         /\ seqs[n + 1] \in Seq(S)
<1> DEFINE fst == SubSeq(seqs, 1, n)
           snd == SubSeq(seqs, 1, n + 1)
<1>1. Len(seqs) \in Nat /\ n + 1 \in 1 .. Len(seqs) /\ seqs[n + 1] \in Seq(S)
  BY LenProperties, ElementOfSeq
<1>2. /\ fst \in Seq(Seq(S)) /\ Len(fst) = n /\ \A k \in 1 .. n : fst[k] = seqs[k]
      /\ snd \in Seq(Seq(S)) /\ Len(snd) = n + 1 /\ \A k \in 1 .. n + 1 : snd[k] = seqs[k]
  <2>1. \A k \in 1 .. n + 1 : seqs[k] \in Seq(S)
    BY <1>1, ElementOfSeq
  <2>2. \A k \in 1 .. n : seqs[k] \in Seq(S)
    BY <2>1
  <2>3. /\ fst \in Seq(Seq(S)) /\ Len(fst) = n /\ \A k \in 1 .. n : fst[k] = seqs[k]
    BY <1>1, <2>2, SubSeqProperties
  <2>4. /\ snd \in Seq(Seq(S)) /\ Len(snd) = n + 1 /\ \A k \in 1 .. n + 1 : snd[k] = seqs[k]
    BY <1>1, <2>1, SubSeqProperties
  <2>5. QED
    BY <2>3, <2>4
<1> HIDE DEF fst, snd
<1>3. PICK g : Joins(snd, n + 1, g) /\ FlattenSeq(snd) = g[n + 1]
  <2>1. Len(snd) = n + 1 /\ n + 1 \in Nat \ {0}
    BY <1>2
  <2>2. \E g : Joins(snd, Len(snd), g) /\ FlattenSeq(snd) = g[Len(snd)]
    BY <2>1, FlattenIs
  <2>3. QED
    BY <2>1, <2>2
<1>4. g[n + 1] = IF n + 1 = 1 THEN snd[n + 1] ELSE g[(n + 1) - 1] \o snd[n + 1]
  <2>1. n + 1 \in 1 .. n + 1
    OBVIOUS
  <2>2. QED
    BY <1>3, <2>1 DEF Joins
<1>5. CASE n = 0
  <2>1. FlattenSeq(fst) = <<>>
    <3>1. fst = <<>>
      BY <1>2, <1>5, EmptySeq
    <3>2. QED
      BY <3>1 DEF FlattenSeq
  <2>2. FlattenSeq(snd) = seqs[n + 1]
    BY <1>2, <1>3, <1>4, <1>5
  <2>3. <<>> \o seqs[n + 1] = seqs[n + 1] /\ <<>> \in Seq(S)
    BY <1>1, ConcatEmptySeq, EmptySeq
  <2>4. QED
    BY <1>1, <2>1, <2>2, <2>3 DEF FirstParts, fst, snd
<1>6. CASE n # 0
  <2>1. PICK f : Joins(fst, n, f) /\ FlattenSeq(fst) = f[n]
    BY <1>2, <1>6, FlattenIs
  <2>2. ASSUME NEW k \in 1 .. n PROVE fst[k] = snd[k]
    <3>1. k \in 1 .. n + 1
      OBVIOUS
    <3>2. fst[k] = seqs[k] /\ snd[k] = seqs[k]
      BY <1>2, <3>1
    <3>3. QED
      BY <3>2
  <2>3. f[n] = g[n] /\ f[n] \in Seq(S)
    <3>1. n \in 1 .. n /\ n <= n + 1 /\ n <= Len(fst) /\ n + 1 \in Nat
      BY <1>2, <1>6
    <3>2. fst \in Seq(Seq(S)) /\ Joins(fst, n, f) /\ Joins(snd, n + 1, g)
          /\ \A k \in 1 .. n : fst[k] = snd[k]
      BY <1>2, <1>3, <2>1, <2>2
    <3>4. \A k \in 1 .. n : f[k] = g[k] /\ f[k] \in Seq(S)
      BY <3>1, <3>2, JoinsAgree, Zenon
    <3>3. QED
      BY <3>1, <3>4
  <2>4. FlattenSeq(snd) = FlattenSeq(fst) \o seqs[n + 1]
    <3>1. (n + 1) - 1 = n /\ n + 1 # 1 /\ n + 1 \in 1 .. n + 1
      BY <1>6
    <3>2. snd[n + 1] = seqs[n + 1]
      BY <1>2, <3>1
    <3>3. g[n + 1] = g[n] \o seqs[n + 1]
      BY <1>4, <3>1, <3>2
    <3>4. QED
      BY <1>3, <2>1, <2>3, <3>3
  <2>5. FlattenSeq(fst) \o seqs[n + 1] \in Seq(S)
    BY <1>1, <2>1, <2>3, ConcatProperties
  <2>6. QED
    BY <1>1, <2>1, <2>3, <2>4, <2>5 DEF FirstParts, fst, snd
<1>7. QED
  BY <1>5, <1>6

\* The first parts are of the same elements.
LEMMA BeforeTyped ==
  ASSUME NEW S, NEW seqs \in Seq(Seq(S)), NEW n \in 0 .. Len(seqs)
  PROVE  FirstParts(seqs, n) \in Seq(S)
<1>1. Len(seqs) \in Nat
  BY LenProperties
<1>2. CASE n = 0
  BY <1>2, NoneBefore, EmptySeq
<1>3. CASE n # 0
  <2>1. n - 1 \in Nat /\ n - 1 < Len(seqs) /\ (n - 1) + 1 = n
    BY <1>1, <1>3
  <2>2. FirstParts(seqs, (n - 1) + 1) \in Seq(S)
    BY <2>1, OneMore
  <2>3. QED
    BY <2>1, <2>2
<1>4. QED
  BY <1>2, <1>3

\* What some parts say is where it is in all of them.
LEMMA BeforeIsPrefix ==
  ASSUME NEW S, NEW seqs \in Seq(Seq(S)), NEW n \in 0 .. Len(seqs)
  PROVE  /\ FlattenSeq(seqs) \in Seq(S)
         /\ IsPrefix(FirstParts(seqs, n), FlattenSeq(seqs))
<1>1. Len(seqs) \in Nat /\ n \in Nat /\ Len(seqs) \in 0 .. Len(seqs)
  BY LenProperties
<1> DEFINE Off == {m \in n .. Len(seqs) : ~IsPrefix(FirstParts(seqs, n), FirstParts(seqs, m))}
<1>2. ASSUME Off # {} PROVE FALSE
  <2>1. PICK m \in Off : \A j \in Off : m <= j
    <3>1. Off \in SUBSET Nat
      BY <1>1
    <3> HIDE DEF Off
    <3>2. QED
      BY <1>2, <3>1, LeastNumber
  <2>2. m # n
    <3>1. IsPrefix(FirstParts(seqs, n), FirstParts(seqs, n))
      BY BeforeTyped, PrefixItself
    <3>2. QED
      BY <2>1, <3>1
  <2>3. /\ m - 1 \in n .. Len(seqs) /\ m - 1 \in Nat /\ m - 1 < Len(seqs) /\ (m - 1) + 1 = m
        /\ ~(m <= m - 1) /\ m \in 0 .. Len(seqs) /\ m - 1 \in 0 .. Len(seqs)
    BY <1>1, <2>1, <2>2
  <2>4. IsPrefix(FirstParts(seqs, n), FirstParts(seqs, m - 1))
    BY <2>1, <2>3
  <2>5. /\ FirstParts(seqs, m) = FirstParts(seqs, m - 1) \o seqs[m]
        /\ FirstParts(seqs, m - 1) \in Seq(S) /\ FirstParts(seqs, m) \in Seq(S) /\ seqs[m] \in Seq(S)
    <3>1. /\ FirstParts(seqs, (m - 1) + 1) = FirstParts(seqs, m - 1) \o seqs[(m - 1) + 1]
          /\ FirstParts(seqs, m - 1) \in Seq(S) /\ FirstParts(seqs, (m - 1) + 1) \in Seq(S)
          /\ seqs[(m - 1) + 1] \in Seq(S)
      BY <2>3, OneMore
    <3>2. QED
      BY <2>3, <3>1
  <2>6. IsPrefix(FirstParts(seqs, m - 1), FirstParts(seqs, m))
    BY <2>5, PrefixOfJoin
  <2>7. FirstParts(seqs, n) \in Seq(S)
    BY BeforeTyped
  <2>8. IsPrefix(FirstParts(seqs, n), FirstParts(seqs, m))
    BY <2>4, <2>5, <2>6, <2>7, PrefixOn
  <2>9. QED
    BY <2>1, <2>8
<1>3. IsPrefix(FirstParts(seqs, n), FirstParts(seqs, Len(seqs)))
  <2>1. Len(seqs) \in n .. Len(seqs)
    BY <1>1
  <2>2. QED
    BY <1>2, <2>1
<1>4. FirstParts(seqs, Len(seqs)) = FlattenSeq(seqs)
  BY AllBefore
<1>5. FlattenSeq(seqs) \in Seq(S)
  BY <1>1, <1>4, BeforeTyped
<1>6. QED
  BY <1>3, <1>4, <1>5

-----------------------------------------------------------------------------
(* The tables of a chain go on from those of its beginning.                *)

\* The distinct ones of the first n keys, as Distinct defines them.
Firsts(keys, n, f) ==
  f = [i \in 0 .. n |-> IF i = 0 THEN <<>>
                        ELSE IF keys[i] \in ToSet(f[i - 1]) THEN f[i - 1]
                        ELSE Append(f[i - 1], keys[i])]

\* The distinct keys of one key more.
LEMMA FirstsOn ==
  ASSUME NEW keys, NEW n \in Nat, NEW f, Firsts(keys, n, f)
  PROVE  \E g : Firsts(keys, n + 1, g)
<1> DEFINE last == IF keys[n + 1] \in ToSet(f[n]) THEN f[n] ELSE Append(f[n], keys[n + 1])
           g == [i \in 0 .. n + 1 |-> IF i = n + 1 THEN last ELSE f[i]]
<1>1. ASSUME NEW i \in 0 .. n + 1
      PROVE  g[i] = IF i = 0 THEN <<>>
                    ELSE IF keys[i] \in ToSet(g[i - 1]) THEN g[i - 1]
                    ELSE Append(g[i - 1], keys[i])
  <2>1. CASE i = n + 1
    <3>1. i - 1 = n /\ n \in 0 .. n + 1 /\ n # n + 1 /\ i # 0
      BY <2>1
    <3>2. g[i] = last /\ g[n] = f[n]
      BY <2>1, <3>1
    <3>3. QED
      BY <2>1, <3>1, <3>2
  <2>2. CASE i # n + 1
    <3>1. i \in 0 .. n /\ g[i] = f[i]
      BY <2>2
    <3>2. f[i] = IF i = 0 THEN <<>>
                 ELSE IF keys[i] \in ToSet(f[i - 1]) THEN f[i - 1]
                 ELSE Append(f[i - 1], keys[i])
      BY <3>1 DEF Firsts
    <3>3. i # 0 => g[i - 1] = f[i - 1]
      BY <3>1
    <3>4. QED
      BY <3>1, <3>2, <3>3
  <2>3. QED
    BY <2>1, <2>2
<1>2. g = [i \in 0 .. n + 1 |-> g[i]]
  OBVIOUS
<1> HIDE DEF g
<1>3. g = [i \in 0 .. n + 1 |-> IF i = 0 THEN <<>>
                                ELSE IF keys[i] \in ToSet(g[i - 1]) THEN g[i - 1]
                                ELSE Append(g[i - 1], keys[i])]
  BY <1>1, <1>2
<1>4. QED
  BY <1>3 DEF Firsts

\* So of any number.
LEMMA FirstsExist ==
  ASSUME NEW keys, NEW n \in Nat
  PROVE  \E f : Firsts(keys, n, f)
<1> DEFINE Off == {m \in Nat : ~\E f : Firsts(keys, m, f)}
<1>1. ASSUME Off # {} PROVE FALSE
  <2>1. PICK m \in Off : \A j \in Off : m <= j
    <3>1. Off \in SUBSET Nat
      OBVIOUS
    <3> HIDE DEF Off
    <3>2. QED
      BY <1>1, <3>1, LeastNumber
  <2>2. CASE m = 0
    <3>1. Firsts(keys, 0, [i \in 0 .. 0 |-> <<>>])
      BY DEF Firsts
    <3>2. QED
      BY <2>1, <2>2, <3>1
  <2>3. CASE m # 0
    <3>1. m - 1 \in Nat /\ (m - 1) + 1 = m /\ ~(m <= m - 1)
      BY <2>1, <2>3
    <3>2. PICK f : Firsts(keys, m - 1, f)
      BY <2>1, <3>1
    <3>3. \E g : Firsts(keys, (m - 1) + 1, g)
      BY <3>1, <3>2, FirstsOn
    <3>4. QED
      BY <2>1, <3>1, <3>3
  <2>4. QED
    BY <2>2, <2>3
<1>2. QED
  BY <1>1

\* Distinct is the last of them.
LEMMA DistinctIs ==
  ASSUME NEW keys, Len(keys) \in Nat
  PROVE  \E f : Firsts(keys, Len(keys), f) /\ Distinct(keys) = f[Len(keys)]
<1> DEFINE first == CHOOSE f : f = [n \in 0 .. Len(keys) |->
                      IF n = 0 THEN <<>>
                      ELSE IF keys[n] \in ToSet(f[n - 1]) THEN f[n - 1]
                      ELSE Append(f[n - 1], keys[n])]
<1>1. Distinct(keys) = first[Len(keys)]
  BY DEF Distinct
<1>2. first = CHOOSE f : Firsts(keys, Len(keys), f)
  BY DEF Firsts
<1>3. Firsts(keys, Len(keys), CHOOSE f : Firsts(keys, Len(keys), f))
  BY FirstsExist
<1>4. QED
  BY <1>1, <1>2, <1>3

\* The first places are kept, whatever follows.
LEMMA FirstsAgree ==
  ASSUME NEW S, NEW keys \in Seq(S), NEW more \in Seq(S), IsPrefix(keys, more),
         NEW f, Firsts(keys, Len(keys), f), NEW g, Firsts(more, Len(more), g)
  PROVE  \A k \in 0 .. Len(keys) : f[k] = g[k]
<1>0. Len(keys) \in Nat /\ Len(more) \in Nat /\ Len(keys) <= Len(more)
      /\ \A k \in 1 .. Len(keys) : keys[k] = more[k]
  BY LenProperties, PrefixPlaces
<1> DEFINE Off == {k \in 0 .. Len(keys) : f[k] # g[k]}
<1>1. ASSUME Off # {} PROVE FALSE
  <2>1. PICK k \in Off : \A j \in Off : k <= j
    <3>1. Off \in SUBSET Nat
      BY <1>0
    <3> HIDE DEF Off
    <3>2. QED
      BY <1>1, <3>1, LeastNumber
  <2>2. k \in 0 .. Len(keys) /\ k \in 0 .. Len(more)
    BY <1>0, <2>1
  <2>3. f[k] = IF k = 0 THEN <<>>
               ELSE IF keys[k] \in ToSet(f[k - 1]) THEN f[k - 1]
               ELSE Append(f[k - 1], keys[k])
    BY <2>2 DEF Firsts
  <2>4. g[k] = IF k = 0 THEN <<>>
               ELSE IF more[k] \in ToSet(g[k - 1]) THEN g[k - 1]
               ELSE Append(g[k - 1], more[k])
    BY <2>2 DEF Firsts
  <2>5. CASE k = 0
    BY <2>1, <2>3, <2>4, <2>5
  <2>6. CASE k # 0
    <3>1. k - 1 \in 0 .. Len(keys) /\ ~(k <= k - 1) /\ k \in 1 .. Len(keys)
      BY <2>2, <2>6
    <3>2. f[k - 1] = g[k - 1] /\ keys[k] = more[k]
      BY <1>0, <2>1, <3>1
    <3>3. QED
      BY <2>1, <2>3, <2>4, <2>6, <3>2
  <2>7. QED
    BY <2>5, <2>6
<1>2. QED
  BY <1>1

\* Each is what the one before it is, or that and one more.
LEMMA FirstsGrow ==
  ASSUME NEW S, NEW keys \in Seq(S), NEW g, Firsts(keys, Len(keys), g), NEW n \in 0 .. Len(keys)
  PROVE  /\ \A k \in 0 .. Len(keys) : g[k] \in Seq(S)
         /\ \A k \in n .. Len(keys) : IsPrefix(g[n], g[k])
<1>0. Len(keys) \in Nat /\ n \in Nat
  BY LenProperties
<1>1. ASSUME NEW k \in 1 .. Len(keys), g[k - 1] \in Seq(S)
      PROVE  g[k] \in Seq(S) /\ IsPrefix(g[k - 1], g[k])
  <2>1. k \in 0 .. Len(keys) /\ k # 0 /\ keys[k] \in S
    BY ElementOfSeq
  <2>2. g[k] = IF keys[k] \in ToSet(g[k - 1]) THEN g[k - 1] ELSE Append(g[k - 1], keys[k])
    <3>1. g[k] = IF k = 0 THEN <<>>
                 ELSE IF keys[k] \in ToSet(g[k - 1]) THEN g[k - 1]
                 ELSE Append(g[k - 1], keys[k])
      BY <2>1 DEF Firsts
    <3>2. QED
      BY <2>1, <3>1
  <2>3. CASE g[k] = g[k - 1]
    BY <1>1, <2>3, PrefixItself
  <2>4. CASE g[k] = Append(g[k - 1], keys[k])
    <3>1. /\ g[k] \in Seq(S) /\ Len(g[k]) = Len(g[k - 1]) + 1
          /\ \A j \in 1 .. Len(g[k - 1]) : g[k][j] = g[k - 1][j]
      BY <1>1, <2>1, <2>4, AppendProperties
    <3>2. Len(g[k - 1]) \in Nat
      BY <1>1, LenProperties
    <3> DEFINE before == g[k - 1]
               after == g[k]
    <3>3. /\ before \in Seq(S) /\ after \in Seq(S) /\ Len(before) <= Len(after)
          /\ \A j \in 1 .. Len(before) : before[j] = after[j]
      BY <1>1, <3>1, <3>2
    <3> HIDE DEF before, after
    <3>4. IsPrefix(before, after)
      BY <3>3, PrefixPlaces
    <3>5. QED
      BY <3>1, <3>4 DEF before, after
  <2>5. QED
    BY <2>2, <2>3, <2>4
<1>2. \A k \in 0 .. Len(keys) : g[k] \in Seq(S)
  <2> DEFINE Off == {k \in 0 .. Len(keys) : g[k] \notin Seq(S)}
  <2>1. ASSUME Off # {} PROVE FALSE
    <3>1. PICK k \in Off : \A j \in Off : k <= j
      <4>1. Off \in SUBSET Nat
        BY <1>0
      <4> HIDE DEF Off
      <4>2. QED
        BY <2>1, <4>1, LeastNumber
    <3>2. k # 0
      <4>1. 0 \in 0 .. Len(keys)
        BY <1>0
      <4>2. g[0] = <<>>
        BY <4>1 DEF Firsts
      <4>3. QED
        BY <3>1, <4>2, EmptySeq
    <3>3. k \in 1 .. Len(keys) /\ k - 1 \in 0 .. Len(keys) /\ ~(k <= k - 1)
      BY <1>0, <3>1, <3>2
    <3>4. QED
      BY <1>1, <3>1, <3>3
  <2>2. QED
    BY <2>1
<1>3. \A k \in n .. Len(keys) : IsPrefix(g[n], g[k])
  <2> DEFINE Off == {k \in n .. Len(keys) : ~IsPrefix(g[n], g[k])}
  <2>1. ASSUME Off # {} PROVE FALSE
    <3>1. PICK k \in Off : \A j \in Off : k <= j
      <4>1. Off \in SUBSET Nat
        BY <1>0
      <4> HIDE DEF Off
      <4>2. QED
        BY <2>1, <4>1, LeastNumber
    <3>2. k # n
      BY <1>2, <3>1, PrefixItself
    <3>3. k \in 1 .. Len(keys) /\ k - 1 \in n .. Len(keys) /\ ~(k <= k - 1)
          /\ k - 1 \in 0 .. Len(keys) /\ k \in 0 .. Len(keys)
      BY <1>0, <3>1, <3>2
    <3>4. IsPrefix(g[n], g[k - 1]) /\ IsPrefix(g[k - 1], g[k])
      BY <1>1, <1>2, <3>1, <3>3
    <3>5. g[n] \in Seq(S) /\ g[k - 1] \in Seq(S) /\ g[k] \in Seq(S)
      BY <1>2, <3>3
    <3>6. QED
      BY <3>1, <3>4, <3>5, PrefixOn
  <2>2. QED
    BY <2>1
<1>4. QED
  BY <1>2, <1>3

\* More keys move no first place.
LEMMA DistinctPrefix ==
  ASSUME NEW S, NEW keys \in Seq(S), NEW more \in Seq(S), IsPrefix(keys, more)
  PROVE  /\ IsPrefix(Distinct(keys), Distinct(more))
         /\ Distinct(keys) \in Seq(S) /\ Distinct(more) \in Seq(S)
<1>1. Len(keys) \in Nat /\ Len(more) \in Nat /\ Len(keys) <= Len(more)
  BY LenProperties, PrefixPlaces
<1>2. PICK f : Firsts(keys, Len(keys), f) /\ Distinct(keys) = f[Len(keys)]
  BY <1>1, DistinctIs
<1>3. PICK g : Firsts(more, Len(more), g) /\ Distinct(more) = g[Len(more)]
  BY <1>1, DistinctIs
<1>4. Len(keys) \in 0 .. Len(keys) /\ Len(keys) \in 0 .. Len(more)
      /\ Len(more) \in Len(keys) .. Len(more) /\ Len(more) \in 0 .. Len(more)
  BY <1>1
<1>5. f[Len(keys)] = g[Len(keys)]
  BY <1>2, <1>3, <1>4, FirstsAgree
<1>6. /\ \A k \in 0 .. Len(more) : g[k] \in Seq(S)
      /\ \A k \in Len(keys) .. Len(more) : IsPrefix(g[Len(keys)], g[k])
  BY <1>3, <1>4, FirstsGrow
<1>7. QED
  BY <1>2, <1>3, <1>4, <1>5, <1>6

\* What the blocks of a chain up to one carry comes first of what all do.
LEMMA TablesOfChain ==
  ASSUME NEW t \in Seq(Message), NEW n \in 1 .. Len(t)
  PROVE  /\ IsPrefix(TokenTables(SubSeq(t, 1, n)).symbols, TokenTables(t).symbols)
         /\ IsPrefix(TokenTables(SubSeq(t, 1, n)).keys, TokenTables(t).keys)
<1> DEFINE early == SubSeq(t, 1, n)
           Texts_(blocks) == [i \in DOMAIN blocks |-> IF blocks[i].external # NoKey THEN <<>>
                                                       ELSE blocks[i].symbols]
           Keys_(blocks) == [i \in DOMAIN blocks |-> IF blocks[i].external # NoKey THEN <<>>
                                                     ELSE blocks[i].keys]
<1>1. ASSUME NEW blocks
      PROVE  /\ TokenTables(blocks).symbols = FlattenSeq(Texts_(blocks))
             /\ TokenTables(blocks).keys = Distinct(FlattenSeq(Keys_(blocks)))
  BY DEF TokenTables, Collect, Carried
<1>2. Len(t) \in Nat /\ DOMAIN t = 1 .. Len(t) /\ n \in Nat /\ n <= Len(t)
      /\ n \in 0 .. Len(t) /\ \A i \in 1 .. Len(t) : t[i] \in Message
  BY LenProperties, ElementOfSeq
<1>3. /\ DOMAIN early = 1 .. n /\ \A i \in 1 .. n : early[i] = t[i]
  <2>1. \A i \in 1 .. n : t[i] \in Message
    BY <1>2
  <2>2. early \in Seq(Message) /\ Len(early) = n /\ \A i \in 1 .. n : early[i] = t[i]
    BY <1>2, <2>1, SubSeqProperties
  <2>3. QED
    BY <2>2, LenProperties
<1> HIDE DEF early
<1>4. Texts_(t) \in Seq(Seq(Text)) /\ Len(Texts_(t)) = Len(t)
  <2>1. \A i \in 1 .. Len(t) : Texts_(t)[i] \in Seq(Text)
    BY <1>2, EmptySeq DEF Message
  <2>2. Texts_(t) = [i \in 1 .. Len(t) |-> Texts_(t)[i]]
    BY <1>2
  <2> HIDE DEF Texts_
  <2>3. QED
    BY <1>2, <2>1, <2>2, IsASeq
<1>5. Keys_(t) \in Seq(Seq(Key)) /\ Len(Keys_(t)) = Len(t)
  <2>1. \A i \in 1 .. Len(t) : Keys_(t)[i] \in Seq(Key)
    BY <1>2, EmptySeq DEF Message
  <2>2. Keys_(t) = [i \in 1 .. Len(t) |-> Keys_(t)[i]]
    BY <1>2
  <2> HIDE DEF Keys_
  <2>3. QED
    BY <1>2, <2>1, <2>2, IsASeq
<1>6. Texts_(early) = SubSeq(Texts_(t), 1, n) /\ Keys_(early) = SubSeq(Keys_(t), 1, n)
  <2>1. ASSUME NEW S, NEW s \in Seq(S), Len(s) = Len(t)
        PROVE  SubSeq(s, 1, n) = [i \in 1 .. n |-> s[i]]
    <3>1. \A i \in 1 .. n : s[i] \in S
      <4>1. \A i \in 1 .. n : i \in 1 .. Len(s)
        BY <1>2, <2>1
      <4>2. QED
        BY <2>1, <4>1, ElementOfSeq
    <3>2. SubSeq(s, 1, n) \in Seq(S) /\ Len(SubSeq(s, 1, n)) = n
          /\ \A i \in 1 .. n : SubSeq(s, 1, n)[i] = s[i]
      BY <1>2, <3>1, SubSeqProperties
    <3>3. SubSeq(s, 1, n) = [i \in 1 .. n |-> SubSeq(s, 1, n)[i]]
      BY <3>2, LenProperties
    <3>4. QED
      BY <3>2, <3>3
  <2>2. SubSeq(Texts_(t), 1, n) = [i \in 1 .. n |-> Texts_(t)[i]]
        /\ SubSeq(Keys_(t), 1, n) = [i \in 1 .. n |-> Keys_(t)[i]]
    <3> HIDE DEF Texts_, Keys_
    <3>1. QED
      BY <1>4, <1>5, <2>1
  <2>3. \A i \in 1 .. n : i \in DOMAIN t
    BY <1>2
  <2>4. QED
    BY <1>3, <2>2, <2>3
<1> HIDE DEF Texts_, Keys_
<1>7. IsPrefix(FirstParts(Texts_(t), n), FlattenSeq(Texts_(t)))
  BY <1>2, <1>4, BeforeIsPrefix
<1>8. IsPrefix(Distinct(FirstParts(Keys_(t), n)), Distinct(FlattenSeq(Keys_(t))))
  <2>1. n \in 0 .. Len(Keys_(t))
    BY <1>2, <1>5
  <2>2. /\ IsPrefix(FirstParts(Keys_(t), n), FlattenSeq(Keys_(t)))
        /\ FlattenSeq(Keys_(t)) \in Seq(Key) /\ FirstParts(Keys_(t), n) \in Seq(Key)
    BY <1>5, <2>1, BeforeIsPrefix, BeforeTyped
  <2>3. QED
    BY <2>2, DistinctPrefix
<1>9. QED
  BY <1>1, <1>6, <1>7, <1>8 DEF FirstParts, early

\* The host that builds its tables as the library does reads every block
\* against tables that go on from its signer's.
LEMMA ChainTablesGoOn ==
  ASSUME \A t \in Tokens : \A b \in 0 .. Len(t) - 1 : Tables(t, b) = BlockTables(t, b)
  PROVE  TablesGoOn
<1>1. SUFFICES ASSUME NEW t \in Tokens, NEW b \in 0 .. Len(t) - 1
               PROVE  /\ IsPrefix(SignersTables(t, b).symbols, BlockTables(t, b).symbols)
                      /\ IsPrefix(SignersTables(t, b).keys, BlockTables(t, b).keys)
  BY DEF TablesGoOn
<1>2. t \in Seq(Message) /\ Len(t) \in Nat /\ b + 1 \in 1 .. Len(t)
  BY LenProperties
<1>3. CASE t[b + 1].external = NoKey
  BY <1>2, <1>3, TablesOfChain DEF SignersTables, BlockTables
<1>4. CASE t[b + 1].external # NoKey
  <2>1. SignersTables(t, b) = BlockTables(t, b)
    BY <1>4 DEF SignersTables, BlockTables
  <2>2. BlockTables(t, b).symbols \in Seq(Text) /\ BlockTables(t, b).keys \in Seq(Key)
    BY DEF TablesOf
  <2>3. QED
    BY <2>1, <2>2, PrefixItself
<1>5. QED
  BY <1>3, <1>4
-----------------------------------------------------------------------------
(* A sequence that grows along the parts.                                  *)

\* The first of a part: none, one more, all.
LEMMA FirstOfPart ==
  ASSUME NEW S, NEW s \in Seq(S), NEW n \in 0 .. Len(s)
  PROVE  /\ FirstOf(s, n) \in Seq(S) /\ Len(FirstOf(s, n)) = n
         /\ \A k \in 1 .. n : FirstOf(s, n)[k] = s[k]
         /\ IsPrefix(FirstOf(s, n), s)
         /\ FirstOf(s, 0) = <<>>
         /\ FirstOf(s, Len(s)) = s
<1>1. Len(s) \in Nat /\ n \in Nat /\ n <= Len(s)
  BY LenProperties
<1>2. \A k \in 1 .. n : s[k] \in S
  BY <1>1, ElementOfSeq
<1>3. FirstOf(s, n) \in Seq(S) /\ Len(FirstOf(s, n)) = n /\ \A k \in 1 .. n : FirstOf(s, n)[k] = s[k]
  BY <1>1, <1>2, SubSeqProperties DEF FirstOf
<1>4. IsPrefix(FirstOf(s, n), s)
  BY <1>1, <1>3, PrefixPlaces
<1>5. FirstOf(s, 0) = <<>> /\ FirstOf(s, Len(s)) = s
  BY SubSeqEmpty, SubSeqFull DEF FirstOf
<1>6. QED
  BY <1>3, <1>4, <1>5

\* One more of a part is the next of it.
LEMMA FirstOfOneMore ==
  ASSUME NEW S, NEW s \in Seq(S), NEW n \in Nat, n < Len(s)
  PROVE  FirstOf(s, n + 1) = Append(FirstOf(s, n), s[n + 1])
<1>1. Len(s) \in Nat /\ n \in 0 .. Len(s) /\ n + 1 \in 0 .. Len(s) /\ n + 1 \in 1 .. Len(s)
  BY LenProperties
<1>2. s[n + 1] \in S
  BY <1>1, ElementOfSeq
<1>3. /\ FirstOf(s, n) \in Seq(S) /\ Len(FirstOf(s, n)) = n
      /\ \A k \in 1 .. n : FirstOf(s, n)[k] = s[k]
  BY <1>1, FirstOfPart
<1>4. /\ FirstOf(s, n + 1) \in Seq(S) /\ Len(FirstOf(s, n + 1)) = n + 1
      /\ \A k \in 1 .. n + 1 : FirstOf(s, n + 1)[k] = s[k]
  BY <1>1, FirstOfPart
<1> DEFINE longer == Append(FirstOf(s, n), s[n + 1])
<1>5. /\ longer \in Seq(S) /\ Len(longer) = n + 1
      /\ (\A k \in 1 .. n : longer[k] = s[k]) /\ longer[n + 1] = s[n + 1]
  BY <1>2, <1>3, AppendProperties
<1> HIDE DEF longer
<1>6. \A k \in 1 .. n + 1 : longer[k] = s[k]
  <2>1. \A k \in 1 .. n + 1 : k = n + 1 \/ k \in 1 .. n
    OBVIOUS
  <2>2. QED
    BY <1>5, <2>1
<1>7. Len(longer) = Len(FirstOf(s, n + 1))
      /\ \A k \in 1 .. Len(longer) : longer[k] = FirstOf(s, n + 1)[k]
  BY <1>4, <1>5, <1>6
<1>8. longer = FirstOf(s, n + 1)
  BY <1>4, <1>5, <1>7, SeqEqual
<1>9. QED
  BY <1>8 DEF longer

\* Append goes through a join.
LEMMA AppendJoined ==
  ASSUME NEW S, NEW s \in Seq(S), NEW u \in Seq(S), NEW x \in S
  PROVE  s \o Append(u, x) = Append(s \o u, x)
<1>1. <<x>> \in Seq(S) /\ s \o u \in Seq(S)
  BY ConcatProperties
<1>2. Append(u, x) = u \o <<x>> /\ Append(s \o u, x) = (s \o u) \o <<x>>
  BY <1>1, AppendIsConcat
<1>3. (s \o u) \o <<x>> = s \o (u \o <<x>>)
  BY <1>1, ConcatAssociative
<1>4. QED
  BY <1>2, <1>3

\* Reading part n + 1 after the first n.
LEMMA AlongTheParts ==
  ASSUME NEW S, NEW parts \in Seq(Seq(S)), NEW n \in Nat, n < Len(parts)
  PROVE  /\ FirstParts(parts, n) \in Seq(S) /\ parts[n + 1] \in Seq(S)
         /\ FlattenSeq(parts) \in Seq(S)
         /\ FirstParts(parts, n) \o <<>> = FirstParts(parts, n)
         /\ FirstParts(parts, n + 1) = FirstParts(parts, n) \o parts[n + 1]
         /\ n + 1 = Len(parts) => FirstParts(parts, n + 1) = FlattenSeq(parts)
         /\ \A x \in Seq(S) : IsPrefix(x, parts[n + 1]) =>
              /\ FirstParts(parts, n) \o x \in Seq(S)
              /\ IsPrefix(FirstParts(parts, n) \o x, FlattenSeq(parts))
<1>1. Len(parts) \in Nat /\ n + 1 \in 0 .. Len(parts)
  BY LenProperties
<1>2. /\ FirstParts(parts, n + 1) = FirstParts(parts, n) \o parts[n + 1]
      /\ FirstParts(parts, n) \in Seq(S) /\ FirstParts(parts, n + 1) \in Seq(S)
      /\ parts[n + 1] \in Seq(S)
  BY OneMore
<1>3. FlattenSeq(parts) \in Seq(S) /\ IsPrefix(FirstParts(parts, n + 1), FlattenSeq(parts))
  BY <1>1, BeforeIsPrefix
<1>4. n + 1 = Len(parts) => FirstParts(parts, n + 1) = FlattenSeq(parts)
  BY AllBefore
<1>5. ASSUME NEW x \in Seq(S), IsPrefix(x, parts[n + 1])
      PROVE  /\ FirstParts(parts, n) \o x \in Seq(S)
             /\ IsPrefix(FirstParts(parts, n) \o x, FlattenSeq(parts))
  <2>1. FirstParts(parts, n) \o x \in Seq(S)
    BY <1>2, ConcatProperties
  <2>2. IsPrefix(FirstParts(parts, n) \o x, FirstParts(parts, n + 1))
    BY <1>2, <1>5, PrefixJoined
  <2>3. QED
    BY <1>2, <1>3, <2>1, <2>2, PrefixOn
<1>6. FirstParts(parts, n) \o <<>> = FirstParts(parts, n)
  BY <1>2, ConcatEmptySeq
<1>7. QED
  BY <1>2, <1>3, <1>4, <1>5, <1>6

\* What is in a part is in all of them.
LEMMA InTheParts ==
  ASSUME NEW S, NEW parts \in Seq(Seq(S)), NEW i \in 1 .. Len(parts), NEW k \in 1 .. Len(parts[i])
  PROVE  parts[i][k] \in ToSet(FlattenSeq(parts))
<1>1. Len(parts) \in Nat /\ i - 1 \in Nat /\ i - 1 < Len(parts) /\ (i - 1) + 1 = i
  BY LenProperties
<1>2. /\ FirstParts(parts, (i - 1) + 1) = FirstParts(parts, i - 1) \o parts[(i - 1) + 1]
      /\ FirstParts(parts, i - 1) \in Seq(S) /\ parts[(i - 1) + 1] \in Seq(S)
      /\ FlattenSeq(parts) \in Seq(S)
  <2> DEFINE n == i - 1
  <2>1. n \in Nat /\ n < Len(parts)
    BY <1>1
  <2> HIDE DEF n
  <2>2. /\ FirstParts(parts, n + 1) = FirstParts(parts, n) \o parts[n + 1]
        /\ FirstParts(parts, n) \in Seq(S) /\ parts[n + 1] \in Seq(S)
        /\ FlattenSeq(parts) \in Seq(S)
    BY <2>1, AlongTheParts
  <2>3. QED
    BY <2>2 DEF n
<1> DEFINE early == FirstParts(parts, i - 1)
           upto == FirstParts(parts, i)
           all == FlattenSeq(parts)
<1>3. upto = early \o parts[i] /\ early \in Seq(S) /\ parts[i] \in Seq(S) /\ all \in Seq(S)
  BY <1>1, <1>2
<1>4. IsPrefix(upto, all)
  BY <1>1, BeforeIsPrefix
<1> HIDE DEF early, upto, all
<1>5. Len(early) \in Nat /\ Len(parts[i]) \in Nat /\ Len(all) \in Nat
  BY <1>3, LenProperties
<1>6. /\ upto \in Seq(S) /\ Len(upto) = Len(early) + Len(parts[i])
      /\ \A j \in 1 .. Len(early) + Len(parts[i]) :
           upto[j] = IF j <= Len(early) THEN early[j] ELSE parts[i][j - Len(early)]
  BY <1>3, ConcatProperties
<1>7. Len(upto) <= Len(all) /\ \A j \in 1 .. Len(upto) : upto[j] = all[j]
  <2>1. upto \in Seq(S) /\ all \in Seq(S) /\ IsPrefix(upto, all)
    BY <1>3, <1>4, <1>6
  <2>2. QED
    BY <2>1, PrefixPlaces
<1> DEFINE j == Len(early) + k
<1>8. j \in 1 .. Len(upto) /\ j \in 1 .. Len(all) /\ ~(j <= Len(early)) /\ j - Len(early) = k
  BY <1>5, <1>6, <1>7
<1>9. all[j] = parts[i][k]
  <2>1. all[j] = upto[j]
    BY <1>7, <1>8
  <2>2. upto[j] = parts[i][j - Len(early)]
    BY <1>6, <1>8
  <2>3. QED
    BY <1>8, <2>1, <2>2
<1>10. DOMAIN all = 1 .. Len(all)
  BY <1>3, LenProperties
<1> HIDE DEF j
<1>11. QED
  BY <1>8, <1>9, <1>10 DEF ToSet, all
-----------------------------------------------------------------------------
(* What is spelled stays spelled in a table that goes on.                  *)

\* A number that names something names the same in a table that goes on.
LEMMA SpelledOn ==
  ASSUME NEW table \in Seq(Text), NEW more \in Seq(Text), IsPrefix(table, more),
         NEW i \in Nat, CanName(table, i)
  PROVE  CanName(more, i) /\ Spelled(more, i) = Spelled(table, i)
<1>1. /\ Len(table) \in Nat /\ Len(more) \in Nat /\ Len(WellKnown) \in Nat /\ Len(table) <= Len(more)
      /\ \A k \in 1 .. Len(table) : table[k] = more[k]
  BY LenProperties, PrefixPlaces
<1>2. CASE i < Offset
  <2>1. i < Len(WellKnown)
    BY <1>1, <1>2 DEF CanName
  <2>2. QED
    BY <1>2, <2>1 DEF CanName, Spelled, TextOf
<1>3. CASE ~(i < Offset)
  <2>1. i >= Offset /\ i - Offset + 1 \in 1 .. Len(table)
    BY <1>1, <1>3 DEF CanName
  <2>2. table[i - Offset + 1] = more[i - Offset + 1] /\ i - Offset < Len(more)
    BY <1>1, <2>1
  <2>3. CanName(more, i)
    BY <2>1, <2>2 DEF CanName
  <2>4. QED
    BY <1>3, <2>2, <2>3 DEF Spelled, TextOf
<1>4. QED
  BY <1>2, <1>3

\* So does a term.
LEMMA TermSpelledOn ==
  ASSUME NEW table \in Seq(Text), NEW more \in Seq(Text), IsPrefix(table, more),
         NEW v \in Texts \cup Variables, CanName(table, v.sym)
  PROVE  SpelledTerm(more, v) = SpelledTerm(table, v)
<1>1. v.sym \in Nat
  BY DEF Texts, Variables, Symbol
<1>2. QED
  BY <1>1, SpelledOn DEF SpelledTerm

\* A predicate is what has a name and terms: a fact is one too.
LEMMA PredicateSpelledOn ==
  ASSUME NEW table \in Seq(Text), NEW more \in Seq(Text), IsPrefix(table, more),
         NEW p, p.name \in Nat, p.terms \in Seq(Texts \cup Variables),
         \A i \in NumbersOf(p) : CanName(table, i)
  PROVE  SpelledPredicate(more, p) = SpelledPredicate(table, p)
<1>1. Spelled(more, p.name) = Spelled(table, p.name)
  BY SpelledOn DEF NumbersOf
<1>2. ASSUME NEW k \in DOMAIN p.terms
      PROVE  SpelledTerm(more, p.terms[k]) = SpelledTerm(table, p.terms[k])
  <2>1. p.terms[k] \in Texts \cup Variables
    BY ElementOfSeq, LenProperties
  <2>2. CanName(table, p.terms[k].sym)
    BY DEF NumbersOf
  <2>3. QED
    BY <2>1, <2>2, TermSpelledOn
<1>3. QED
  BY <1>1, <1>2 DEF SpelledPredicate

\* So does an expression.
LEMMA TestSpelledOn ==
  ASSUME NEW table \in Seq(Text), NEW more \in Seq(Text), IsPrefix(table, more),
         NEW e \in Test, \A i \in TestNumbers(e) : CanName(table, i)
  PROVE  SpelledTest(more, e) = SpelledTest(table, e)
<1>1. e.left \in Texts \cup Variables /\ e.right \in Texts \cup Variables
  BY DEF Test, Term
<1>2. CanName(table, e.left.sym) /\ CanName(table, e.right.sym)
  BY DEF TestNumbers
<1>3. SpelledTerm(more, e.left) = SpelledTerm(table, e.left)
  BY <1>1, <1>2, TermSpelledOn
<1>4. SpelledTerm(more, e.right) = SpelledTerm(table, e.right)
  BY <1>1, <1>2, TermSpelledOn
<1>5. QED
  BY <1>3, <1>4 DEF SpelledTest

\* A clause, and a rule, is what has a head, a body and expressions.
LEMMA ClauseSpelledOn ==
  ASSUME NEW table \in Seq(Text), NEW more \in Seq(Text), IsPrefix(table, more),
         NEW c, c.head \in Predicate, c.body \in Seq(Predicate), c.expr \in Seq(Test),
         \A i \in ClauseNumbers(c) : CanName(table, i)
  PROVE  SpelledClause(more, c) = SpelledClause(table, c)
<1>1. \A p \in Predicate : p.name \in Nat /\ p.terms \in Seq(Texts \cup Variables)
  BY DEF Predicate, Term, Symbol
<1>2. SpelledPredicate(more, c.head) = SpelledPredicate(table, c.head)
  <2>1. \A i \in NumbersOf(c.head) : CanName(table, i)
    BY DEF ClauseNumbers
  <2>2. QED
    BY <1>1, <2>1, PredicateSpelledOn
<1>3. ASSUME NEW i \in DOMAIN c.body
      PROVE  SpelledPredicate(more, c.body[i]) = SpelledPredicate(table, c.body[i])
  <2>1. c.body[i] \in Predicate
    BY ElementOfSeq, LenProperties
  <2>2. \A j \in NumbersOf(c.body[i]) : CanName(table, j)
    BY DEF ClauseNumbers
  <2>3. QED
    BY <1>1, <2>1, <2>2, PredicateSpelledOn
<1>4. ASSUME NEW e \in DOMAIN c.expr
      PROVE  SpelledTest(more, c.expr[e]) = SpelledTest(table, c.expr[e])
  <2>1. c.expr[e] \in Test
    BY ElementOfSeq, LenProperties
  <2>2. \A j \in TestNumbers(c.expr[e]) : CanName(table, j)
    BY DEF ClauseNumbers
  <2>3. QED
    BY <2>1, <2>2, TestSpelledOn
<1>5. QED
  BY <1>2, <1>3, <1>4 DEF SpelledClause

\* Interning only adds.
LEMMA InternedPrefix ==
  ASSUME NEW table \in Seq(Text), NEW x \in Text
  PROVE  IsPrefix(table, Interned(table, x))
<1>1. CASE Known(table, x)
  BY <1>1, PrefixItself DEF Interned
<1>2. CASE ~Known(table, x)
  <2> DEFINE longer == Append(table, x)
  <2>1. /\ longer \in Seq(Text) /\ Len(longer) = Len(table) + 1 /\ Len(table) \in Nat
        /\ \A j \in 1 .. Len(table) : longer[j] = table[j]
    BY Appended, LenProperties
  <2> HIDE DEF longer
  <2>2. Len(table) <= Len(longer) /\ \A j \in 1 .. Len(table) : table[j] = longer[j]
    BY <2>1
  <2>3. IsPrefix(table, longer)
    BY <2>1, <2>2, PrefixPlaces
  <2>4. QED
    BY <1>2, <2>3 DEF Interned, longer
<1>3. QED
  BY <1>1, <1>2

\* What the number of a translated symbol spells is what the symbol does.
LEMMA SpelledAsRead ==
  ASSUME LoadTypeOK, LoadInv, Reading, Translates
  PROVE  /\ Spelled(entries', Number) = Spelled(From.symbols, Incoming)
         /\ IsPrefix(entries, entries')
<1>1. entries \in Seq(Text) /\ Spelling \in Text /\ Nameable
  BY IncomingTyped DEF Translates, LoadTypeOK
<1>2. entries' = Interned(entries, Spelling)
  BY DEF Translates
<1>3. CanName(entries', Number)
  BY <1>1, <1>2, InternedCanonical DEF Canonical, Number
<1>4. TextOf(entries', Number) = Spelling
  <2> DEFINE k == Number
  <2>1. Len(entries) \in Nat /\ Len(WellKnown) \in Nat
    BY <1>1, LenProperties
  <2>2. CASE Spelling \in ToSet(WellKnown)
    <3>1. /\ PlaceOf(Spelling, WellKnown) \in 0 .. Len(WellKnown) - 1
          /\ WellKnown[PlaceOf(Spelling, WellKnown) + 1] = Spelling
      BY <2>2, FirstPlace
    <3>2. Number = PlaceOf(Spelling, WellKnown)
      BY <2>2 DEF Number, NumberOf
    <3>3. QED
      BY <2>1, <3>1, <3>2 DEF TextOf
  <2>3. CASE Spelling \notin ToSet(WellKnown) /\ Spelling \in ToSet(entries)
    <3>1. /\ PlaceOf(Spelling, entries) \in 0 .. Len(entries) - 1
          /\ entries[PlaceOf(Spelling, entries) + 1] = Spelling
      BY <1>1, <2>3, FirstPlace
    <3>2. Number = Offset + PlaceOf(Spelling, entries) /\ entries' = entries
      BY <1>2, <2>3 DEF Number, NumberOf, Interned, Known
    <3>3. QED
      BY <2>1, <3>1, <3>2 DEF TextOf
  <2>4. CASE Spelling \notin ToSet(WellKnown) /\ Spelling \notin ToSet(entries)
    <3>1. Number = Offset + Len(entries) /\ entries' = Append(entries, Spelling)
      BY <1>2, <2>4 DEF Number, NumberOf, Interned, Known
    <3>2. entries'[Len(entries) + 1] = Spelling
      BY <1>1, <3>1, Appended
    <3>3. QED
      BY <2>1, <3>1, <3>2 DEF TextOf
  <2>5. QED
    BY <2>2, <2>3, <2>4
<1>5. Spelled(From.symbols, Incoming) = <<Spelling>>
  BY <1>1 DEF Spelled, Nameable, Spelling
<1>6. IsPrefix(entries, entries')
  BY <1>1, <1>2, InternedPrefix
<1>7. QED
  BY <1>3, <1>4, <1>5, <1>6 DEF Spelled

-----------------------------------------------------------------------------
(* The tables of the one who signed.                                       *)

\* What blocks carry is a pair of tables.
LEMMA CollectTyped ==
  ASSUME NEW blocks \in Seq(Message), NEW skip \in BOOLEAN
  PROVE  Collect(blocks, skip) \in TablesOf
<1> DEFINE texts == [i \in DOMAIN blocks |-> IF skip /\ blocks[i].external # NoKey THEN <<>>
                                             ELSE blocks[i].symbols]
           keys == [i \in DOMAIN blocks |-> IF skip /\ blocks[i].external # NoKey THEN <<>>
                                            ELSE blocks[i].keys]
<1>1. Collect(blocks, skip) = [symbols |-> FlattenSeq(texts), keys |-> Distinct(FlattenSeq(keys))]
  BY DEF Collect, Carried
<1>2. Len(blocks) \in Nat /\ DOMAIN blocks = 1 .. Len(blocks)
      /\ \A i \in 1 .. Len(blocks) : blocks[i] \in Message
  BY LenProperties, ElementOfSeq
<1>3. texts \in Seq(Seq(Text))
  <2>1. texts \in [1 .. Len(blocks) -> Seq(Text)]
    BY <1>2, EmptySeq DEF Message
  <2>2. QED
    BY <1>2, <2>1, SeqDef
<1>4. keys \in Seq(Seq(Key))
  <2>1. keys \in [1 .. Len(blocks) -> Seq(Key)]
    BY <1>2, EmptySeq DEF Message
  <2>2. QED
    BY <1>2, <2>1, SeqDef
<1> HIDE DEF texts, keys
<1>5. FlattenSeq(texts) \in Seq(Text)
  <2>1. 0 \in 0 .. Len(texts)
    BY <1>3, LenProperties
  <2>2. QED
    BY <1>3, <2>1, BeforeIsPrefix
<1>6. FlattenSeq(keys) \in Seq(Key)
  <2>1. 0 \in 0 .. Len(keys)
    BY <1>4, LenProperties
  <2>2. QED
    BY <1>4, <2>1, BeforeIsPrefix
<1>7. Distinct(FlattenSeq(keys)) \in Seq(Key)
  BY <1>6, PrefixItself, DistinctPrefix
<1>8. QED
  BY <1>1, <1>5, <1>7 DEF TablesOf

\* So is what a signer had.
LEMMA SignersTyped ==
  ASSUME NEW t \in Seq(Message), NEW b \in 0 .. Len(t) - 1
  PROVE  SignersTables(t, b) \in TablesOf
<1>1. Len(t) \in Nat /\ b \in Nat /\ b + 1 \in 1 .. Len(t)
  BY LenProperties
<1>2. \A i \in 1 .. b + 1 : t[i] \in Message
  BY <1>1, ElementOfSeq
<1>3. SubSeq(t, 1, b + 1) \in Seq(Message)
  BY <1>1, <1>2, SubSeqProperties
<1>4. <<t[b + 1]>> \in Seq(Message)
  BY <1>1, <1>2
<1>5. Collect(<<t[b + 1]>>, FALSE) \in TablesOf
  BY <1>4, CollectTyped
<1>6. TokenTables(SubSeq(t, 1, b + 1)) \in TablesOf
  BY <1>3, CollectTyped DEF TokenTables
<1>7. QED
  BY <1>5, <1>6 DEF SignersTables
-----------------------------------------------------------------------------
(* What a clause says to the host, and what to the one who signed it.      *)

\* A join holds what both hold.
LEMMA SetOfJoin ==
  ASSUME NEW S, NEW s \in Seq(S), NEW u \in Seq(S)
  PROVE  ToSet(s \o u) = ToSet(s) \cup ToSet(u)
<1>1. /\ Len(s) \in Nat /\ Len(u) \in Nat /\ DOMAIN s = 1 .. Len(s) /\ DOMAIN u = 1 .. Len(u)
      /\ s \o u \in Seq(S) /\ DOMAIN (s \o u) = 1 .. Len(s) + Len(u)
      /\ \A k \in 1 .. Len(s) + Len(u) : (s \o u)[k] = IF k <= Len(s) THEN s[k] ELSE u[k - Len(s)]
  BY ConcatProperties, LenProperties
<1> DEFINE j == s \o u
<1>2. ASSUME NEW k \in DOMAIN j PROVE j[k] \in ToSet(s) \cup ToSet(u)
  <2>1. k <= Len(s) => k \in DOMAIN s /\ j[k] = s[k]
    BY <1>1
  <2>2. ~(k <= Len(s)) => k - Len(s) \in DOMAIN u /\ j[k] = u[k - Len(s)]
    BY <1>1
  <2>3. QED
    BY <2>1, <2>2 DEF ToSet
<1>3. ASSUME NEW k \in DOMAIN s PROVE s[k] \in ToSet(j)
  <2>1. k \in DOMAIN j /\ j[k] = s[k]
    BY <1>1
  <2>2. QED
    BY <2>1 DEF ToSet
<1>4. ASSUME NEW k \in DOMAIN u PROVE u[k] \in ToSet(j)
  <2>1. Len(s) + k \in DOMAIN j /\ ~(Len(s) + k <= Len(s)) /\ (Len(s) + k) - Len(s) = k
    BY <1>1
  <2>2. j[Len(s) + k] = u[k]
    BY <1>1, <2>1
  <2>3. QED
    BY <2>1, <2>2 DEF ToSet
<1> HIDE DEF j
<1>5. ToSet(j) \subseteq ToSet(s) \cup ToSet(u)
  BY <1>2 DEF ToSet
<1>6. ToSet(s) \cup ToSet(u) \subseteq ToSet(j)
  <2>1. ToSet(s) \subseteq ToSet(j)
    BY <1>3 DEF ToSet
  <2>2. ToSet(u) \subseteq ToSet(j)
    BY <1>4 DEF ToSet
  <2>3. QED
    BY <2>1, <2>2
<1>7. QED
  BY <1>5, <1>6 DEF j

\* The queries of the checks of a block, check by check.
LEMMA QueriesTyped ==
  ASSUME NEW m \in Message
  PROVE  [n \in DOMAIN m.checks |-> m.checks[n].queries] \in Seq(Seq(Clause))
<1>1. m.checks \in Seq(CheckMessage) /\ Len(m.checks) \in Nat /\ DOMAIN m.checks = 1 .. Len(m.checks)
  BY MessageFields, LenProperties
<1>2. \A n \in 1 .. Len(m.checks) : m.checks[n].queries \in Seq(Clause)
  <2>1. \A n \in 1 .. Len(m.checks) : m.checks[n] \in CheckMessage
    BY <1>1, ElementOfSeq
  <2>2. QED
    BY <2>1 DEF CheckMessage
<1>3. [n \in DOMAIN m.checks |-> m.checks[n].queries] \in [1 .. Len(m.checks) -> Seq(Clause)]
  BY <1>1, <1>2
<1>4. QED
  BY <1>1, <1>3, SeqDef

\* The facts of a message as clauses, and the queries of its checks.
FactClauses(m) == [n \in DOMAIN m.facts |-> AsClause(m.facts[n])]
QueryRuns(m) == [n \in DOMAIN m.checks |-> m.checks[n].queries]

\* The statements of a block: its facts, its rules, and the queries of its
\* checks.
LEMMA StatementsAre ==
  ASSUME NEW t \in Seq(Message), NEW b \in 0 .. Len(t) - 1
  PROVE  LET m == t[b + 1] IN
         /\ m \in Message
         /\ FactClauses(m) \in Seq(Clause) /\ DOMAIN FactClauses(m) = DOMAIN m.facts
         /\ QueryRuns(m) \in Seq(Seq(Clause)) /\ DOMAIN QueryRuns(m) = 1 .. Len(QueryRuns(m))
         /\ DOMAIN QueryRuns(m) = DOMAIN m.checks
         /\ Statements(t, b) \in Seq(Clause)
         /\ ToSet(Statements(t, b)) =
              ToSet(FactClauses(m)) \cup (ToSet(m.rules) \cup ToSet(FlattenSeq(QueryRuns(m))))
<1> DEFINE M == t[b + 1]
           fs == FactClauses(M)
           qs == QueryRuns(M)
<1>1. M \in Message
  <2>1. b + 1 \in 1 .. Len(t)
    BY LenProperties
  <2>2. QED
    BY <2>1, ElementOfSeq
<1>2. Statements(t, b) = fs \o (M.rules \o FlattenSeq(qs))
  BY DEF Statements, WireClauses, FactClauses, QueryRuns
<1> HIDE DEF M
<1>3. M.facts \in Seq(Predicate) /\ M.rules \in Seq(Clause) /\ M.checks \in Seq(CheckMessage)
  BY <1>1, MessageFields
<1>4. fs \in Seq(Clause) /\ DOMAIN fs = DOMAIN M.facts
  <2>0. fs = [n \in DOMAIN M.facts |-> AsClause(M.facts[n])]
    BY DEF FactClauses
  <2> HIDE DEF fs
  <2>1. Len(M.facts) \in Nat /\ DOMAIN M.facts = 1 .. Len(M.facts)
    BY <1>3, LenProperties
  <2>2. \A n \in 1 .. Len(M.facts) : M.facts[n] \in Predicate
    BY <1>3, ElementOfSeq
  <2>3. \A p \in Predicate : AsClause(p) \in Clause
    BY EmptySeq DEF AsClause, Clause
  <2>4. fs \in [1 .. Len(M.facts) -> Clause]
    BY <2>0, <2>1, <2>2, <2>3
  <2>5. QED
    BY <2>0, <2>1, <2>4, SeqDef
<1>5. qs \in Seq(Seq(Clause)) /\ Len(qs) \in Nat /\ DOMAIN qs = 1 .. Len(qs)
      /\ DOMAIN qs = DOMAIN M.checks
  <2>1. qs \in Seq(Seq(Clause))
    BY <1>1, QueriesTyped DEF QueryRuns
  <2>2. DOMAIN qs = DOMAIN M.checks
    BY DEF QueryRuns
  <2> HIDE DEF qs
  <2>3. QED
    BY <2>1, <2>2, LenProperties
<1>6. FlattenSeq(qs) \in Seq(Clause)
  <2>1. 0 \in 0 .. Len(qs)
    BY <1>5
  <2> HIDE DEF qs
  <2>2. QED
    BY <1>5, <2>1, BeforeIsPrefix
<1>7. ToSet(Statements(t, b)) = ToSet(fs) \cup (ToSet(M.rules) \cup ToSet(FlattenSeq(qs)))
  <2> DEFINE later == FlattenSeq(qs)
             rest == M.rules \o later
  <2> HIDE DEF fs, qs
  <2>1. later \in Seq(Clause)
    BY <1>6
  <2> HIDE DEF later
  <2>2. rest \in Seq(Clause)
    BY <1>3, <2>1, ConcatProperties
  <2>3. ToSet(rest) = ToSet(M.rules) \cup ToSet(later)
    BY <1>3, <2>1, SetOfJoin
  <2> HIDE DEF rest
  <2>4. ToSet(fs \o rest) = ToSet(fs) \cup ToSet(rest)
    BY <1>4, <2>2, SetOfJoin
  <2>5. QED
    BY <1>2, <2>3, <2>4 DEF later, rest
<1> HIDE DEF fs, qs
<1>8. Statements(t, b) \in Seq(Clause)
  <2> DEFINE later == FlattenSeq(qs)
             rest == M.rules \o later
  <2>1. later \in Seq(Clause)
    BY <1>6
  <2> HIDE DEF later
  <2>2. rest \in Seq(Clause)
    BY <1>3, <2>1, ConcatProperties
  <2> HIDE DEF rest
  <2>3. fs \o rest \in Seq(Clause)
    BY <1>4, <2>2, ConcatProperties
  <2>4. QED
    BY <1>2, <2>3 DEF later, rest
<1>9. QED
  BY <1>1, <1>4, <1>5, <1>7, <1>8 DEF M, fs, qs

\* Every fact, rule and query is a statement of its block.
LEMMA StatementsHold ==
  ASSUME NEW t \in Seq(Message), NEW b \in 0 .. Len(t) - 1
  PROVE  /\ \A n \in DOMAIN t[b + 1].facts : AsClause(t[b + 1].facts[n]) \in ToSet(Statements(t, b))
         /\ \A n \in DOMAIN t[b + 1].rules : t[b + 1].rules[n] \in ToSet(Statements(t, b))
         /\ \A m \in DOMAIN t[b + 1].checks : \A n \in DOMAIN t[b + 1].checks[m].queries :
              t[b + 1].checks[m].queries[n] \in ToSet(Statements(t, b))
<1> DEFINE M == t[b + 1]
           fs == FactClauses(M)
           qs == QueryRuns(M)
<1>1. /\ DOMAIN fs = DOMAIN M.facts
      /\ qs \in Seq(Seq(Clause)) /\ DOMAIN qs = 1 .. Len(qs) /\ DOMAIN qs = DOMAIN M.checks
      /\ ToSet(Statements(t, b)) = ToSet(fs) \cup (ToSet(M.rules) \cup ToSet(FlattenSeq(qs)))
  BY StatementsAre
<1> HIDE DEF M
<1>2. \A n \in DOMAIN M.facts : AsClause(M.facts[n]) \in ToSet(fs)
  BY DEF ToSet, FactClauses
<1>3. \A n \in DOMAIN M.rules : M.rules[n] \in ToSet(M.rules)
  BY DEF ToSet
<1>4. ASSUME NEW m \in DOMAIN M.checks, NEW n \in DOMAIN M.checks[m].queries
       PROVE  M.checks[m].queries[n] \in ToSet(FlattenSeq(qs))
  <2>1. m \in 1 .. Len(qs) /\ qs[m] = M.checks[m].queries /\ qs[m] \in Seq(Clause)
    BY <1>1, ElementOfSeq DEF QueryRuns
  <2>2. n \in 1 .. Len(qs[m])
    BY <2>1, LenProperties
  <2> HIDE DEF qs
  <2>3. qs[m][n] \in ToSet(FlattenSeq(qs))
    BY <1>1, <2>1, <2>2, InTheParts
  <2>4. QED
    BY <2>1, <2>3
<1>5. QED
  BY <1>1, <1>2, <1>3, <1>4 DEF M

\* A statement of a sensible token spells to the host what it did to its
\* signer, and its scopes mean something.
LEMMA AsSigned ==
  ASSUME TablesGoOn, NEW t \in Tokens, Sensible(t), NEW b \in 0 .. Len(t) - 1,
         NEW c \in Clause, c \in ToSet(Statements(t, b))
  PROVE  /\ SpelledClause(Tables(t, b).symbols, c) = SpelledClause(SignersTables(t, b).symbols, c)
         /\ \A i \in ClauseNumbers(c) : CanName(SignersTables(t, b).symbols, i)
         /\ \A s \in ToSet(c.scopes) \cup ToSet(t[b + 1].scopes) :
              /\ s.kind # "unknown"
              /\ s.kind = "key" => s.key < Len(SignersTables(t, b).keys)
<1>1. t \in Seq(Message)
  OBVIOUS
<1>2. SignersTables(t, b) \in TablesOf /\ Tables(t, b) \in TablesOf
  BY <1>1, SignersTyped
<1>3. IsPrefix(SignersTables(t, b).symbols, Tables(t, b).symbols)
  BY DEF TablesGoOn
<1>4. /\ \A i \in ClauseNumbers(c) : CanName(SignersTables(t, b).symbols, i)
      /\ \A s \in ToSet(c.scopes) \cup ToSet(t[b + 1].scopes) :
           /\ s.kind # "unknown"
           /\ s.kind = "key" => s.key < Len(SignersTables(t, b).keys)
  <2>1. Readable(t, b, SignersTables(t, b))
    BY DEF Sensible
  <2>2. QED
    BY <2>1 DEF Readable
<1>5. /\ SignersTables(t, b).symbols \in Seq(Text) /\ Tables(t, b).symbols \in Seq(Text)
      /\ c.head \in Predicate /\ c.body \in Seq(Predicate) /\ c.expr \in Seq(Test)
  BY <1>2 DEF TablesOf, Clause
<1>6. SpelledClause(Tables(t, b).symbols, c) = SpelledClause(SignersTables(t, b).symbols, c)
  BY <1>3, <1>4, <1>5, ClauseSpelledOn
<1>7. QED
  BY <1>4, <1>6

\* A fact alone is a clause without a body.
LEMMA FactAsSigned ==
  ASSUME TablesGoOn, NEW t \in Tokens, Sensible(t), NEW b \in 0 .. Len(t) - 1,
         NEW n \in DOMAIN t[b + 1].facts
  PROVE  SpelledPredicate(Tables(t, b).symbols, t[b + 1].facts[n])
         = SpelledPredicate(SignersTables(t, b).symbols, t[b + 1].facts[n])
<1> DEFINE c == AsClause(t[b + 1].facts[n])
<1>1. t \in Seq(Message) /\ b + 1 \in 1 .. Len(t)
  BY LenProperties
<1>2. t[b + 1] \in Message
  BY <1>1, ElementOfSeq
<1>3. t[b + 1].facts \in Seq(Predicate)
  BY <1>2, MessageFields
<1>4. t[b + 1].facts[n] \in Predicate
  BY <1>3, ElementOfSeq, LenProperties
<1>5. c \in Clause /\ c.head = t[b + 1].facts[n]
  BY <1>4, EmptySeq DEF AsClause, Clause
<1>6. c \in ToSet(Statements(t, b))
  BY <1>1, StatementsHold
<1> HIDE DEF c
<1>7. SpelledClause(Tables(t, b).symbols, c) = SpelledClause(SignersTables(t, b).symbols, c)
  BY <1>5, <1>6, AsSigned
<1>8. SpelledClause(Tables(t, b).symbols, c).head = SpelledPredicate(Tables(t, b).symbols, c.head)
      /\ SpelledClause(SignersTables(t, b).symbols, c).head
         = SpelledPredicate(SignersTables(t, b).symbols, c.head)
  BY DEF SpelledClause
<1>9. QED
  BY <1>5, <1>7, <1>8

-----------------------------------------------------------------------------
(* The trust a clause asks for.                                            *)

\* A scope resolves to the blocks its signer named.
LEMMA ResolvedIs ==
  ASSUME TablesGoOn, NEW t \in Tokens, NEW b \in 0 .. Len(t) - 1, NEW s \in Scope,
         s.kind # "unknown", s.kind = "key" => s.key < Len(SignersTables(t, b).keys)
  PROVE  Resolved(t, b, s) = {i \in 0 .. Len(t) - 1 : Names(t, b, s, i)}
<1>1. t \in Seq(Message) /\ Len(t) \in Nat /\ b \in Nat /\ b < Len(t) /\ 0 \in 0 .. Len(t) - 1
  BY LenProperties
<1>2. CASE s.kind = "authority"
  BY <1>1, <1>2 DEF Resolved, Names
<1>3. CASE s.kind = "previous"
  <2>1. 0 .. b = {i \in 0 .. Len(t) - 1 : i <= b}
    BY <1>1
  <2>2. QED
    BY <1>3, <2>1 DEF Resolved, Previous, Names
<1>4. CASE s.kind = "key"
  <2>1. s.key \in Nat
    BY <1>4 DEF Scope
  <2>2. SignersTables(t, b) \in TablesOf /\ Tables(t, b) \in TablesOf
    BY <1>1, SignersTyped
  <2>3. SignersTables(t, b).keys \in Seq(Key) /\ Tables(t, b).keys \in Seq(Key)
    BY <2>2 DEF TablesOf
  <2>4. IsPrefix(SignersTables(t, b).keys, Tables(t, b).keys)
    BY DEF TablesGoOn
  <2>5. s.key + 1 \in 1 .. Len(SignersTables(t, b).keys)
    BY <1>4, <2>1, <2>3, LenProperties
  <2>6. SignersTables(t, b).keys[s.key + 1] = Tables(t, b).keys[s.key + 1]
    BY <2>3, <2>4, <2>5, PrefixPlaces
  <2>7. QED
    BY <1>4, <2>6 DEF Resolved, SignedBy, Names
<1>5. QED
  BY <1>2, <1>3, <1>4 DEF Scope

\* A clause trusts whom its signer asked it to.
LEMMA TrustIsAsked ==
  ASSUME TablesGoOn, NEW t \in Tokens, Sensible(t), NEW b \in 0 .. Len(t) - 1,
         NEW c \in Clause, c \in ToSet(Statements(t, b))
  PROVE  Trust(t, b, c.scopes, Trust(t, b, t[b + 1].scopes, {0})) = TrustAsked(t, b, c)
<1> DEFINE own == t[b + 1].scopes
           Named(scopes) == {i \in 0 .. Len(t) - 1 : \E s \in ToSet(scopes) : Names(t, b, s, i)}
<1>1. t \in Seq(Message) /\ Len(t) \in Nat /\ b + 1 \in 1 .. Len(t) /\ 0 \in 0 .. Len(t) - 1
  BY LenProperties
<1>2. own \in Seq(Scope) /\ c.scopes \in Seq(Scope)
  <2>1. t[b + 1] \in Message
    BY <1>1, ElementOfSeq
  <2>2. QED
    BY <2>1, MessageFields DEF Clause
<1> HIDE DEF own
<1>3. \A s \in ToSet(c.scopes) \cup ToSet(own) :
        s \in Scope /\ Resolved(t, b, s) = {i \in 0 .. Len(t) - 1 : Names(t, b, s, i)}
  <2>1. \A s \in ToSet(c.scopes) \cup ToSet(own) :
          s.kind # "unknown" /\ (s.kind = "key" => s.key < Len(SignersTables(t, b).keys))
    BY AsSigned DEF own
  <2>2. \A s \in ToSet(c.scopes) \cup ToSet(own) : s \in Scope
    BY <1>2, ElementOfSeq, LenProperties DEF ToSet
  <2>3. QED
    BY <2>1, <2>2, ResolvedIs
<1>4. /\ UNION {Resolved(t, b, s) : s \in ToSet(c.scopes)} = Named(c.scopes)
      /\ UNION {Resolved(t, b, s) : s \in ToSet(own)} = Named(own)
  BY <1>3
<1>5. TrustAsked(t, b, c) = {Authorizer, b} \cup Named(Annotations(t, b, c))
  BY DEF TrustAsked
<1>6. CASE c.scopes # <<>>
  BY <1>4, <1>5, <1>6 DEF Trust, Annotations
<1>7. CASE c.scopes = <<>> /\ own # <<>>
  <2>1. Annotations(t, b, c) = own
    BY <1>7 DEF Annotations, own
  <2>2. Trust(t, b, own, {0}) = {Authorizer, b} \cup Named(own)
    BY <1>4, <1>7 DEF Trust
  <2>3. Trust(t, b, c.scopes, Trust(t, b, own, {0})) = {Authorizer, b} \cup Named(own)
    BY <1>7, <2>2 DEF Trust
  <2>4. QED
    BY <1>5, <2>1, <2>3 DEF own
<1>8. CASE c.scopes = <<>> /\ own = <<>>
  <2>1. Annotations(t, b, c) = <<[kind |-> "authority"]>>
    BY <1>8 DEF Annotations, own
  <2>2. ToSet(<<[kind |-> "authority"]>>) = {[kind |-> "authority"]}
    BY DEF ToSet
  <2>3. Named(<<[kind |-> "authority"]>>) = {0}
    <3>1. \A i : Names(t, b, [kind |-> "authority"], i) <=> i = 0
      BY DEF Names
    <3>2. QED
      BY <1>1, <2>2, <3>1
  <2>4. Trust(t, b, own, {0}) = {Authorizer, b} \cup {0}
    BY <1>8 DEF Trust
  <2>5. Trust(t, b, c.scopes, Trust(t, b, own, {0})) = {Authorizer, b} \cup {0}
    BY <1>8, <2>4 DEF Trust
  <2>6. QED
    BY <1>5, <2>1, <2>3, <2>5 DEF own
<1>9. QED
  BY <1>6, <1>7, <1>8
-----------------------------------------------------------------------------
(* The clause at hand says what the message says.                          *)

\* Within a clause the message stays where it is.
LEMMA SameClause ==
  ASSUME UNCHANGED <<token, block, phase, msg, query>>
  PROVE  /\ Here' = Here /\ From' = From /\ CurrentClause' = CurrentClause
         /\ \A n : PredicateAt(n)' = PredicateAt(n)
<1>1. Here' = Here /\ From' = From
  BY DEF Here, From
<1>2. CurrentClause' = CurrentClause
  BY <1>1 DEF CurrentClause
<1>3. \A n : PredicateAt(n)' = PredicateAt(n)
  BY <1>2 DEF PredicateAt
<1>4. QED
  BY <1>1, <1>2, <1>3

\* What was read of the clause reads the same in the table that follows.
LEMMA ClauseSpelledKept ==
  ASSUME LoadTypeOK, LoadInv, entries' \in Seq(Text), IsPrefix(entries, entries')
  PROVE  /\ \A n \in DOMAIN made : SpelledPredicate(entries', made[n]) = SpelledPredicate(entries, made[n])
         /\ \A n \in DOMAIN tests : SpelledTest(entries', tests[n]) = SpelledTest(entries, tests[n])
         /\ \A n \in DOMAIN given : SpelledTerm(entries', given[n]) = SpelledTerm(entries, given[n])
         /\ pc \in {"room", "terms"} =>
              /\ Spelled(entries', cur.name) = Spelled(entries, cur.name)
              /\ \A k \in DOMAIN cur.terms : SpelledTerm(entries', cur.terms[k])
                                             = SpelledTerm(entries, cur.terms[k])
<1>1. /\ entries \in Seq(Text) /\ made \in Seq(Predicate) /\ cur \in Predicate
      /\ tests \in Seq(Test) /\ given \in Seq(Texts \cup Variables)
  BY DEF LoadTypeOK
<1>2. \A p \in Predicate : p.name \in Nat /\ p.terms \in Seq(Texts \cup Variables)
  BY DEF Predicate, Term, Symbol
<1>3. ASSUME NEW n \in DOMAIN made
      PROVE  SpelledPredicate(entries', made[n]) = SpelledPredicate(entries, made[n])
  <2>1. made[n] \in Predicate
    BY <1>1, ElementOfSeq, LenProperties
  <2>2. \A i \in NumbersOf(made[n]) : CanName(entries, i)
    BY DEF LoadInv, NumbersCanonical, AllCanonical, Canonical
  <2>3. QED
    BY <1>1, <1>2, <2>1, <2>2, PredicateSpelledOn
<1>4. ASSUME NEW n \in DOMAIN tests
      PROVE  SpelledTest(entries', tests[n]) = SpelledTest(entries, tests[n])
  <2>1. tests[n] \in Test
    BY <1>1, ElementOfSeq, LenProperties
  <2>2. \A i \in TestNumbers(tests[n]) : CanName(entries, i)
    BY DEF LoadInv, NumbersCanonical, AllCanonical, Canonical
  <2>3. QED
    BY <1>1, <2>1, <2>2, TestSpelledOn
<1>5. ASSUME NEW n \in DOMAIN given
      PROVE  SpelledTerm(entries', given[n]) = SpelledTerm(entries, given[n])
  <2>1. given[n] \in Texts \cup Variables
    BY <1>1, ElementOfSeq, LenProperties
  <2>2. CanName(entries, given[n].sym)
    BY DEF LoadInv, NumbersCanonical, Canonical
  <2>3. QED
    BY <1>1, <2>1, <2>2, TermSpelledOn
<1>6. ASSUME pc \in {"room", "terms"}
      PROVE  /\ Spelled(entries', cur.name) = Spelled(entries, cur.name)
             /\ \A k \in DOMAIN cur.terms : SpelledTerm(entries', cur.terms[k])
                                            = SpelledTerm(entries, cur.terms[k])
  <2>1. \A i \in NumbersOf(cur) : CanName(entries, i)
    BY <1>6 DEF LoadInv, NumbersCanonical, AllCanonical, Canonical
  <2>2. CanName(entries, cur.name) /\ cur.name \in Nat
    BY <1>1, <1>2, <2>1 DEF NumbersOf
  <2>3. ASSUME NEW k \in DOMAIN cur.terms
        PROVE  SpelledTerm(entries', cur.terms[k]) = SpelledTerm(entries, cur.terms[k])
    <3>1. cur.terms[k] \in Texts \cup Variables
      BY <1>1, <1>2, ElementOfSeq, LenProperties
    <3>2. CanName(entries, cur.terms[k].sym)
      BY <2>1 DEF NumbersOf
    <3>3. QED
      BY <1>1, <3>1, <3>2, TermSpelledOn
  <2>4. QED
    BY <1>1, <2>2, <2>3, SpelledOn
<1>7. QED
  BY <1>3, <1>4, <1>5, <1>6

\* A name that is read says what its message says.
LEMMA NameSays ==
  ASSUME LoadTypeOK, LoadInv, ClauseRead, ReadName
  PROVE  ClauseRead'
<1>1. /\ UNCHANGED <<token, made, tests, given>>
      /\ UNCHANGED <<token, block, phase, msg, query>>
      /\ pc = "name" /\ pc' = "room" /\ cur' = [name |-> Number, terms |-> <<>>]
      /\ Reading /\ Translates
  BY DEF ReadName, Reading, placeVars
<1>2. /\ From' = From /\ CurrentClause' = CurrentClause /\ Wanted' = Wanted
      /\ \A n : PredicateAt(n)' = PredicateAt(n)
  BY <1>1, SameClause DEF Wanted
<1>3. PredicatesRead /\ TestsRead /\ ReadSoFar
  BY <1>1 DEF ClauseRead, InClause
<1>4. Spelled(entries', Number) = Spelled(From.symbols, Wanted.name)
  BY <1>1, SpelledAsRead DEF Incoming
<1>5. /\ \A n \in DOMAIN made : SpelledPredicate(entries', made[n]) = SpelledPredicate(entries, made[n])
      /\ \A n \in DOMAIN tests : SpelledTest(entries', tests[n]) = SpelledTest(entries, tests[n])
  BY <1>1, SpelledAsRead, Translated, ClauseSpelledKept
<1>6. PredicatesRead'
  <2>1. \A n \in DOMAIN made' : SpelledPredicate(entries', made'[n])
                                = SpelledPredicate(From'.symbols, PredicateAt(n)')
    BY <1>1, <1>2, <1>3, <1>5 DEF PredicatesRead
  <2>2. /\ Len(made') <= Len(CurrentClause'.body) + 1
        /\ Spelled(entries', cur'.name) = Spelled(From'.symbols, Wanted'.name)
    BY <1>1, <1>2, <1>3, <1>4 DEF PredicatesRead
  <2>3. Len(cur'.terms) <= Len(Wanted'.terms) /\ DOMAIN cur'.terms = {}
    <3>1. Wanted.terms \in Seq(Texts \cup Variables)
      BY <1>1, WantedTyped DEF Predicate, Term
    <3>2. cur'.terms = <<>>
      BY <1>1
    <3>3. QED
      BY <1>2, <3>1, <3>2, LenProperties, EmptySeq
  <2>4. QED
    BY <2>1, <2>2, <2>3 DEF PredicatesRead
<1>7. TestsRead'
  <2>1. \A n \in DOMAIN tests' : SpelledTest(entries', tests'[n])
                                 = SpelledTest(From'.symbols, CurrentClause'.expr[n])
    BY <1>1, <1>2, <1>3, <1>5 DEF TestsRead
  <2>2. Len(tests') <= Len(CurrentClause'.expr) /\ given' = <<>>
    BY <1>1, <1>2, <1>3 DEF TestsRead
  <2>3. QED
    BY <2>1, <2>2 DEF TestsRead
<1>8. ReadSoFar'
  BY <1>1, <1>3 DEF ReadSoFar
<1>9. QED
  BY <1>6, <1>7, <1>8 DEF ClauseRead

\* So does a term.
LEMMA TermSays ==
  ASSUME LoadTypeOK, LoadInv, ClauseRead, ReadTerm
  PROVE  ClauseRead'
<1> DEFINE u == [kind |-> Wanted.terms[Len(cur.terms) + 1].kind, sym |-> Number]
<1>1. /\ UNCHANGED <<token, made, tests, given, pc>>
      /\ UNCHANGED <<token, block, phase, msg, query>>
      /\ pc = "terms" /\ cur' = [name |-> cur.name, terms |-> Append(cur.terms, u)]
      /\ Len(cur.terms) < Len(Wanted.terms)
      /\ Reading /\ Translates
  BY DEF ReadTerm, Reading, placeVars
<1>2. /\ From' = From /\ CurrentClause' = CurrentClause /\ Wanted' = Wanted
      /\ \A n : PredicateAt(n)' = PredicateAt(n)
  BY <1>1, SameClause DEF Wanted
<1>3. PredicatesRead /\ TestsRead /\ ReadSoFar
  BY <1>1 DEF ClauseRead, InClause
<1>4. SpelledTerm(entries', u) = SpelledTerm(From.symbols, Wanted.terms[Len(cur.terms) + 1])
  BY <1>1, SpelledAsRead DEF Incoming, SpelledTerm
<1>5. /\ \A n \in DOMAIN made : SpelledPredicate(entries', made[n]) = SpelledPredicate(entries, made[n])
      /\ \A n \in DOMAIN tests : SpelledTest(entries', tests[n]) = SpelledTest(entries, tests[n])
      /\ Spelled(entries', cur.name) = Spelled(entries, cur.name)
      /\ \A k \in DOMAIN cur.terms : SpelledTerm(entries', cur.terms[k])
                                     = SpelledTerm(entries, cur.terms[k])
  BY <1>1, SpelledAsRead, Translated, ClauseSpelledKept
<1>6. /\ cur'.name = cur.name /\ Len(cur.terms) \in Nat /\ Len(Wanted.terms) \in Nat
      /\ Len(cur'.terms) = Len(cur.terms) + 1 /\ DOMAIN cur'.terms = 1 .. Len(cur.terms) + 1
      /\ DOMAIN cur.terms = 1 .. Len(cur.terms)
      /\ cur'.terms[Len(cur.terms) + 1] = u
      /\ \A k \in 1 .. Len(cur.terms) : cur'.terms[k] = cur.terms[k]
  <2>1. Wanted.terms \in Seq(Texts \cup Variables) /\ cur.terms \in Seq(Texts \cup Variables)
    BY <1>1, WantedTyped DEF Predicate, Term, LoadTypeOK
  <2>2. Wanted.terms[Len(cur.terms) + 1] \in Texts \cup Variables /\ Len(cur.terms) \in Nat
    BY <1>1, <2>1, ElementOfSeq, LenProperties
  <2>3. Number \in Nat
    BY <1>1, Translated
  <2>4. u \in Texts \cup Variables
    BY <2>2, <2>3 DEF Texts, Variables, Symbol
  <2> HIDE DEF u
  <2>5. cur'.name = cur.name /\ cur'.terms = Append(cur.terms, u)
    BY <1>1
  <2>6. /\ Append(cur.terms, u) \in Seq(Texts \cup Variables)
        /\ Len(Append(cur.terms, u)) = Len(cur.terms) + 1
        /\ Append(cur.terms, u)[Len(cur.terms) + 1] = u
        /\ \A k \in 1 .. Len(cur.terms) : Append(cur.terms, u)[k] = cur.terms[k]
    BY <2>1, <2>4, AppendProperties
  <2>7. QED
    BY <2>1, <2>2, <2>5, <2>6, LenProperties
<1> HIDE DEF u
<1>7. PredicatesRead'
  <2>1. \A n \in DOMAIN made' : SpelledPredicate(entries', made'[n])
                                = SpelledPredicate(From'.symbols, PredicateAt(n)')
    BY <1>1, <1>2, <1>3, <1>5 DEF PredicatesRead
  <2>2. /\ Len(made') <= Len(CurrentClause'.body) + 1
        /\ Spelled(entries', cur'.name) = Spelled(From'.symbols, Wanted'.name)
        /\ Len(cur'.terms) <= Len(Wanted'.terms)
    BY <1>1, <1>2, <1>3, <1>5, <1>6 DEF PredicatesRead
  <2>3. ASSUME NEW k \in DOMAIN cur'.terms
        PROVE  SpelledTerm(entries', cur'.terms[k]) = SpelledTerm(From'.symbols, Wanted'.terms[k])
    <3>1. CASE k = Len(cur.terms) + 1
      BY <1>2, <1>4, <1>6, <3>1
    <3>2. CASE k \in 1 .. Len(cur.terms)
      <4>1. SpelledTerm(entries, cur.terms[k]) = SpelledTerm(From.symbols, Wanted.terms[k])
        BY <1>1, <1>3, <1>6, <3>2 DEF PredicatesRead
      <4>2. QED
        BY <1>2, <1>5, <1>6, <3>2, <4>1
    <3>3. QED
      BY <1>6, <3>1, <3>2
  <2>4. QED
    BY <2>1, <2>2, <2>3 DEF PredicatesRead
<1>8. TestsRead'
  <2>1. \A n \in DOMAIN tests' : SpelledTest(entries', tests'[n])
                                 = SpelledTest(From'.symbols, CurrentClause'.expr[n])
    BY <1>1, <1>2, <1>3, <1>5 DEF TestsRead
  <2>2. Len(tests') <= Len(CurrentClause'.expr) /\ given' = <<>>
    BY <1>1, <1>2, <1>3 DEF TestsRead
  <2>3. QED
    BY <2>1, <2>2 DEF TestsRead
<1>9. ReadSoFar'
  BY <1>1, <1>3 DEF ReadSoFar
<1>10. QED
  BY <1>7, <1>8, <1>9 DEF ClauseRead

\* Whatever is appended, what was there stays.
LEMMA AppendedLast ==
  ASSUME NEW S, NEW s \in Seq(S), NEW x
  PROVE  /\ Len(s) \in Nat /\ DOMAIN s = 1 .. Len(s)
         /\ Len(Append(s, x)) = Len(s) + 1 /\ DOMAIN Append(s, x) = 1 .. Len(s) + 1
         /\ Append(s, x)[Len(s) + 1] = x
         /\ \A k \in 1 .. Len(s) : Append(s, x)[k] = s[k]
<1>1. s \in Seq(S \cup {x}) /\ x \in S \cup {x}
  BY SeqMonotonic
<1> DEFINE T == S \cup {x}
<1> HIDE DEF T
<1>2. s \in Seq(T) /\ x \in T
  BY <1>1 DEF T
<1>3. QED
  BY <1>2, AppendProperties, LenProperties

\* So does an operand.
LEMMA OperandSays ==
  ASSUME LoadTypeOK, LoadInv, ClauseRead, ReadOperand
  PROVE  ClauseRead'
<1> DEFINE t == IF given = <<>> THEN NextTest.left ELSE NextTest.right
           loaded == [kind |-> t.kind, sym |-> Number]
           test == [op |-> NextTest.op, left |-> given[1], right |-> loaded]
<1>1. /\ UNCHANGED <<token, made, cur>>
      /\ UNCHANGED <<token, block, phase, msg, query>>
      /\ pc = "operand" /\ Reading /\ Translates
      /\ \/ given = <<>> /\ given' = <<loaded>> /\ pc' = "value" /\ tests' = tests
         \/ given # <<>> /\ tests' = Append(tests, test) /\ given' = <<>> /\ pc' = "tests"
  BY DEF ReadOperand, Reading, placeVars
<1>2. /\ From' = From /\ CurrentClause' = CurrentClause
      /\ \A n : PredicateAt(n)' = PredicateAt(n)
  BY <1>1, SameClause
<1>3. PredicatesRead /\ TestsRead /\ ReadSoFar
  BY <1>1 DEF ClauseRead, InClause
<1>4. SpelledTerm(entries', loaded) = SpelledTerm(From.symbols, t)
  BY <1>1, SpelledAsRead DEF Incoming, SpelledTerm
<1>5. /\ \A n \in DOMAIN made : SpelledPredicate(entries', made[n]) = SpelledPredicate(entries, made[n])
      /\ \A n \in DOMAIN tests : SpelledTest(entries', tests[n]) = SpelledTest(entries, tests[n])
      /\ \A n \in DOMAIN given : SpelledTerm(entries', given[n]) = SpelledTerm(entries, given[n])
  BY <1>1, SpelledAsRead, Translated, ClauseSpelledKept
<1>6. PredicatesRead'
  <2>1. \A n \in DOMAIN made' : SpelledPredicate(entries', made'[n])
                                = SpelledPredicate(From'.symbols, PredicateAt(n)')
    BY <1>1, <1>2, <1>3, <1>5 DEF PredicatesRead
  <2>2. Len(made') <= Len(CurrentClause'.body) + 1 /\ pc' \notin {"room", "terms"}
    BY <1>1, <1>2, <1>3 DEF PredicatesRead
  <2>3. QED
    BY <2>1, <2>2 DEF PredicatesRead
<1>7. CASE given = <<>> /\ given' = <<loaded>> /\ pc' = "value" /\ tests' = tests
  <2>1. TestsRead'
    <3>1. \A n \in DOMAIN tests' : SpelledTest(entries', tests'[n])
                                   = SpelledTest(From'.symbols, CurrentClause'.expr[n])
      BY <1>2, <1>3, <1>5, <1>7 DEF TestsRead
    <3>2. Len(tests') <= Len(CurrentClause'.expr) /\ NextTest' = NextTest
      BY <1>2, <1>3, <1>7 DEF TestsRead, NextTest
    <3>3. Len(given') = 1 /\ given'[1] = loaded
      BY <1>7
    <3>4. SpelledTerm(entries', given'[1]) = SpelledTerm(From'.symbols, NextTest'.left)
      BY <1>2, <1>4, <1>7, <3>2, <3>3
    <3>5. QED
      BY <1>7, <3>1, <3>2, <3>3, <3>4 DEF TestsRead
  <2>2. ReadSoFar'
    BY <1>1, <1>2, <1>3, <1>7 DEF ReadSoFar
  <2>3. QED
    BY <1>6, <2>1, <2>2 DEF ClauseRead
<1>8. CASE given # <<>> /\ tests' = Append(tests, test) /\ given' = <<>> /\ pc' = "tests"
  <2>1. /\ Len(tests) \in Nat /\ DOMAIN tests = 1 .. Len(tests)
        /\ Len(tests') = Len(tests) + 1 /\ DOMAIN tests' = 1 .. Len(tests) + 1
        /\ tests'[Len(tests) + 1] = test
        /\ \A k \in 1 .. Len(tests) : tests'[k] = tests[k]
    <3>1. tests \in Seq(Test)
      BY DEF LoadTypeOK
    <3> HIDE DEF test
    <3>2. QED
      BY <1>8, <3>1, AppendedLast
  <2>2. SpelledTest(entries', test) = SpelledTest(From.symbols, CurrentClause.expr[Len(tests) + 1])
    <3>1. Len(given) = 1 /\ SpelledTerm(entries, given[1]) = SpelledTerm(From.symbols, NextTest.left)
      BY <1>3, <1>8 DEF TestsRead
    <3>2. 1 \in DOMAIN given
      BY <3>1, LenProperties DEF LoadTypeOK
    <3>3. SpelledTerm(entries', given[1]) = SpelledTerm(From.symbols, NextTest.left)
      BY <1>5, <3>1, <3>2
    <3>4. SpelledTerm(entries', loaded) = SpelledTerm(From.symbols, NextTest.right)
      BY <1>4, <1>8
    <3> HIDE DEF loaded
    <3>5. SpelledTest(entries', test) = SpelledTest(From.symbols, NextTest)
      BY <3>3, <3>4 DEF SpelledTest
    <3>6. QED
      BY <3>5 DEF NextTest
  <2> HIDE DEF test
  <2>3. TestsRead'
    <3>1. ASSUME NEW n \in DOMAIN tests'
          PROVE  SpelledTest(entries', tests'[n]) = SpelledTest(From'.symbols, CurrentClause'.expr[n])
      <4>1. CASE n = Len(tests) + 1
        BY <1>2, <2>1, <2>2, <4>1
      <4>2. CASE n \in 1 .. Len(tests)
        <5>1. SpelledTest(entries, tests[n]) = SpelledTest(From.symbols, CurrentClause.expr[n])
          BY <1>3, <2>1, <4>2 DEF TestsRead
        <5>2. QED
          BY <1>2, <1>5, <2>1, <4>2, <5>1
      <4>3. QED
        BY <2>1, <4>1, <4>2
    <3>2. Len(tests') <= Len(CurrentClause'.expr)
      <4>1. Len(tests) < Len(CurrentClause.expr)
        BY <1>1 DEF LoadInv, InOrder
      <4>2. CurrentClause.expr \in Seq(Test)
        BY <1>1, ClauseTyped DEF InClause, Clause
      <4>3. QED
        BY <1>2, <2>1, <4>1, <4>2, LenProperties
    <3>3. QED
      BY <1>8, <3>1, <3>2 DEF TestsRead
  <2>4. ReadSoFar'
    BY <1>1, <1>2, <1>3, <1>8 DEF ReadSoFar
  <2>5. QED
    BY <1>6, <2>3, <2>4 DEF ClauseRead
<1>9. QED
  BY <1>1, <1>7, <1>8

\* A predicate that is finished says what its message says.
LEMMA PredicateSays ==
  ASSUME LoadTypeOK, LoadInv, ClauseRead, PredicateDone
  PROVE  ClauseRead'
<1>1. /\ UNCHANGED <<entries, cur, tests, given>>
      /\ UNCHANGED <<token, block, phase, msg, query>>
      /\ pc = "terms" /\ Len(cur.terms) = Len(Wanted.terms) /\ made' = Append(made, cur)
      /\ pc' \in {"place", "body", "preds"} /\ (pc' = "place" => phase = "facts")
  BY DEF PredicateDone, poolVars, placeVars
<1>2. /\ From' = From /\ CurrentClause' = CurrentClause
      /\ \A n : PredicateAt(n)' = PredicateAt(n)
  BY <1>1, SameClause
<1>3. PredicatesRead /\ TestsRead /\ ReadSoFar
  BY <1>1 DEF ClauseRead, InClause
<1>4. /\ Len(made) \in Nat /\ DOMAIN made = 1 .. Len(made)
      /\ Len(made') = Len(made) + 1 /\ DOMAIN made' = 1 .. Len(made) + 1
      /\ made'[Len(made) + 1] = cur
      /\ \A k \in 1 .. Len(made) : made'[k] = made[k]
  <2>1. made \in Seq(Predicate)
    BY DEF LoadTypeOK
  <2>2. QED
    BY <1>1, <2>1, AppendedLast
<1>5. Len(CurrentClause.body) \in Nat /\ Len(made) <= Len(CurrentClause.body)
  <2>1. CurrentClause.body \in Seq(Predicate)
    BY <1>1, ClauseTyped DEF InClause, Clause
  <2>2. Len(made) <= Len(CurrentClause.body)
    BY <1>1 DEF LoadInv, InOrder
  <2>3. QED
    BY <2>1, <2>2, LenProperties
<1>6. Wanted = PredicateAt(Len(made) + 1)
  <2>1. made = <<>> <=> Len(made) = 0
    BY EmptySeq DEF LoadTypeOK
  <2>2. CASE made = <<>>
    BY <2>1, <2>2 DEF Wanted, PredicateAt
  <2>3. CASE made # <<>>
    <3>1. Len(made) + 1 # 1 /\ (Len(made) + 1) - 1 = Len(made)
      BY <1>4, <2>1, <2>3
    <3>2. QED
      BY <2>3, <3>1 DEF Wanted, PredicateAt
  <2>4. QED
    BY <2>2, <2>3
<1>7. SpelledPredicate(entries, cur) = SpelledPredicate(From.symbols, Wanted)
  <2>1. /\ Spelled(entries, cur.name) = Spelled(From.symbols, Wanted.name)
        /\ \A k \in DOMAIN cur.terms : SpelledTerm(entries, cur.terms[k])
                                       = SpelledTerm(From.symbols, Wanted.terms[k])
    BY <1>1, <1>3 DEF PredicatesRead
  <2>2. DOMAIN cur.terms = DOMAIN Wanted.terms
    <3>1. cur.terms \in Seq(Texts \cup Variables) /\ Wanted.terms \in Seq(Texts \cup Variables)
      BY <1>1, WantedTyped DEF Predicate, Term, LoadTypeOK
    <3>2. DOMAIN cur.terms = 1 .. Len(cur.terms) /\ DOMAIN Wanted.terms = 1 .. Len(Wanted.terms)
      BY <3>1, LenProperties
    <3>3. QED
      BY <1>1, <3>2
  <2>3. QED
    BY <2>1, <2>2 DEF SpelledPredicate
<1>8. PredicatesRead'
  <2>1. ASSUME NEW n \in DOMAIN made'
        PROVE  SpelledPredicate(entries', made'[n]) = SpelledPredicate(From'.symbols, PredicateAt(n)')
    <3>1. CASE n = Len(made) + 1
      BY <1>1, <1>2, <1>4, <1>6, <1>7, <3>1
    <3>2. CASE n \in 1 .. Len(made)
      <4>1. SpelledPredicate(entries, made[n]) = SpelledPredicate(From.symbols, PredicateAt(n))
        BY <1>3, <1>4, <3>2 DEF PredicatesRead
      <4>2. QED
        BY <1>1, <1>2, <1>4, <3>2, <4>1
    <3>3. QED
      BY <1>4, <3>1, <3>2
  <2>2. Len(made') <= Len(CurrentClause'.body) + 1 /\ pc' \notin {"room", "terms"}
    BY <1>1, <1>2, <1>4, <1>5
  <2>3. QED
    BY <2>1, <2>2 DEF PredicatesRead
<1>9. TestsRead'
  BY <1>1, <1>2, <1>3 DEF TestsRead
<1>10. ReadSoFar'
  <2>1. tests' = <<>>
    BY <1>1, <1>3 DEF ReadSoFar
  <2>2. pc' = "place" => Len(made') = Len(CurrentClause'.body) + 1
                         /\ Len(tests') = Len(CurrentClause'.expr)
    <3>1. pc' = "place" => CurrentClause.body = <<>> /\ CurrentClause.expr = <<>>
      BY <1>1 DEF CurrentClause
    <3>2. QED
      BY <1>2, <1>4, <1>5, <2>1, <3>1, EmptySeq
  <2>3. QED
    BY <1>1, <2>1, <2>2 DEF ReadSoFar
<1>11. QED
  BY <1>8, <1>9, <1>10 DEF ClauseRead

\* Room is reserved, or the next predicate or expression is turned to.
LEMMA TurnSays ==
  ASSUME LoadTypeOK, LoadInv, ClauseRead, Reserve \/ NextPredicate \/ NextExpression
  PROVE  ClauseRead'
<1>1. /\ UNCHANGED <<entries, made, cur, tests, given>>
      /\ UNCHANGED <<token, block, phase, msg, query>>
  BY DEF Reserve, NextPredicate, NextExpression, poolVars, placeVars, clauseVars
<1>2. \/ pc = "room" /\ pc' = "terms"
      \/ pc = "body" /\ pc' = "preds"
      \/ pc = "exprs" /\ pc' = "tests"
      \/ pc = "ops" /\ pc' = "value"
      \/ pc = "value" /\ pc' = "operand"
      \/ pc = "preds" /\ pc' = "name"
      \/ pc = "preds" /\ pc' = "exprs" /\ ~(Len(made) <= Len(CurrentClause.body))
      \/ pc = "tests" /\ pc' = "ops"
      \/ pc = "tests" /\ pc' = "place" /\ ~(Len(tests) < Len(CurrentClause.expr))
  <2>1. CASE NextPredicate \/ NextExpression
    BY <2>1 DEF NextPredicate, NextExpression
  <2>2. CASE Reserve
    <3>1. pc \in {"room", "body", "exprs", "ops", "value"} /\ pc' = Demand.then
      BY <2>2 DEF Reserve, Reserving
    <3>2. QED
      BY <3>1 DEF Demand
  <2>3. QED
    BY <2>1, <2>2
<1>3. /\ From' = From /\ CurrentClause' = CurrentClause /\ Wanted' = Wanted /\ NextTest' = NextTest
      /\ \A n : PredicateAt(n)' = PredicateAt(n)
  BY <1>1, SameClause DEF Wanted, NextTest
<1>4. PredicatesRead /\ TestsRead /\ ReadSoFar
  BY <1>2 DEF ClauseRead, InClause
<1>5. PredicatesRead'
  BY <1>1, <1>2, <1>3, <1>4 DEF PredicatesRead
<1>6. TestsRead'
  BY <1>1, <1>2, <1>3, <1>4 DEF TestsRead
<1>7. ReadSoFar'
  <2>1. Len(made) \in Nat /\ Len(tests) \in Nat /\ Len(CurrentClause.body) \in Nat
        /\ Len(CurrentClause.expr) \in Nat
    <3>1. CurrentClause \in Clause
      BY <1>2, ClauseTyped DEF InClause
    <3>2. made \in Seq(Predicate) /\ tests \in Seq(Test)
          /\ CurrentClause.body \in Seq(Predicate) /\ CurrentClause.expr \in Seq(Test)
      BY <3>1 DEF LoadTypeOK, Clause
    <3>3. QED
      BY <3>2, LenProperties
  <2>2. pc' = "exprs" => Len(made) = Len(CurrentClause.body) + 1
    BY <1>2, <1>4, <2>1 DEF PredicatesRead
  <2>3. pc' = "place" => Len(tests) = Len(CurrentClause.expr)
    BY <1>2, <1>4, <2>1 DEF TestsRead
  <2>4. QED
    BY <1>1, <1>2, <1>3, <1>4, <2>2, <2>3 DEF ReadSoFar
<1>8. QED
  BY <1>5, <1>6, <1>7 DEF ClauseRead

\* A clause opens with nothing read.
LEMMA OpenSays ==
  ASSUME LoadTypeOK, LoadInv, AtStatement, OpenClause, UNCHANGED <<token, block, phase, msg, query>>
  PROVE  ClauseRead'
<1>1. made' = <<>> /\ tests' = <<>> /\ given' = <<>> /\ pc' = "name"
  BY DEF OpenClause
<1>2. CurrentClause' = CurrentClause
  BY SameClause
<1>3. CurrentClause \in Clause
  BY ClauseTyped
<1>4. Len(CurrentClause.body) \in Nat /\ Len(CurrentClause.expr) \in Nat
  BY <1>3, LenProperties DEF Clause
<1>5. Len(made') = 0 /\ DOMAIN made' = {} /\ Len(tests') = 0 /\ DOMAIN tests' = {}
  BY <1>1
<1>6. PredicatesRead'
  BY <1>1, <1>2, <1>4, <1>5 DEF PredicatesRead
<1>7. TestsRead'
  BY <1>1, <1>2, <1>4, <1>5 DEF TestsRead
<1>8. ReadSoFar'
  BY <1>1 DEF ReadSoFar
<1>9. QED
  BY <1>6, <1>7, <1>8 DEF ClauseRead
-----------------------------------------------------------------------------
(* The world says what it said.                                            *)

\* A clause of the world, in a table that goes on.
LEMMA WorldKept ==
  ASSUME LoadTypeOK, LoadInv, RunsFilled, entries' \in Seq(Text), IsPrefix(entries, entries'),
         UNCHANGED <<facts, rules, checks>>
  PROVE  WorldFacts' = WorldFacts /\ WorldRules' = WorldRules /\ WorldChecks' = WorldChecks
<1>1. /\ entries \in Seq(Text) /\ facts \in Seq(Fact) /\ rules \in Seq(Rule) /\ checks \in Seq(Check)
  BY DEF LoadTypeOK
<1>2. ASSUME NEW n \in DOMAIN facts
      PROVE  SpelledPredicate(entries', facts[n]) = SpelledPredicate(entries, facts[n])
  <2>1. facts[n] \in Fact
    BY <1>1, ElementOfSeq, LenProperties
  <2>2. facts[n].name \in Nat /\ facts[n].terms \in Seq(Texts \cup Variables)
    BY <2>1 DEF Fact, Term, Symbol
  <2>3. \A i \in NumbersOf(facts[n]) : CanName(entries, i)
    BY DEF LoadInv, NumbersCanonical, AllCanonical, Canonical
  <2>4. QED
    BY <1>1, <2>2, <2>3, PredicateSpelledOn
<1>3. ASSUME NEW n \in DOMAIN rules
      PROVE  SpelledClause(entries', rules[n]) = SpelledClause(entries, rules[n])
  <2>1. rules[n] \in Rule
    BY <1>1, ElementOfSeq, LenProperties
  <2>2. rules[n].head \in Predicate /\ rules[n].body \in Seq(Predicate) /\ rules[n].expr \in Seq(Test)
    BY <2>1 DEF Rule
  <2>3. \A i \in ClauseNumbers(rules[n]) : CanName(entries, i)
    BY DEF LoadInv, NumbersCanonical, AllCanonical, Canonical
  <2>4. QED
    BY <1>1, <2>2, <2>3, ClauseSpelledOn
<1>4. WorldFacts' = WorldFacts
  BY <1>2 DEF WorldFacts
<1>5. \A n \in DOMAIN rules : WorldClause(rules[n])' = WorldClause(rules[n])
  BY <1>3 DEF WorldClause
<1>6. WorldRules' = WorldRules
  BY <1>5 DEF WorldRules
<1>7. ASSUME NEW n \in DOMAIN checks, NEW i \in 1 .. checks[n].query_count
      PROVE  checks[n].query_at + i \in DOMAIN rules
  <2>1. checks[n] \in Check
    BY <1>1, ElementOfSeq, LenProperties
  <2>2. checks[n].query_at \in Nat /\ checks[n].query_count \in Nat
    BY <2>1 DEF Check
  <2>3. checks[n].query_at + checks[n].query_count <= Len(rules)
    BY DEF RunsFilled
  <2>4. Len(rules) \in Nat /\ DOMAIN rules = 1 .. Len(rules)
    BY <1>1, LenProperties
  <2>5. QED
    BY <2>2, <2>3, <2>4
<1>8. WorldChecks' = WorldChecks
  BY <1>5, <1>7 DEF WorldChecks
<1>9. QED
  BY <1>4, <1>6, <1>8

\* A world that stays says the same.
LEMMA WorldSame ==
  ASSUME UNCHANGED <<entries, facts, rules, checks>>
  PROVE  WorldFacts' = WorldFacts /\ WorldRules' = WorldRules /\ WorldChecks' = WorldChecks
<1>1. WorldFacts' = WorldFacts
  BY DEF WorldFacts
<1>2. \A n : WorldClause(rules[n])' = WorldClause(rules[n])
  BY DEF WorldClause
<1>3. WorldRules' = WorldRules
  BY <1>2 DEF WorldRules
<1>4. WorldChecks' = WorldChecks
  BY <1>2 DEF WorldChecks
<1>5. QED
  BY <1>1, <1>3, <1>4

-----------------------------------------------------------------------------
(* What is placed.                                                         *)

\* The finished clause says what its message says.
LEMMA ClauseSays ==
  ASSUME LoadTypeOK, LoadInv, ClauseRead, pc = "place"
  PROVE  /\ made # <<>>
         /\ SpelledPredicate(entries, made[1]) = SpelledPredicate(From.symbols, CurrentClause.head)
         /\ SpelledClause(entries, [head |-> made[1], body |-> Tail(made), expr |-> tests])
            = SpelledClause(From.symbols, CurrentClause)
<1>1. PredicatesRead /\ TestsRead /\ ReadSoFar
  BY DEF ClauseRead, InClause
<1>2. CurrentClause \in Clause
  BY ClauseTyped DEF InClause
<1>3. /\ made \in Seq(Predicate) /\ tests \in Seq(Test)
      /\ CurrentClause.body \in Seq(Predicate) /\ CurrentClause.expr \in Seq(Test)
  BY <1>2 DEF LoadTypeOK, Clause
<1>4. /\ Len(made) \in Nat /\ Len(tests) \in Nat /\ Len(CurrentClause.body) \in Nat
      /\ DOMAIN made = 1 .. Len(made) /\ DOMAIN tests = 1 .. Len(tests)
      /\ DOMAIN CurrentClause.body = 1 .. Len(CurrentClause.body)
      /\ DOMAIN CurrentClause.expr = 1 .. Len(CurrentClause.expr)
  BY <1>3, LenProperties
<1>5. Len(made) = Len(CurrentClause.body) + 1 /\ Len(tests) = Len(CurrentClause.expr)
  BY <1>1 DEF ReadSoFar
<1>6. made # <<>>
  BY <1>4, <1>5, EmptySeq
<1>7. /\ Tail(made) \in Seq(Predicate) /\ Len(Tail(made)) = Len(CurrentClause.body)
      /\ DOMAIN Tail(made) = DOMAIN CurrentClause.body
      /\ \A i \in 1 .. Len(CurrentClause.body) : Tail(made)[i] = made[i + 1]
  <2>1. /\ Tail(made) \in Seq(Predicate) /\ Len(Tail(made)) = Len(made) - 1
        /\ \A i \in 1 .. Len(Tail(made)) : Tail(made)[i] = made[i + 1]
    BY <1>3, <1>6, HeadTailProperties
  <2>2. Len(Tail(made)) = Len(CurrentClause.body)
    BY <1>4, <1>5, <2>1
  <2>3. DOMAIN Tail(made) = 1 .. Len(Tail(made))
    BY <2>1, LenProperties
  <2>4. QED
    BY <1>4, <2>1, <2>2, <2>3
<1>8. \A n \in DOMAIN made : SpelledPredicate(entries, made[n])
                             = SpelledPredicate(From.symbols, PredicateAt(n))
  BY <1>1 DEF PredicatesRead
<1>9. SpelledPredicate(entries, made[1]) = SpelledPredicate(From.symbols, CurrentClause.head)
  <2>1. 1 \in DOMAIN made
    BY <1>4, <1>5
  <2>2. QED
    BY <1>8, <2>1 DEF PredicateAt
<1>10. ASSUME NEW i \in DOMAIN CurrentClause.body
       PROVE  SpelledPredicate(entries, Tail(made)[i])
              = SpelledPredicate(From.symbols, CurrentClause.body[i])
  <2>1. i + 1 \in DOMAIN made /\ i + 1 # 1 /\ (i + 1) - 1 = i /\ Tail(made)[i] = made[i + 1]
    BY <1>4, <1>5, <1>7
  <2>2. PredicateAt(i + 1) = CurrentClause.body[i]
    BY <2>1 DEF PredicateAt
  <2>3. QED
    BY <1>8, <2>1, <2>2
<1>11. DOMAIN tests = DOMAIN CurrentClause.expr
       /\ \A n \in DOMAIN tests : SpelledTest(entries, tests[n])
                                  = SpelledTest(From.symbols, CurrentClause.expr[n])
  BY <1>1, <1>4, <1>5 DEF TestsRead
<1> DEFINE c == [head |-> made[1], body |-> Tail(made), expr |-> tests]
<1>12. c.head = made[1] /\ c.body = Tail(made) /\ c.expr = tests
  OBVIOUS
<1> HIDE DEF c
<1>13. SpelledClause(entries, c) = SpelledClause(From.symbols, CurrentClause)
  BY <1>7, <1>9, <1>10, <1>11, <1>12 DEF SpelledClause
<1>14. QED
  BY <1>6, <1>9, <1>13 DEF c

\* The clause at hand is a statement of its block.
LEMMA ClauseIsStated ==
  ASSUME LoadTypeOK, LoadInv, InClause, phase # "facts"
  PROVE  CurrentClause \in Clause /\ CurrentClause \in ToSet(Statements(token, block))
<1>1. CurrentClause \in Clause /\ token \in Seq(Message) /\ block \in 0 .. Len(token) - 1
  BY ClauseTyped, TokenTyped
<1>2. \/ phase = "rules" /\ msg \in DOMAIN Here.rules
      \/ /\ phase = "checks" /\ msg \in DOMAIN Here.checks
         /\ query \in DOMAIN Here.checks[msg].queries
  BY DEF LoadInv, OnStatement, AtStatement
<1>3. CurrentClause \in ToSet(Statements(token, block))
  BY <1>1, <1>2, StatementsHold DEF CurrentClause, Here
<1>4. QED
  BY <1>1, <1>3

\* The rule that is placed says what its signer stated, and trusts whom the
\* statement asked to.
LEMMA LoadedSays ==
  ASSUME LoadTypeOK, LoadInv, ClauseRead, TrustRead, TablesGoOn, Sensible(token),
         pc = "place", phase \in {"rules", "checks"}, NEW is_query \in BOOLEAN
  PROVE  WorldClause(Loaded(is_query)) = StatedClause(token, block, CurrentClause, is_query)
<1>1. /\ CurrentClause \in Clause /\ CurrentClause \in ToSet(Statements(token, block))
      /\ token \in Tokens /\ block \in 0 .. Len(token) - 1
  BY ClauseIsStated, TokenTyped DEF InClause, LoadInv
<1>2. SpelledClause(From.symbols, CurrentClause)
      = SpelledClause(SignersTables(token, block).symbols, CurrentClause)
  BY <1>1, AsSigned DEF From
<1>3. Trust(token, block, CurrentClause.scopes, trust) = TrustAsked(token, block, CurrentClause)
  BY <1>1, TrustIsAsked DEF TrustRead, Here
<1> DEFINE r == Loaded(is_query)
           c == [head |-> made[1], body |-> Tail(made), expr |-> tests]
<1>4. r.head = c.head /\ r.body = c.body /\ r.expr = c.expr /\ r.is_query = is_query
      /\ r.trust = Trust(token, block, CurrentClause.scopes, trust) /\ r.block = block
  BY DEF Loaded
<1>5. SpelledClause(entries, r) = SpelledClause(entries, c)
  <2> HIDE DEF r, c
  <2>1. QED
    BY <1>4 DEF SpelledClause
<1>6. SpelledClause(entries, c) = SpelledClause(From.symbols, CurrentClause)
  BY ClauseSays
<1> HIDE DEF r, c
<1>7. WorldClause(r) = StatedClause(token, block, CurrentClause, is_query)
  BY <1>2, <1>3, <1>4, <1>5, <1>6 DEF WorldClause, StatedClause
<1>8. QED
  BY <1>7 DEF r

\* So does a fact.
LEMMA FactSays ==
  ASSUME LoadTypeOK, LoadInv, ClauseRead, TablesGoOn, Sensible(token), pc = "place", phase = "facts"
  PROVE  SpelledPredicate(entries, [name |-> made[1].name, terms |-> made[1].terms, origin |-> {block}])
         = FactsOf(token, block)[msg].said
<1>1. msg \in DOMAIN Here.facts
  BY DEF LoadInv, OnStatement, AtStatement, InClause
<1>2. token \in Tokens /\ block \in 0 .. Len(token) - 1
  BY TokenTyped DEF LoadInv
<1>3. SpelledPredicate(entries, made[1]) = SpelledPredicate(From.symbols, Here.facts[msg])
  BY ClauseSays DEF CurrentClause
<1>4. SpelledPredicate(From.symbols, Here.facts[msg])
      = SpelledPredicate(SignersTables(token, block).symbols, Here.facts[msg])
  BY <1>1, <1>2, FactAsSigned DEF From, Here
<1>5. FactsOf(token, block)[msg].said
      = SpelledPredicate(SignersTables(token, block).symbols, Here.facts[msg])
  BY <1>1 DEF FactsOf, Here
<1>6. SpelledPredicate(entries, [name |-> made[1].name, terms |-> made[1].terms, origin |-> {block}])
      = SpelledPredicate(entries, made[1])
  BY DEF SpelledPredicate
<1>7. QED
  BY <1>3, <1>4, <1>5, <1>6
-----------------------------------------------------------------------------
(* The statements of a token, part by part.                                *)

FactsFor(t, b) == {[said |-> SpelledPredicate(SignersTables(t, b).symbols, p), origin |-> {b}] :
                     p \in Predicate}
StatedFacts(t) == UNION {FactsFor(t, b) : b \in 0 .. Len(t) - 1}
ClausesFor(t, b, q) == {StatedClause(t, b, c, q) : c \in Clause}
BlockClauses(t, b) == ClausesFor(t, b, FALSE) \cup ClausesFor(t, b, TRUE)
StatedClauses(t) == UNION {BlockClauses(t, b) : b \in 0 .. Len(t) - 1}
StatedChecks(t) == {[kind |-> c.kind, block |-> b, queries |-> QueriesOf(t, b, c)] :
                      c \in CheckMessage, b \in 0 .. Len(t) - 1}

\* The queries of a block, check by check.
Asked(t, b) == [m \in DOMAIN t[b + 1].checks |-> QueriesOf(t, b, t[b + 1].checks[m])]

\* The statements of a block, as sequences.
LEMMA StatedTyped ==
  ASSUME NEW t \in Seq(Message), NEW b \in 0 .. Len(t) - 1
  PROVE  /\ FactsOf(t, b) \in Seq(StatedFacts(t)) /\ Len(FactsOf(t, b)) = Len(t[b + 1].facts)
         /\ RulesOf(t, b) \in Seq(StatedClauses(t)) /\ Len(RulesOf(t, b)) = Len(t[b + 1].rules)
         /\ ChecksOf(t, b) \in Seq(StatedChecks(t)) /\ Len(ChecksOf(t, b)) = Len(t[b + 1].checks)
         /\ Asked(t, b) \in Seq(Seq(StatedClauses(t))) /\ Len(Asked(t, b)) = Len(t[b + 1].checks)
         /\ \A m \in 1 .. Len(t[b + 1].checks) :
              /\ Asked(t, b)[m] = QueriesOf(t, b, t[b + 1].checks[m])
              /\ Len(Asked(t, b)[m]) = Len(t[b + 1].checks[m].queries)
         /\ FlattenSeq(Asked(t, b)) \in Seq(StatedClauses(t))
         /\ ClausesOf(t, b) = RulesOf(t, b) \o FlattenSeq(Asked(t, b))
         /\ ClausesOf(t, b) \in Seq(StatedClauses(t))
<1> DEFINE M == t[b + 1]
<1>1. M \in Message
  <2>1. b + 1 \in 1 .. Len(t)
    BY LenProperties
  <2>2. QED
    BY <2>1, ElementOfSeq
<1>2. ASSUME NEW S, NEW T, NEW s \in Seq(S), NEW f, f \in [DOMAIN s -> T]
      PROVE  f \in Seq(T) /\ Len(f) = Len(s)
  <2>1. Len(s) \in Nat /\ DOMAIN s = 1 .. Len(s)
    BY LenProperties
  <2>2. f \in Seq(T) /\ DOMAIN f = 1 .. Len(s)
    BY <1>2, <2>1, SeqDef
  <2>3. Len(f) \in Nat /\ 1 .. Len(f) = 1 .. Len(s)
    BY <2>2, LenProperties
  <2>4. QED
    BY <2>1, <2>2, <2>3
<1>3. FactsOf(t, b) \in Seq(StatedFacts(t)) /\ Len(FactsOf(t, b)) = Len(M.facts)
  <2>1. M.facts \in Seq(Predicate)
    BY <1>1, MessageFields
  <2>2. \A n \in DOMAIN M.facts : M.facts[n] \in Predicate
    BY <2>1, ElementOfSeq, LenProperties
  <2> DEFINE e(n) == [said |-> SpelledPredicate(SignersTables(t, b).symbols, M.facts[n]), origin |-> {b}]
  <2>3. \A n \in DOMAIN M.facts : e(n) \in StatedFacts(t)
    <3>1. ASSUME NEW p \in Predicate
          PROVE  [said |-> SpelledPredicate(SignersTables(t, b).symbols, p), origin |-> {b}] \in StatedFacts(t)
      <4>1. [said |-> SpelledPredicate(SignersTables(t, b).symbols, p), origin |-> {b}] \in FactsFor(t, b)
        BY DEF FactsFor
      <4>2. QED
        BY <4>1 DEF StatedFacts
    <3>2. QED
      BY <2>2, <3>1
  <2>4. FactsOf(t, b) = [n \in DOMAIN M.facts |-> e(n)]
    BY DEF FactsOf
  <2> HIDE DEF e, M
  <2>5. FactsOf(t, b) \in [DOMAIN M.facts -> StatedFacts(t)]
    BY <2>3, <2>4
  <2>6. QED
    BY <1>2, <2>1, <2>5
<1>4. RulesOf(t, b) \in Seq(StatedClauses(t)) /\ Len(RulesOf(t, b)) = Len(M.rules)
  <2>1. M.rules \in Seq(Clause)
    BY <1>1, MessageFields
  <2>2. \A n \in DOMAIN M.rules : M.rules[n] \in Clause
    BY <2>1, ElementOfSeq, LenProperties
  <2> DEFINE e(n) == StatedClause(t, b, M.rules[n], FALSE)
  <2>3. \A n \in DOMAIN M.rules : e(n) \in StatedClauses(t)
    <3>1. ASSUME NEW d \in Clause PROVE StatedClause(t, b, d, FALSE) \in StatedClauses(t)
      <4>1. StatedClause(t, b, d, FALSE) \in BlockClauses(t, b)
        BY DEF ClausesFor, BlockClauses
      <4>2. QED
        BY <4>1 DEF StatedClauses
    <3>2. QED
      BY <2>2, <3>1
  <2>4. RulesOf(t, b) = [n \in DOMAIN M.rules |-> e(n)]
    BY DEF RulesOf
  <2> HIDE DEF e, M
  <2>5. RulesOf(t, b) \in [DOMAIN M.rules -> StatedClauses(t)]
    BY <2>3, <2>4
  <2>6. QED
    BY <1>2, <2>1, <2>5
<1>5. M.checks \in Seq(CheckMessage) /\ \A n \in DOMAIN M.checks : M.checks[n] \in CheckMessage
  <2>1. M.checks \in Seq(CheckMessage)
    BY <1>1, MessageFields
  <2>2. QED
    BY <2>1, ElementOfSeq, LenProperties
<1>6. ChecksOf(t, b) \in Seq(StatedChecks(t)) /\ Len(ChecksOf(t, b)) = Len(M.checks)
  <2>1. ChecksOf(t, b) \in [DOMAIN M.checks -> StatedChecks(t)]
    BY <1>5 DEF ChecksOf, StatedChecks
  <2>2. QED
    BY <1>2, <1>5, <2>1
<1>7. ASSUME NEW c \in CheckMessage
      PROVE  QueriesOf(t, b, c) \in Seq(StatedClauses(t)) /\ Len(QueriesOf(t, b, c)) = Len(c.queries)
  <2>1. c.queries \in Seq(Clause)
    BY DEF CheckMessage
  <2>2. \A n \in DOMAIN c.queries : c.queries[n] \in Clause
    BY <2>1, ElementOfSeq, LenProperties
  <2> DEFINE e(n) == StatedClause(t, b, c.queries[n], TRUE)
  <2>3. \A n \in DOMAIN c.queries : e(n) \in StatedClauses(t)
    <3>1. ASSUME NEW d \in Clause PROVE StatedClause(t, b, d, TRUE) \in StatedClauses(t)
      <4>1. StatedClause(t, b, d, TRUE) \in BlockClauses(t, b)
        BY DEF ClausesFor, BlockClauses
      <4>2. QED
        BY <4>1 DEF StatedClauses
    <3>2. QED
      BY <2>2, <3>1
  <2>4. QueriesOf(t, b, c) = [n \in DOMAIN c.queries |-> e(n)]
    BY DEF QueriesOf
  <2> HIDE DEF e
  <2>5. QueriesOf(t, b, c) \in [DOMAIN c.queries -> StatedClauses(t)]
    BY <2>3, <2>4
  <2>6. QED
    BY <1>2, <2>1, <2>5
<1>8. Asked(t, b) \in Seq(Seq(StatedClauses(t))) /\ Len(Asked(t, b)) = Len(M.checks)
  <2>1. Asked(t, b) \in [DOMAIN M.checks -> Seq(StatedClauses(t))]
    BY <1>5, <1>7 DEF Asked
  <2>2. QED
    BY <1>2, <1>5, <2>1
<1>9. ASSUME NEW m \in 1 .. Len(M.checks)
      PROVE  /\ Asked(t, b)[m] = QueriesOf(t, b, M.checks[m])
             /\ Len(Asked(t, b)[m]) = Len(M.checks[m].queries)
  <2>1. m \in DOMAIN M.checks
    BY <1>5, LenProperties
  <2>2. QED
    BY <1>5, <1>7, <2>1 DEF Asked
<1>10. FlattenSeq(Asked(t, b)) \in Seq(StatedClauses(t))
  <2>1. 0 \in 0 .. Len(Asked(t, b))
    BY <1>8, LenProperties
  <2>2. QED
    BY <1>8, <2>1, BeforeIsPrefix
<1>11. ClausesOf(t, b) = RulesOf(t, b) \o FlattenSeq(Asked(t, b))
  BY DEF ClausesOf, Asked
<1>12. ClausesOf(t, b) \in Seq(StatedClauses(t))
  BY <1>4, <1>10, <1>11, ConcatProperties
<1> HIDE DEF M
<1>13. QED
  BY <1>3, <1>4, <1>6, <1>8, <1>9, <1>10, <1>11, <1>12 DEF M

\* The statements of a token, block by block.
LEMMA PartsTyped ==
  ASSUME token \in Seq(Message), block \in 0 .. Len(token) - 1
  PROVE  /\ FactParts \in Seq(Seq(StatedFacts(token))) /\ Len(FactParts) = Len(token)
         /\ ClauseParts \in Seq(Seq(StatedClauses(token))) /\ Len(ClauseParts) = Len(token)
         /\ CheckParts \in Seq(Seq(StatedChecks(token))) /\ Len(CheckParts) = Len(token)
         /\ QueryParts = Asked(token, block)
         /\ FactParts[block + 1] = FactsOf(token, block)
         /\ ClauseParts[block + 1] = ClausesOf(token, block)
         /\ CheckParts[block + 1] = ChecksOf(token, block)
         /\ FlattenSeq(FactParts) = PerBlock(token, FactsOf)
         /\ FlattenSeq(ClauseParts) = PerBlock(token, ClausesOf)
         /\ FlattenSeq(CheckParts) = PerBlock(token, ChecksOf)
<1>1. Len(token) \in Nat /\ DOMAIN token = 1 .. Len(token) /\ block + 1 \in 1 .. Len(token)
      /\ (block + 1) - 1 = block
  BY LenProperties
<1>2. \A i \in 1 .. Len(token) : i - 1 \in 0 .. Len(token) - 1
  BY <1>1
<1>3. ASSUME NEW T, NEW f, f \in [1 .. Len(token) -> T] PROVE f \in Seq(T) /\ Len(f) = Len(token)
  <2>1. f \in Seq(T)
    BY <1>1, <1>3, SeqDef
  <2>2. Len(f) \in Nat /\ 1 .. Len(f) = 1 .. Len(token)
    BY <1>3, <2>1, LenProperties
  <2>3. QED
    BY <1>1, <2>1, <2>2
<1>4. FactParts \in [1 .. Len(token) -> Seq(StatedFacts(token))]
  <2>1. \A i \in 1 .. Len(token) : FactsOf(token, i - 1) \in Seq(StatedFacts(token))
    BY <1>2, StatedTyped
  <2>2. QED
    BY <1>1, <2>1 DEF FactParts
<1>5. ClauseParts \in [1 .. Len(token) -> Seq(StatedClauses(token))]
  <2>1. \A i \in 1 .. Len(token) : ClausesOf(token, i - 1) \in Seq(StatedClauses(token))
    BY <1>2, StatedTyped
  <2>2. QED
    BY <1>1, <2>1 DEF ClauseParts
<1>6. CheckParts \in [1 .. Len(token) -> Seq(StatedChecks(token))]
  <2>1. \A i \in 1 .. Len(token) : ChecksOf(token, i - 1) \in Seq(StatedChecks(token))
    BY <1>2, StatedTyped
  <2>2. QED
    BY <1>1, <2>1 DEF CheckParts
<1>7. QueryParts = Asked(token, block)
  BY DEF QueryParts, Asked, Here
<1>8. /\ FactParts[block + 1] = FactsOf(token, block)
      /\ ClauseParts[block + 1] = ClausesOf(token, block)
      /\ CheckParts[block + 1] = ChecksOf(token, block)
  <2>1. FactParts[block + 1] = FactsOf(token, (block + 1) - 1)
    BY <1>1 DEF FactParts
  <2>2. ClauseParts[block + 1] = ClausesOf(token, (block + 1) - 1)
    BY <1>1 DEF ClauseParts
  <2>3. CheckParts[block + 1] = ChecksOf(token, (block + 1) - 1)
    BY <1>1 DEF CheckParts
  <2>4. QED
    BY <1>1, <2>1, <2>2, <2>3
<1>9. /\ FlattenSeq(FactParts) = PerBlock(token, FactsOf)
      /\ FlattenSeq(ClauseParts) = PerBlock(token, ClausesOf)
      /\ FlattenSeq(CheckParts) = PerBlock(token, ChecksOf)
  BY DEF FactParts, ClauseParts, CheckParts, PerBlock
<1>10. QED
  BY <1>3, <1>4, <1>5, <1>6, <1>7, <1>8, <1>9

-----------------------------------------------------------------------------
(* The world as a sequence.                                                *)

\* A function that is one place longer is an Append.
LEMMA AppendIs ==
  ASSUME NEW S, NEW s \in Seq(S), NEW f, f = [k \in 1 .. Len(s) + 1 |-> f[k]],
         \A k \in 1 .. Len(s) : f[k] = s[k]
  PROVE  f = Append(s, f[Len(s) + 1])
<1> DEFINE x == f[Len(s) + 1]
           g == Append(s, x)
<1> HIDE DEF x
<1>1. /\ Len(s) \in Nat /\ DOMAIN g = 1 .. Len(s) + 1 /\ g[Len(s) + 1] = x
      /\ \A k \in 1 .. Len(s) : g[k] = s[k]
  BY AppendedLast
<1>2. g = [k \in 1 .. Len(s) + 1 |-> g[k]]
  <2>1. s \in Seq(S \cup {x}) /\ x \in S \cup {x}
    BY SeqMonotonic
  <2> DEFINE T == S \cup {x}
  <2> HIDE DEF T
  <2>2. s \in Seq(T) /\ x \in T
    BY <2>1 DEF T
  <2>3. g \in Seq(T)
    BY <2>2, AppendProperties
  <2> HIDE DEF g
  <2>4. g \in [1 .. Len(g) -> T] /\ DOMAIN g = 1 .. Len(g)
    BY <2>3, LenProperties
  <2>5. QED
    BY <1>1, <2>4
<1> HIDE DEF g
<1>3. \A k \in 1 .. Len(s) + 1 : f[k] = g[k]
  <2>0. f[Len(s) + 1] = x
    BY DEF x
  <2>1. \A k \in 1 .. Len(s) + 1 : k \in 1 .. Len(s) \/ k = Len(s) + 1
    BY <1>1
  <2>2. QED
    BY <1>1, <2>0, <2>1
<1>4. f = g
  BY <1>2, <1>3
<1>5. QED
  BY <1>4 DEF g, x

\* What a world says, as sequences.
LEMMA WorldTyped ==
  ASSUME LoadTypeOK
  PROVE  /\ DOMAIN facts = 1 .. Len(facts) /\ DOMAIN rules = 1 .. Len(rules)
         /\ DOMAIN checks = 1 .. Len(checks)
         /\ Len(facts) \in Nat /\ Len(rules) \in Nat /\ Len(checks) \in Nat
         /\ \E S : WorldFacts \in Seq(S) /\ Len(WorldFacts) = Len(facts)
         /\ \E S : WorldRules \in Seq(S) /\ Len(WorldRules) = Len(rules)
         /\ \E S : WorldChecks \in Seq(S) /\ Len(WorldChecks) = Len(checks)
<1>1. facts \in Seq(Fact) /\ rules \in Seq(Rule) /\ checks \in Seq(Check)
  BY DEF LoadTypeOK
<1>2. ASSUME NEW S, NEW s \in Seq(S), NEW w, w = [n \in DOMAIN s |-> w[n]]
      PROVE  \E T : w \in Seq(T) /\ Len(w) = Len(s)
  <2> DEFINE T == {w[n] : n \in DOMAIN s}
  <2>1. Len(s) \in Nat /\ DOMAIN s = 1 .. Len(s)
    BY LenProperties
  <2>2. w \in [1 .. Len(s) -> T]
    BY <1>2, <2>1
  <2> HIDE DEF T
  <2>3. w \in Seq(T)
    BY <2>1, <2>2, SeqDef
  <2>4. Len(w) \in Nat /\ 1 .. Len(w) = 1 .. Len(s)
    BY <2>2, <2>3, LenProperties
  <2>5. QED
    BY <2>1, <2>3, <2>4
<1>3. /\ WorldFacts = [n \in DOMAIN facts |-> WorldFacts[n]]
      /\ WorldRules = [n \in DOMAIN rules |-> WorldRules[n]]
      /\ WorldChecks = [n \in DOMAIN checks |-> WorldChecks[n]]
  BY DEF WorldFacts, WorldRules, WorldChecks
<1>4. QED
  BY <1>1, <1>2, <1>3, LenProperties

\* A statement that is placed comes last.
LEMMA FactAppended ==
  ASSUME LoadTypeOK, NEW f, entries' = entries, facts' = Append(facts, f)
  PROVE  WorldFacts' = Append(WorldFacts, [said |-> SpelledPredicate(entries, f), origin |-> f.origin])
<1> DEFINE w == WorldFacts'
           e == [said |-> SpelledPredicate(entries, f), origin |-> f.origin]
<1>1. /\ Len(facts) \in Nat /\ DOMAIN facts' = 1 .. Len(facts) + 1 /\ DOMAIN facts = 1 .. Len(facts)
      /\ facts'[Len(facts) + 1] = f
      /\ \A k \in 1 .. Len(facts) : facts'[k] = facts[k]
  BY AppendedLast DEF LoadTypeOK
<1>2. w = [n \in DOMAIN facts' |-> [said |-> SpelledPredicate(entries, facts'[n]),
                                    origin |-> facts'[n].origin]]
  BY DEF WorldFacts
<1> HIDE DEF w
<1>3. \A k \in 1 .. Len(facts) : w[k] = WorldFacts[k]
  BY <1>1, <1>2 DEF WorldFacts
<1>4. w[Len(facts) + 1] = e
  <2>1. Len(facts) + 1 \in DOMAIN facts'
    BY <1>1
  <2>2. QED
    BY <1>1, <1>2, <2>1
<1>5. w = [n \in 1 .. Len(facts) + 1 |-> w[n]]
  BY <1>1, <1>2
<1>6. PICK S : WorldFacts \in Seq(S) /\ Len(WorldFacts) = Len(facts)
  BY WorldTyped
<1> HIDE DEF e
<1>7. /\ w = [k \in 1 .. Len(WorldFacts) + 1 |-> w[k]]
      /\ \A k \in 1 .. Len(WorldFacts) : w[k] = WorldFacts[k]
      /\ w[Len(WorldFacts) + 1] = e
  BY <1>3, <1>4, <1>5, <1>6
<1>8. w = Append(WorldFacts, w[Len(WorldFacts) + 1])
  BY <1>6, <1>7, AppendIs
<1>9. QED
  BY <1>7, <1>8 DEF w, e

\* A rule that is placed comes last, and no run reaches it.
LEMMA RuleAppended ==
  ASSUME LoadTypeOK, RunsFilled, NEW x, UNCHANGED <<entries, checks>>, rules' = Append(rules, x)
  PROVE  /\ WorldRules' = Append(WorldRules, WorldClause(x))
         /\ WorldChecks' = WorldChecks
         /\ RunsFilled'
<1> DEFINE w == WorldRules'
<1>1. /\ Len(rules) \in Nat /\ DOMAIN rules' = 1 .. Len(rules) + 1 /\ DOMAIN rules = 1 .. Len(rules)
      /\ rules'[Len(rules) + 1] = x /\ Len(rules') = Len(rules) + 1
      /\ \A k \in 1 .. Len(rules) : rules'[k] = rules[k]
  BY AppendedLast DEF LoadTypeOK
<1>3. w = [n \in DOMAIN rules' |-> WorldClause(rules'[n])]
  BY DEF WorldRules, WorldClause
<1> HIDE DEF w
<1>4. \A k \in 1 .. Len(rules) : w[k] = WorldRules[k]
  BY <1>1, <1>3 DEF WorldRules
<1>5. w[Len(rules) + 1] = WorldClause(x)
  <2>1. Len(rules) + 1 \in DOMAIN rules'
    BY <1>1
  <2>2. QED
    BY <1>1, <1>3, <2>1
<1>6. w = [n \in 1 .. Len(rules) + 1 |-> w[n]]
  BY <1>1, <1>3
<1>7. PICK S : WorldRules \in Seq(S) /\ Len(WorldRules) = Len(rules)
  BY WorldTyped
<1>8. w = Append(WorldRules, WorldClause(x))
  <2>1. /\ w = [k \in 1 .. Len(WorldRules) + 1 |-> w[k]]
        /\ \A k \in 1 .. Len(WorldRules) : w[k] = WorldRules[k]
        /\ w[Len(WorldRules) + 1] = WorldClause(x)
    BY <1>4, <1>5, <1>6, <1>7
  <2>2. w = Append(WorldRules, w[Len(WorldRules) + 1])
    BY <1>7, <2>1, AppendIs
  <2>3. QED
    BY <2>1, <2>2
<1>9. ASSUME NEW n \in DOMAIN checks, NEW i \in 1 .. checks[n].query_count
      PROVE  checks[n].query_at + i \in 1 .. Len(rules)
  <2>1. checks[n] \in Check
    BY ElementOfSeq, LenProperties DEF LoadTypeOK
  <2>2. checks[n].query_at \in Nat /\ checks[n].query_count \in Nat
    BY <2>1 DEF Check
  <2>3. checks[n].query_at + checks[n].query_count <= Len(rules)
    BY DEF RunsFilled
  <2>4. QED
    BY <1>1, <2>2, <2>3
<1>10. WorldChecks' = WorldChecks
  <2>1. WorldChecks' = [n \in DOMAIN checks |->
          [kind |-> checks[n].kind, block |-> checks[n].block,
           queries |-> [i \in 1 .. checks[n].query_count |->
                          WorldClause(rules'[checks[n].query_at + i])]]]
    BY DEF WorldChecks, WorldClause
  <2>2. QED
    BY <1>1, <1>9, <2>1 DEF WorldChecks
<1>11. RunsFilled'
  <2>1. ASSUME NEW n \in DOMAIN checks
        PROVE  checks[n].query_at + checks[n].query_count <= Len(rules')
    <3>1. checks[n] \in Check
      BY ElementOfSeq, LenProperties DEF LoadTypeOK
    <3>2. checks[n].query_at \in Nat /\ checks[n].query_count \in Nat
      BY <3>1 DEF Check
    <3>3. QED
      BY <1>1, <3>2 DEF RunsFilled
  <2>2. QED
    BY <2>1 DEF RunsFilled
<1>12. QED
  BY <1>8, <1>10, <1>11 DEF w

\* A check that is placed comes last.
LEMMA CheckAppended ==
  ASSUME LoadTypeOK, NEW c, UNCHANGED <<entries, rules>>, checks' = Append(checks, c)
  PROVE  WorldChecks' = Append(WorldChecks,
           [kind |-> c.kind, block |-> c.block,
            queries |-> [i \in 1 .. c.query_count |-> WorldClause(rules[c.query_at + i])]])
<1> DEFINE w == WorldChecks'
           e == [kind |-> c.kind, block |-> c.block,
                 queries |-> [i \in 1 .. c.query_count |-> WorldClause(rules[c.query_at + i])]]
<1>1. /\ Len(checks) \in Nat /\ DOMAIN checks' = 1 .. Len(checks) + 1
      /\ DOMAIN checks = 1 .. Len(checks) /\ checks'[Len(checks) + 1] = c
      /\ \A k \in 1 .. Len(checks) : checks'[k] = checks[k]
  BY AppendedLast DEF LoadTypeOK
<1>2. w = [n \in DOMAIN checks' |->
             [kind |-> checks'[n].kind, block |-> checks'[n].block,
              queries |-> [i \in 1 .. checks'[n].query_count |->
                             WorldClause(rules[checks'[n].query_at + i])]]]
  BY DEF WorldChecks, WorldClause
<1> HIDE DEF w
<1>3. \A k \in 1 .. Len(checks) : w[k] = WorldChecks[k]
  BY <1>1, <1>2 DEF WorldChecks
<1>4. w[Len(checks) + 1] = e
  <2>1. Len(checks) + 1 \in DOMAIN checks'
    BY <1>1
  <2>2. QED
    BY <1>1, <1>2, <2>1
<1>5. w = [n \in 1 .. Len(checks) + 1 |-> w[n]]
  BY <1>1, <1>2
<1>6. PICK S : WorldChecks \in Seq(S) /\ Len(WorldChecks) = Len(checks)
  BY WorldTyped
<1> HIDE DEF e
<1>7. /\ w = [k \in 1 .. Len(WorldChecks) + 1 |-> w[k]]
      /\ \A k \in 1 .. Len(WorldChecks) : w[k] = WorldChecks[k]
      /\ w[Len(WorldChecks) + 1] = e
  BY <1>3, <1>4, <1>5, <1>6
<1>8. w = Append(WorldChecks, w[Len(WorldChecks) + 1])
  BY <1>6, <1>7, AppendIs
<1>9. QED
  BY <1>7, <1>8 DEF w, e
-----------------------------------------------------------------------------
(* What is read, from turn to turn.                                        *)

WorldRead == FactsRead /\ RulesRead /\ ChecksRead

\* The statements of a token stay.
LEMMA PartsSame ==
  ASSUME UNCHANGED <<token, block>>
  PROVE  /\ FactParts' = FactParts /\ ClauseParts' = ClauseParts
         /\ CheckParts' = CheckParts /\ QueryParts' = QueryParts
<1>1. Here' = Here
  BY DEF Here
<1>2. FactParts' = FactParts
  BY DEF FactParts
<1>3. ClauseParts' = ClauseParts
  BY DEF ClauseParts
<1>4. CheckParts' = CheckParts
  BY DEF CheckParts
<1>5. QueryParts' = QueryParts
  BY <1>1 DEF QueryParts
<1>6. QED
  BY <1>2, <1>3, <1>4, <1>5

\* A world and a place that stay say the same.
LEMMA ReadSame ==
  ASSUME WorldRead, InCheck' <=> InCheck, UNCHANGED <<token, block, phase, msg, query>>,
         WorldFacts' = WorldFacts, WorldRules' = WorldRules, WorldChecks' = WorldChecks
  PROVE  WorldRead'
<1>1. /\ FactParts' = FactParts /\ ClauseParts' = ClauseParts
      /\ CheckParts' = CheckParts /\ QueryParts' = QueryParts
  BY PartsSame
<1>2. QueriesRead' = QueriesRead
  BY <1>1 DEF QueriesRead
<1>3. LogicRead' = LogicRead
  BY <1>1, <1>2 DEF LogicRead
<1>4. FactsRead'
  BY <1>1 DEF WorldRead, FactsRead
<1>5. RulesRead'
  BY <1>1, <1>3 DEF WorldRead, RulesRead
<1>6. ChecksRead'
  BY <1>1 DEF WorldRead, ChecksRead
<1>7. QED
  BY <1>4, <1>5, <1>6 DEF WorldRead

\* A turn within a statement, or that opens one, reads no further.
LEMMA TurnKept ==
  ASSUME LoadTypeOK, LoadInv, ReadInv, pc # "stopped", ClauseRead', InCheck' <=> InCheck,
         entries' \in Seq(Text), IsPrefix(entries, entries'),
         UNCHANGED <<token, block, phase, msg, query, trust, facts, rules, checks, status>>
  PROVE  ReadInv'
<1>1. /\ status = "none" /\ TrustRead /\ WithinLoops /\ RunsFilled
      /\ Sensible(token) => WorldRead
  BY DEF ReadInv, WorldRead
<1>2. WorldFacts' = WorldFacts /\ WorldRules' = WorldRules /\ WorldChecks' = WorldChecks
  BY <1>1, WorldKept
<1>3. Here' = Here
  BY DEF Here
<1>4. TrustRead' /\ WithinLoops' /\ RunsFilled'
  BY <1>1, <1>3 DEF TrustRead, WithinLoops, RunsFilled
<1>5. Sensible(token') => WorldRead'
  BY <1>1, <1>2, ReadSame
<1>6. QED
  BY <1>1, <1>4, <1>5 DEF ReadInv, WorldRead

\* A symbol is read, a run reserved, a predicate or an expression passed.
LEMMA ClauseTurn ==
  ASSUME LoadTypeOK, LoadInv, ReadInv, LoadTypeOK',
         \/ ReadName \/ ReadTerm \/ ReadOperand
         \/ Reserve \/ PredicateDone \/ NextPredicate \/ NextExpression
  PROVE  ReadInv'
<1>1. /\ pc # "stopped" /\ InClause /\ InClause'
      /\ UNCHANGED <<token, block, phase, msg, query, trust, facts, rules, checks, status>>
  BY DEF ReadName, ReadTerm, ReadOperand, Reserve, PredicateDone, NextPredicate, NextExpression,
         Reserving, Demand, InClause, poolVars, placeVars
<1>2. ClauseRead
  BY <1>1 DEF ReadInv
<1>3. ClauseRead'
  BY <1>2, NameSays, TermSays, OperandSays, TurnSays, PredicateSays
<1>4. InCheck' <=> InCheck
  BY <1>1 DEF InCheck
<1>5. entries' \in Seq(Text) /\ IsPrefix(entries, entries')
  <2>1. entries \in Seq(Text) /\ entries' \in Seq(Text)
    BY DEF LoadTypeOK
  <2>2. CASE ReadName \/ ReadTerm \/ ReadOperand
    <3>1. Reading /\ Translates
      BY <2>2 DEF ReadName, ReadTerm, ReadOperand, Reading
    <3>2. QED
      BY <2>1, <3>1, SpelledAsRead
  <2>3. CASE Reserve \/ PredicateDone \/ NextPredicate \/ NextExpression
    <3>1. entries' = entries
      BY <2>3 DEF Reserve, PredicateDone, NextPredicate, NextExpression, poolVars
    <3>2. QED
      BY <2>1, <3>1, PrefixItself
  <2>4. QED
    BY <2>2, <2>3
<1>6. QED
  BY <1>1, <1>3, <1>4, <1>5, TurnKept

\* A statement is opened.
LEMMA OpeningTurn ==
  ASSUME LoadTypeOK, LoadInv, ReadInv, LoadTypeOK', LoadInv', pc' # "stopped",
         NextFact \/ NextRule \/ NextQuery
  PROVE  ReadInv'
<1>1. /\ pc \in {"next", "query"} /\ OpenClause
      /\ UNCHANGED <<token, block, phase, msg, query, trust, entries, facts, rules, checks, status>>
  BY DEF NextFact, NextRule, NextQuery, Refuse, poolVars, placeVars
<1>2. InClause'
  BY <1>1 DEF OpenClause, InClause
<1>3. AtStatement
  <2>1. AtStatement'
    BY <1>2 DEF LoadInv, OnStatement
  <2>2. Here' = Here
    BY <1>1 DEF Here
  <2>3. QED
    BY <1>1, <2>1, <2>2 DEF AtStatement
<1>4. ClauseRead'
  BY <1>1, <1>3, OpenSays
<1>5. InCheck' <=> InCheck
  <2>1. pc = "query" => phase = "checks"
    BY DEF LoadInv, OnStatement
  <2>2. pc = "next" => phase \in {"facts", "rules"}
    BY DEF NextFact, NextRule, NextQuery
  <2>3. QED
    BY <1>1, <1>2, <2>1, <2>2 DEF InCheck
<1>6. entries \in Seq(Text)
  BY DEF LoadTypeOK
<1>7. IsPrefix(entries, entries')
  BY <1>1, <1>6, PrefixItself
<1>8. pc # "stopped" /\ entries' \in Seq(Text)
  BY <1>1, <1>6
<1>9. QED
  BY <1>1, <1>4, <1>5, <1>7, <1>8, TurnKept
-----------------------------------------------------------------------------
(* What is read when a statement is placed.                                *)

\* Where the loops are.
LEMMA AtPlace ==
  ASSUME LoadTypeOK, LoadInv
  PROVE  /\ token \in Seq(Message) /\ block \in 0 .. Len(token) - 1 /\ block \in Nat
         /\ Len(token) \in Nat /\ block < Len(token) /\ block + 1 \in 1 .. Len(token)
         /\ Here \in Message /\ Here = token[block + 1] /\ msg \in Nat \ {0} /\ query \in Nat \ {0}
         /\ Here.facts \in Seq(Predicate) /\ Here.rules \in Seq(Clause)
         /\ Here.checks \in Seq(CheckMessage)
         /\ Len(Here.facts) \in Nat /\ DOMAIN Here.facts = 1 .. Len(Here.facts)
         /\ Len(Here.rules) \in Nat /\ DOMAIN Here.rules = 1 .. Len(Here.rules)
         /\ Len(Here.checks) \in Nat /\ DOMAIN Here.checks = 1 .. Len(Here.checks)
         /\ \A m \in DOMAIN Here.checks :
              /\ Here.checks[m].queries \in Seq(Clause)
              /\ Len(Here.checks[m].queries) \in Nat
              /\ DOMAIN Here.checks[m].queries = 1 .. Len(Here.checks[m].queries)
<1>1. /\ token \in Seq(Message) /\ block \in 0 .. Len(token) - 1 /\ Here \in Message
  BY TokenTyped
<1>2. Len(token) \in Nat
  BY <1>1, LenProperties
<1>3. /\ Here.facts \in Seq(Predicate) /\ Here.rules \in Seq(Clause)
      /\ Here.checks \in Seq(CheckMessage)
  BY <1>1, MessageFields
<1>4. /\ Len(Here.facts) \in Nat /\ DOMAIN Here.facts = 1 .. Len(Here.facts)
      /\ Len(Here.rules) \in Nat /\ DOMAIN Here.rules = 1 .. Len(Here.rules)
      /\ Len(Here.checks) \in Nat /\ DOMAIN Here.checks = 1 .. Len(Here.checks)
  BY <1>3, LenProperties
<1>5. ASSUME NEW m \in DOMAIN Here.checks
      PROVE  /\ Here.checks[m].queries \in Seq(Clause)
             /\ Len(Here.checks[m].queries) \in Nat
             /\ DOMAIN Here.checks[m].queries = 1 .. Len(Here.checks[m].queries)
  <2>1. Here.checks[m] \in CheckMessage
    BY <1>3, <1>4, ElementOfSeq
  <2>2. Here.checks[m].queries \in Seq(Clause)
    BY <2>1 DEF CheckMessage
  <2>3. QED
    BY <2>2, LenProperties
<1>6. msg \in Nat \ {0} /\ query \in Nat \ {0}
  BY DEF LoadTypeOK
<1>7. Here = token[block + 1]
  BY DEF Here
<1>8. QED
  BY <1>1, <1>2, <1>3, <1>4, <1>5, <1>6, <1>7

\* The same, of the places alone.
LEMMA PlaceNumbers ==
  ASSUME LoadTypeOK, LoadInv
  PROVE  /\ msg \in Nat \ {0} /\ query \in Nat \ {0} /\ at \in Nat
         /\ Len(Here.facts) \in Nat /\ DOMAIN Here.facts = 1 .. Len(Here.facts)
         /\ Len(Here.rules) \in Nat /\ DOMAIN Here.rules = 1 .. Len(Here.rules)
         /\ Len(Here.checks) \in Nat /\ DOMAIN Here.checks = 1 .. Len(Here.checks)
BY AtPlace DEF LoadTypeOK

\* And of the queries of a check.
LEMMA QueryPlaces ==
  ASSUME LoadTypeOK, LoadInv, NEW m \in 1 .. Len(Here.checks)
  PROVE  /\ Len(Here.checks[m].queries) \in Nat
         /\ DOMAIN Here.checks[m].queries = 1 .. Len(Here.checks[m].queries)
BY AtPlace

\* The first n of a part, after what came before it, and one more.
UpTo(before, part, n) == before \o FirstOf(part, n)
OneOn(before, part, n) == Append(UpTo(before, part, n), part[n + 1])

\* One more of a part, after what came before it.
LEMMA GrowsAlong ==
  ASSUME NEW S, NEW before \in Seq(S), NEW part \in Seq(S), NEW n \in Nat, n < Len(part)
  PROVE  /\ OneOn(before, part, n) = UpTo(before, part, n + 1)
         /\ UpTo(before, part, n) \in Seq(S) /\ UpTo(before, part, n + 1) \in Seq(S)
         /\ part[n + 1] \in S
<1>1. Len(part) \in Nat
  BY LenProperties
<1>2. n \in 0 .. Len(part) /\ n + 1 \in 0 .. Len(part) /\ n + 1 \in 1 .. Len(part)
  BY <1>1
<1>3. FirstOf(part, n) \in Seq(S) /\ FirstOf(part, n + 1) \in Seq(S)
  BY <1>2, FirstOfPart
<1>4. part[n + 1] \in S
  BY <1>2, ElementOfSeq
<1>5. FirstOf(part, n + 1) = Append(FirstOf(part, n), part[n + 1])
  BY FirstOfOneMore
<1>6. UpTo(before, part, n) \in Seq(S) /\ UpTo(before, part, n + 1) \in Seq(S)
  BY <1>3, ConcatProperties DEF UpTo
<1> DEFINE u == FirstOf(part, n)
           x == part[n + 1]
<1> HIDE DEF u, x
<1>7. u \in Seq(S) /\ x \in S /\ FirstOf(part, n + 1) = Append(u, x)
  BY <1>3, <1>4, <1>5 DEF u, x
<1>8. before \o Append(u, x) = Append(before \o u, x)
  BY <1>7, AppendJoined
<1>9. OneOn(before, part, n) = UpTo(before, part, n + 1)
  BY <1>7, <1>8 DEF u, x, OneOn, UpTo
<1>10. QED
  BY <1>4, <1>6, <1>9

\* A fact that is placed is the next one stated.
LEMMA FactPlacedRead ==
  ASSUME LoadTypeOK, LoadInv, ReadInv, TablesGoOn, Sensible(token), PlaceFact
  PROVE  WorldRead'
<1> DEFINE f == [name |-> made[1].name, terms |-> made[1].terms, origin |-> {block}]
           F == FactsOf(token, block)
           A == FirstParts(FactParts, block)
<1>1. /\ pc = "place" /\ phase = "facts" /\ facts' = Append(facts, f) /\ pc' = "next" /\ msg' = msg + 1
      /\ UNCHANGED <<token, block, phase, query, entries, rules, checks>>
  BY DEF PlaceFact
<1>2. ClauseRead /\ WorldRead
  BY <1>1 DEF ReadInv, InClause, WorldRead
<1>3. msg \in 1 .. Len(Here.facts)
  <2>1. AtStatement
    BY <1>1 DEF LoadInv, OnStatement, InClause
  <2>2. QED
    BY <1>1, <2>1, PlaceNumbers DEF AtStatement
<1>4. /\ F \in Seq(StatedFacts(token)) /\ Len(F) = Len(Here.facts)
      /\ A \in Seq(StatedFacts(token))
  <2>1. FactParts \in Seq(Seq(StatedFacts(token))) /\ Len(FactParts) = Len(token)
    BY AtPlace, PartsTyped
  <2>2. A \in Seq(StatedFacts(token))
    BY <2>1, AtPlace, AlongTheParts
  <2>3. QED
    BY <2>2, AtPlace, StatedTyped
<1>5. F[msg] = [said |-> SpelledPredicate(entries, f), origin |-> f.origin]
  <2>1. SpelledPredicate(entries, f) = F[msg].said
    BY <1>1, <1>2, FactSays
  <2>2. F[msg] = [said |-> SpelledPredicate(SignersTables(token, block).symbols, Here.facts[msg]),
                  origin |-> {block}]
    BY <1>3, AtPlace DEF FactsOf
  <2>3. f.origin = {block}
    OBVIOUS
  <2> HIDE DEF f, F
  <2>4. QED
    BY <2>1, <2>2, <2>3
<1>6. WorldFacts' = Append(WorldFacts, [said |-> SpelledPredicate(entries, f), origin |-> f.origin])
  <2> HIDE DEF f
  <2>1. QED
    BY <1>1, FactAppended
<1>7. WorldFacts = A \o FirstOf(F, msg - 1)
  BY <1>1, <1>2 DEF WorldRead, FactsRead
<1> HIDE DEF f, F, A
<1>8. OneOn(A, F, msg - 1) = UpTo(A, F, msg)
  <2> DEFINE n == msg - 1
  <2>1. n \in Nat /\ n < Len(F) /\ n + 1 = msg
    BY <1>3, <1>4
  <2> HIDE DEF n
  <2>2. OneOn(A, F, n) = UpTo(A, F, n + 1)
    BY <1>4, <2>1, GrowsAlong
  <2>3. QED
    BY <2>1, <2>2 DEF n
<1>9. WorldFacts' = A \o FirstOf(F, msg)
  <2>1. WorldFacts' = Append(WorldFacts, F[msg])
    BY <1>5, <1>6
  <2>2. (msg - 1) + 1 = msg
    BY AtPlace
  <2>3. WorldFacts' = OneOn(A, F, msg - 1)
    BY <1>7, <2>1, <2>2 DEF OneOn, UpTo
  <2>4. QED
    BY <1>8, <2>3 DEF UpTo
<1>10. /\ FactParts' = FactParts /\ ClauseParts' = ClauseParts /\ CheckParts' = CheckParts
  BY <1>1, PartsSame
<1>11. FactsRead'
  <2>1. msg' - 1 = msg
    BY <1>1, AtPlace
  <2>2. QED
    BY <1>1, <1>9, <1>10, <2>1 DEF FactsRead, F, A
<1>12. WorldRules' = WorldRules /\ WorldChecks' = WorldChecks
  <2>1. \A n : WorldClause(rules[n])' = WorldClause(rules[n])
    BY <1>1 DEF WorldClause
  <2>2. WorldRules' = WorldRules
    BY <1>1, <2>1 DEF WorldRules
  <2>3. WorldChecks' = WorldChecks
    BY <1>1, <2>1 DEF WorldChecks
  <2>4. QED
    BY <2>2, <2>3
<1>13. RulesRead' /\ ChecksRead'
  BY <1>1, <1>2, <1>10, <1>12 DEF WorldRead, RulesRead, ChecksRead, LogicRead
<1>14. QED
  BY <1>11, <1>13 DEF WorldRead

\* So is a rule.
LEMMA RulePlacedRead ==
  ASSUME LoadTypeOK, LoadInv, ReadInv, TablesGoOn, Sensible(token), PlaceRule
  PROVE  WorldRead'
<1> DEFINE x == Loaded(FALSE)
           R == RulesOf(token, block)
           A == FirstParts(ClauseParts, block)
<1>1. /\ pc = "place" /\ phase = "rules" /\ rules' = Append(rules, x) /\ pc' = "next" /\ msg' = msg + 1
      /\ UNCHANGED <<token, block, phase, query, entries, facts, checks>>
  BY DEF PlaceRule
<1>2. ClauseRead /\ WorldRead /\ TrustRead /\ RunsFilled
  BY <1>1 DEF ReadInv, InClause, WorldRead
<1>3. msg \in 1 .. Len(Here.rules)
  <2>1. AtStatement
    BY <1>1 DEF LoadInv, OnStatement, InClause
  <2>2. QED
    BY <1>1, <2>1, PlaceNumbers DEF AtStatement
<1>4. /\ R \in Seq(StatedClauses(token)) /\ Len(R) = Len(Here.rules)
      /\ A \in Seq(StatedClauses(token))
  <2>1. ClauseParts \in Seq(Seq(StatedClauses(token))) /\ Len(ClauseParts) = Len(token)
    BY AtPlace, PartsTyped
  <2>2. A \in Seq(StatedClauses(token))
    BY <2>1, AtPlace, AlongTheParts
  <2>3. QED
    BY <2>2, AtPlace, StatedTyped
<1>5. R[msg] = WorldClause(x)
  <2>1. WorldClause(x) = StatedClause(token, block, CurrentClause, FALSE)
    BY <1>1, <1>2, LoadedSays
  <2>2. R[msg] = StatedClause(token, block, Here.rules[msg], FALSE)
    BY <1>3, AtPlace DEF RulesOf
  <2>3. QED
    BY <1>1, <2>1, <2>2 DEF CurrentClause
<1> HIDE DEF x
<1>6. /\ WorldRules' = Append(WorldRules, WorldClause(x)) /\ WorldChecks' = WorldChecks
  BY <1>1, <1>2, RuleAppended
<1>7. WorldRules = A \o FirstOf(R, msg - 1)
  BY <1>1, <1>2 DEF WorldRead, RulesRead, LogicRead
<1> HIDE DEF R, A
<1>8. OneOn(A, R, msg - 1) = UpTo(A, R, msg)
  <2> DEFINE n == msg - 1
  <2>1. n \in Nat /\ n < Len(R) /\ n + 1 = msg
    BY <1>3, <1>4
  <2> HIDE DEF n
  <2>2. OneOn(A, R, n) = UpTo(A, R, n + 1)
    BY <1>4, <2>1, GrowsAlong
  <2>3. QED
    BY <2>1, <2>2 DEF n
<1>9. WorldRules' = A \o FirstOf(R, msg)
  <2>1. WorldRules' = Append(WorldRules, R[msg])
    BY <1>5, <1>6
  <2>2. (msg - 1) + 1 = msg
    BY AtPlace
  <2>3. WorldRules' = OneOn(A, R, msg - 1)
    BY <1>7, <2>1, <2>2 DEF OneOn, UpTo
  <2>4. QED
    BY <1>8, <2>3 DEF UpTo
<1>10. /\ FactParts' = FactParts /\ ClauseParts' = ClauseParts /\ CheckParts' = CheckParts
  BY <1>1, PartsSame
<1>11. RulesRead'
  <2>1. msg' - 1 = msg
    BY <1>1, AtPlace
  <2>2. QED
    BY <1>1, <1>9, <1>10, <2>1 DEF RulesRead, LogicRead, R, A
<1>12. WorldFacts' = WorldFacts
  BY <1>1 DEF WorldFacts
<1>13. FactsRead' /\ ChecksRead'
  BY <1>1, <1>2, <1>6, <1>10, <1>12 DEF WorldRead, FactsRead, ChecksRead
<1>14. QED
  BY <1>11, <1>13 DEF WorldRead
\* The queries of a block, as sequences.
LEMMA QueriesAre ==
  ASSUME LoadTypeOK, LoadInv
  PROVE  /\ QueryParts \in Seq(Seq(StatedClauses(token))) /\ Len(QueryParts) = Len(Here.checks)
         /\ FlattenSeq(QueryParts) \in Seq(StatedClauses(token))
         /\ RulesOf(token, block) \in Seq(StatedClauses(token))
         /\ Len(RulesOf(token, block)) = Len(Here.rules)
         /\ ClausesOf(token, block) = RulesOf(token, block) \o FlattenSeq(QueryParts)
         /\ ClausesOf(token, block) \in Seq(StatedClauses(token))
         /\ FirstParts(ClauseParts, block) \in Seq(StatedClauses(token))
         /\ \A m \in 1 .. Len(Here.checks) :
              /\ QueryParts[m] = QueriesOf(token, block, Here.checks[m])
              /\ QueryParts[m] \in Seq(StatedClauses(token))
              /\ Len(QueryParts[m]) = Len(Here.checks[m].queries)
         /\ \A n \in 0 .. Len(Here.checks) : FirstParts(QueryParts, n) \in Seq(StatedClauses(token))
         /\ \A n \in 1 .. Len(Here.checks) :
              FirstParts(QueryParts, n) = FirstParts(QueryParts, n - 1) \o QueryParts[n]
<1>1. /\ token \in Seq(Message) /\ block \in 0 .. Len(token) - 1 /\ Here = token[block + 1]
      /\ block \in Nat /\ block < Len(token) /\ Len(Here.checks) \in Nat
  BY AtPlace
<1>2. QueryParts = Asked(token, block) /\ ClauseParts \in Seq(Seq(StatedClauses(token)))
      /\ Len(ClauseParts) = Len(token)
  BY <1>1, PartsTyped
<1>3. /\ Asked(token, block) \in Seq(Seq(StatedClauses(token)))
      /\ Len(Asked(token, block)) = Len(Here.checks)
      /\ \A m \in 1 .. Len(Here.checks) :
           /\ Asked(token, block)[m] = QueriesOf(token, block, Here.checks[m])
           /\ Len(Asked(token, block)[m]) = Len(Here.checks[m].queries)
      /\ FlattenSeq(Asked(token, block)) \in Seq(StatedClauses(token))
      /\ RulesOf(token, block) \in Seq(StatedClauses(token))
      /\ Len(RulesOf(token, block)) = Len(Here.rules)
      /\ ClausesOf(token, block) = RulesOf(token, block) \o FlattenSeq(Asked(token, block))
      /\ ClausesOf(token, block) \in Seq(StatedClauses(token))
  BY <1>1, StatedTyped
<1>4. FirstParts(ClauseParts, block) \in Seq(StatedClauses(token))
  BY <1>1, <1>2, AlongTheParts
<1>5. QueryParts \in Seq(Seq(StatedClauses(token))) /\ Len(QueryParts) = Len(Here.checks)
  BY <1>2, <1>3
<1>6. \A m \in 1 .. Len(Here.checks) : QueryParts[m] \in Seq(StatedClauses(token))
  BY <1>5, ElementOfSeq
<1>7. \A n \in 0 .. Len(Here.checks) : FirstParts(QueryParts, n) \in Seq(StatedClauses(token))
  BY <1>5, BeforeTyped
<1>8. ASSUME NEW n \in 1 .. Len(Here.checks)
      PROVE  FirstParts(QueryParts, n) = FirstParts(QueryParts, n - 1) \o QueryParts[n]
  <2> DEFINE m == n - 1
  <2>1. m \in Nat /\ m < Len(QueryParts) /\ m + 1 = n
    BY <1>1, <1>5
  <2> HIDE DEF m
  <2>2. FirstParts(QueryParts, m + 1) = FirstParts(QueryParts, m) \o QueryParts[m + 1]
    BY <1>5, <2>1, AlongTheParts
  <2>3. QED
    BY <2>1, <2>2 DEF m
<1>9. QED
  BY <1>2, <1>3, <1>4, <1>5, <1>6, <1>7, <1>8

\* So is a query of a check.
LEMMA QueryPlacedRead ==
  ASSUME LoadTypeOK, LoadInv, ReadInv, TablesGoOn, Sensible(token), PlaceQuery
  PROVE  WorldRead'
<1> DEFINE r == Loaded(TRUE)
           S == StatedClauses(token)
           R == RulesOf(token, block)
           A == FirstParts(ClauseParts, block)
           B == FirstParts(QueryParts, msg - 1)
           Q == QueryParts[msg]
<1>1. /\ pc = "place" /\ phase = "checks" /\ rules' = Append(rules, r) /\ pc' = "query"
      /\ query' = query + 1
      /\ UNCHANGED <<token, block, phase, msg, entries, facts, checks>>
  BY DEF PlaceQuery
<1>2. ClauseRead /\ WorldRead /\ TrustRead /\ RunsFilled /\ InCheck
  BY <1>1 DEF ReadInv, InClause, WorldRead, InCheck
<1>3. msg \in 1 .. Len(Here.checks) /\ query \in 1 .. Len(Here.checks[msg].queries)
  <2>1. AtStatement
    BY <1>1 DEF LoadInv, OnStatement, InClause
  <2>2. msg \in 1 .. Len(Here.checks) /\ query \in DOMAIN Here.checks[msg].queries
    BY <1>1, <2>1, PlaceNumbers DEF AtStatement
  <2>3. QED
    BY <2>2, QueryPlaces
<1>4. /\ R \in Seq(S) /\ A \in Seq(S) /\ B \in Seq(S) /\ Q \in Seq(S)
      /\ Len(Q) = Len(Here.checks[msg].queries)
  <2>1. Len(Here.checks) \in Nat /\ msg - 1 \in 0 .. Len(Here.checks)
    BY <1>3, AtPlace
  <2>2. QED
    BY <1>3, <2>1, QueriesAre
<1>5. Q[query] = WorldClause(r)
  <2>1. WorldClause(r) = StatedClause(token, block, CurrentClause, TRUE)
    BY <1>1, <1>2, LoadedSays
  <2>2. Q = QueriesOf(token, block, Here.checks[msg])
    BY <1>3, QueriesAre
  <2>3. query \in DOMAIN Here.checks[msg].queries
    BY <1>3, AtPlace
  <2>4. Q[query] = StatedClause(token, block, Here.checks[msg].queries[query], TRUE)
    BY <2>2, <2>3 DEF QueriesOf
  <2>5. QED
    BY <1>1, <2>1, <2>4 DEF CurrentClause
<1> HIDE DEF r
<1>6. /\ WorldRules' = Append(WorldRules, WorldClause(r)) /\ WorldChecks' = WorldChecks
  BY <1>1, <1>2, RuleAppended
<1>7. WorldRules = A \o (R \o UpTo(B, Q, query - 1))
  BY <1>1, <1>2 DEF WorldRead, RulesRead, LogicRead, QueriesRead, UpTo
<1> HIDE DEF R, A, B, Q, S
<1>8. WorldRules' = A \o (R \o UpTo(B, Q, query))
  <2> DEFINE n == query - 1
             v == UpTo(B, Q, n)
             w == R \o v
             x == Q[query]
  <2>1. n \in Nat /\ n < Len(Q) /\ n + 1 = query
    <3>1. Len(Q) \in Nat
      BY <1>4, LenProperties
    <3>2. QED
      BY <1>3, <1>4, <3>1
  <2>2. WorldRules = A \o (R \o v)
    BY <1>7
  <2> HIDE DEF n
  <2>3. OneOn(B, Q, n) = UpTo(B, Q, n + 1) /\ v \in Seq(S) /\ Q[n + 1] \in S
    BY <1>4, <2>1, GrowsAlong
  <2>4. UpTo(B, Q, query) = Append(v, x) /\ x \in S
    BY <2>1, <2>3 DEF OneOn
  <2> HIDE DEF v, x
  <2>5. R \o Append(v, x) = Append(R \o v, x)
    BY <1>4, <2>3, <2>4, AppendJoined
  <2>6. w \in Seq(S)
    BY <1>4, <2>3, ConcatProperties
  <2>7. R \o Append(v, x) = Append(w, x) /\ WorldRules = A \o w
    BY <2>2, <2>5
  <2> HIDE DEF w
  <2>8. A \o Append(w, x) = Append(A \o w, x)
    BY <1>4, <2>4, <2>6, AppendJoined
  <2>9. WorldRules' = Append(A \o w, x)
    BY <1>5, <1>6, <2>7 DEF x
  <2>10. QED
    BY <2>4, <2>7, <2>8, <2>9
<1>9. /\ FactParts' = FactParts /\ ClauseParts' = ClauseParts /\ CheckParts' = CheckParts
      /\ QueryParts' = QueryParts
  BY <1>1, PartsSame
<1>10. RulesRead'
  <2>1. query' - 1 = query
    BY <1>1, AtPlace
  <2>2. InCheck'
    BY <1>1 DEF InCheck
  <2>3. QED
    BY <1>1, <1>8, <1>9, <2>1, <2>2 DEF RulesRead, LogicRead, QueriesRead, UpTo, R, A, B, Q
<1>11. WorldFacts' = WorldFacts
  BY <1>1 DEF WorldFacts
<1>12. FactsRead' /\ ChecksRead'
  BY <1>1, <1>2, <1>6, <1>9, <1>11 DEF WorldRead, FactsRead, ChecksRead
<1>13. QED
  BY <1>10, <1>12 DEF WorldRead
\* The queries of the check that is placed are those its run of the pool holds.
LEMMA RunIsRead ==
  ASSUME LoadTypeOK, LoadInv, ReadInv, Sensible(token), pc = "query",
         query > Len(Here.checks[msg].queries)
  PROVE  /\ phase = "checks" /\ msg \in 1 .. Len(Here.checks)
         /\ query - 1 = Len(Here.checks[msg].queries)
         /\ WorldRules = FirstParts(ClauseParts, block)
                         \o (RulesOf(token, block) \o FirstParts(QueryParts, msg))
         /\ [i \in 1 .. query - 1 |-> WorldClause(rules[at + i])]
            = QueriesOf(token, block, Here.checks[msg])
<1> DEFINE S == StatedClauses(token)
           R == RulesOf(token, block)
           A == FirstParts(ClauseParts, block)
           B == FirstParts(QueryParts, msg - 1)
           Q == QueryParts[msg]
<1>1. phase = "checks" /\ msg \in 1 .. Len(Here.checks) /\ InCheck
      /\ Len(rules) = at + query - 1 /\ at \in Nat
  BY AtPlace DEF LoadInv, OnStatement, RoomAhead, InCheck, LoadTypeOK
<1>2. query - 1 = Len(Here.checks[msg].queries)
  <2> DEFINE n == Len(Here.checks[msg].queries)
  <2>1. query - 1 <= n /\ query > n
    BY <1>1 DEF ReadInv, WithinLoops
  <2>2. n \in Nat /\ query \in Nat
    <3>1. n \in Nat
      BY <1>1, QueryPlaces
    <3>2. QED
      BY <3>1, PlaceNumbers
  <2> HIDE DEF n
  <2>3. query - 1 = n
    BY <2>1, <2>2
  <2>4. QED
    BY <2>3 DEF n
<1>3. /\ R \in Seq(S) /\ A \in Seq(S) /\ B \in Seq(S) /\ Q \in Seq(S)
      /\ Len(Q) = query - 1 /\ Q = QueriesOf(token, block, Here.checks[msg])
      /\ FirstParts(QueryParts, msg) = B \o Q
  <2>1. Len(Here.checks) \in Nat /\ msg - 1 \in 0 .. Len(Here.checks)
    BY <1>1, AtPlace
  <2>2. R \in Seq(S) /\ A \in Seq(S) /\ B \in Seq(S)
    BY <2>1, QueriesAre
  <2>3. /\ Q = QueriesOf(token, block, Here.checks[msg]) /\ Q \in Seq(S)
        /\ Len(Q) = Len(Here.checks[msg].queries)
    BY <1>1, QueriesAre
  <2>4. FirstParts(QueryParts, msg) = B \o Q
    BY <1>1, QueriesAre
  <2>5. QED
    BY <1>2, <2>2, <2>3, <2>4
<1>4. WorldRules = A \o (R \o (B \o FirstOf(Q, query - 1)))
  BY <1>1 DEF ReadInv, RulesRead, LogicRead, QueriesRead
<1>5. Q = [i \in 1 .. query - 1 |-> Q[i]]
  <2>1. Q = [n \in DOMAIN Here.checks[msg].queries |->
               StatedClause(token, block, Here.checks[msg].queries[n], TRUE)]
    BY <1>3 DEF QueriesOf
  <2>2. DOMAIN Here.checks[msg].queries = 1 .. query - 1
    BY <1>1, <1>2, AtPlace
  <2> HIDE DEF Q
  <2>3. QED
    BY <2>1, <2>2
<1> HIDE DEF R, A, B, Q, S
<1>6. FirstOf(Q, query - 1) = Q
  <2>1. FirstOf(Q, Len(Q)) = Q
    <3>1. Len(Q) \in 0 .. Len(Q)
      BY <1>3, LenProperties
    <3>2. QED
      BY <1>3, <3>1, FirstOfPart
  <2>2. QED
    BY <1>3, <2>1
<1> DEFINE C == A \o (R \o B)
<1>7. C \in Seq(S) /\ WorldRules = C \o Q
  <2>1. WorldRules = A \o (R \o (B \o Q))
    BY <1>4, <1>6
  <2>2. R \o (B \o Q) = (R \o B) \o Q
    <3>1. R \in Seq(S) /\ B \in Seq(S) /\ Q \in Seq(S)
      BY <1>3
    <3>2. (R \o B) \o Q = R \o (B \o Q)
      BY <3>1, ConcatAssociative
    <3>3. QED
      BY <3>2
  <2> DEFINE D == R \o B
  <2>3. D \in Seq(S) /\ R \o (B \o Q) = D \o Q
    BY <1>3, <2>2, ConcatProperties
  <2> HIDE DEF D
  <2>4. A \o (D \o Q) = (A \o D) \o Q /\ A \o D \in Seq(S)
    <3>1. A \in Seq(S) /\ D \in Seq(S) /\ Q \in Seq(S)
      BY <1>3, <2>3
    <3>2. (A \o D) \o Q = A \o (D \o Q)
      BY <3>1, ConcatAssociative, SMTT(20)
    <3>3. A \o D \in Seq(S)
      BY <3>1, ConcatProperties
    <3>4. QED
      BY <3>2, <3>3
  <2>5. C = A \o D
    BY DEF D
  <2>6. QED
    BY <2>1, <2>3, <2>4, <2>5
<1> HIDE DEF C
<1>8. /\ Len(WorldRules) = Len(C) + Len(Q) /\ Len(C) \in Nat /\ Len(Q) \in Nat
      /\ \A i \in 1 .. Len(C) + Len(Q) :
           WorldRules[i] = IF i <= Len(C) THEN C[i] ELSE Q[i - Len(C)]
  <2>1. Len(C) \in Nat /\ Len(Q) \in Nat
    BY <1>3, <1>7, LenProperties
  <2>2. QED
    BY <1>3, <1>7, <2>1, ConcatProperties
<1>9. Len(C) = at
  <2>1. Len(WorldRules) = Len(rules)
    BY WorldTyped
  <2>2. query \in Nat
    BY AtPlace
  <2>3. QED
    BY <1>1, <1>3, <1>8, <2>1, <2>2
<1>10. ASSUME NEW i \in 1 .. query - 1 PROVE WorldClause(rules[at + i]) = Q[i]
  <2>1. at + i \in 1 .. Len(C) + Len(Q) /\ ~(at + i <= Len(C)) /\ (at + i) - Len(C) = i
    BY <1>1, <1>3, <1>8, <1>9
  <2>2. WorldRules[at + i] = Q[i]
    BY <1>8, <2>1
  <2>3. at + i \in DOMAIN rules
    <3>1. Len(rules) \in Nat /\ DOMAIN rules = 1 .. Len(rules)
      BY WorldTyped
    <3>2. query \in Nat
      BY AtPlace
    <3>3. QED
      BY <1>1, <3>1, <3>2
  <2>4. QED
    BY <2>2, <2>3 DEF WorldRules
<1>11. [i \in 1 .. query - 1 |-> WorldClause(rules[at + i])] = Q
  BY <1>5, <1>10
<1>12. WorldRules = A \o (R \o FirstParts(QueryParts, msg))
  BY <1>3, <1>4, <1>6
<1>13. QED
  BY <1>1, <1>2, <1>3, <1>11, <1>12 DEF A, R

\* So is a check, and its run of the pool holds its queries.
LEMMA CheckPlacedRead ==
  ASSUME LoadTypeOK, LoadInv, ReadInv, Sensible(token), PlaceCheck
  PROVE  WorldRead'
<1> DEFINE c == [query_at |-> at, query_count |-> query - 1,
                 kind |-> Here.checks[msg].kind, block |-> block]
           K == ChecksOf(token, block)
           A == FirstParts(CheckParts, block)
           e == [kind |-> c.kind, block |-> c.block,
                 queries |-> [i \in 1 .. c.query_count |-> WorldClause(rules[c.query_at + i])]]
<1>1. /\ pc = "query" /\ query > Len(Here.checks[msg].queries) /\ checks' = Append(checks, c)
      /\ pc' = "next" /\ msg' = msg + 1
      /\ UNCHANGED <<token, block, phase, query, entries, facts, rules>>
  BY DEF PlaceCheck
<1>2. WorldRead
  BY <1>1 DEF ReadInv, WorldRead
<1>3. /\ phase = "checks" /\ msg \in 1 .. Len(Here.checks)
      /\ WorldRules = FirstParts(ClauseParts, block)
                      \o (RulesOf(token, block) \o FirstParts(QueryParts, msg))
      /\ [i \in 1 .. query - 1 |-> WorldClause(rules[at + i])]
         = QueriesOf(token, block, Here.checks[msg])
  BY <1>1, RunIsRead
<1>4. /\ K \in Seq(StatedChecks(token)) /\ Len(K) = Len(Here.checks)
      /\ A \in Seq(StatedChecks(token))
  <2>1. CheckParts \in Seq(Seq(StatedChecks(token))) /\ Len(CheckParts) = Len(token)
    BY AtPlace, PartsTyped
  <2>2. A \in Seq(StatedChecks(token))
    BY <2>1, AtPlace, AlongTheParts
  <2>3. QED
    BY <2>2, AtPlace, StatedTyped
<1>5. K[msg] = e
  <2>1. K[msg] = [kind |-> Here.checks[msg].kind, block |-> block,
                  queries |-> QueriesOf(token, block, Here.checks[msg])]
    BY <1>3, AtPlace DEF ChecksOf
  <2>2. QED
    BY <1>3, <2>1
<1>6. WorldChecks' = Append(WorldChecks, e)
  <2> HIDE DEF c
  <2>1. QED
    BY <1>1, CheckAppended
<1>7. WorldChecks = UpTo(A, K, msg - 1)
  BY <1>2, <1>3 DEF WorldRead, ChecksRead, UpTo
<1> HIDE DEF c, K, A, e
<1>8. OneOn(A, K, msg - 1) = UpTo(A, K, msg)
  <2> DEFINE n == msg - 1
  <2>1. n \in Nat /\ n < Len(K) /\ n + 1 = msg
    BY <1>3, <1>4, PlaceNumbers
  <2> HIDE DEF n
  <2>2. OneOn(A, K, n) = UpTo(A, K, n + 1)
    BY <1>4, <2>1, GrowsAlong
  <2>3. QED
    BY <2>1, <2>2 DEF n
<1>9. WorldChecks' = UpTo(A, K, msg)
  <2>1. WorldChecks' = Append(WorldChecks, K[msg])
    BY <1>5, <1>6
  <2>2. (msg - 1) + 1 = msg
    BY AtPlace
  <2>3. WorldChecks' = OneOn(A, K, msg - 1)
    BY <1>7, <2>1, <2>2 DEF OneOn
  <2>4. QED
    BY <1>8, <2>3
<1>10. /\ FactParts' = FactParts /\ ClauseParts' = ClauseParts /\ CheckParts' = CheckParts
       /\ QueryParts' = QueryParts
  BY <1>1, PartsSame
<1>11. msg' - 1 = msg /\ ~InCheck'
  BY <1>1, AtPlace DEF InCheck, InClause
<1>12. ChecksRead'
  BY <1>1, <1>3, <1>9, <1>10, <1>11 DEF ChecksRead, UpTo, K, A
<1>13. WorldFacts' = WorldFacts /\ WorldRules' = WorldRules
  <2>1. \A n : WorldClause(rules[n])' = WorldClause(rules[n])
    BY <1>1 DEF WorldClause
  <2>2. WorldRules' = WorldRules
    BY <1>1, <2>1 DEF WorldRules
  <2>3. WorldFacts' = WorldFacts
    BY <1>1 DEF WorldFacts
  <2>4. QED
    BY <2>2, <2>3
<1>14. FactsRead'
  BY <1>1, <1>2, <1>3, <1>10, <1>13 DEF WorldRead, FactsRead
<1>15. RulesRead'
  <2>1. FirstParts(QueryParts, msg) \in Seq(StatedClauses(token))
    <3>1. msg \in 0 .. Len(Here.checks)
      BY <1>3, AtPlace
    <3>2. QED
      BY <3>1, QueriesAre
  <2>2. FirstParts(QueryParts, msg) \o <<>> = FirstParts(QueryParts, msg)
    BY <2>1, ConcatEmptySeq
  <2>3. QueriesRead' = <<>>
    BY <1>11 DEF QueriesRead
  <2>4. LogicRead' = RulesOf(token, block) \o FirstParts(QueryParts, msg)
    BY <1>1, <1>3, <1>10, <1>11, <2>2, <2>3 DEF LogicRead
  <2>5. QED
    BY <1>1, <1>3, <1>10, <1>13, <2>4 DEF RulesRead
<1>16. QED
  BY <1>12, <1>14, <1>15 DEF WorldRead
-----------------------------------------------------------------------------
(* What is read when a loop ends, and when a check is opened.              *)

\* The parts of the token as sequences of statements.
LEMMA PartsAre ==
  ASSUME LoadTypeOK, LoadInv
  PROVE  /\ FactParts \in Seq(Seq(StatedFacts(token))) /\ Len(FactParts) = Len(token)
         /\ ClauseParts \in Seq(Seq(StatedClauses(token))) /\ Len(ClauseParts) = Len(token)
         /\ CheckParts \in Seq(Seq(StatedChecks(token))) /\ Len(CheckParts) = Len(token)
         /\ FirstParts(FactParts, block + 1) = FirstParts(FactParts, block) \o FactsOf(token, block)
         /\ FirstParts(ClauseParts, block + 1)
            = FirstParts(ClauseParts, block) \o ClausesOf(token, block)
         /\ FirstParts(CheckParts, block + 1)
            = FirstParts(CheckParts, block) \o ChecksOf(token, block)
         /\ \A n \in 0 .. Len(token) :
              /\ FirstParts(FactParts, n) \o <<>> = FirstParts(FactParts, n)
              /\ FirstParts(ClauseParts, n) \o <<>> = FirstParts(ClauseParts, n)
              /\ FirstParts(CheckParts, n) \o <<>> = FirstParts(CheckParts, n)
         /\ FirstParts(FactParts, Len(token)) = FlattenSeq(FactParts)
         /\ FirstParts(ClauseParts, Len(token)) = FlattenSeq(ClauseParts)
         /\ FirstParts(CheckParts, Len(token)) = FlattenSeq(CheckParts)
<1>1. /\ token \in Seq(Message) /\ block \in 0 .. Len(token) - 1
      /\ block \in Nat /\ block < Len(token) /\ Len(token) \in Nat
  BY AtPlace
<1>2. /\ FactParts \in Seq(Seq(StatedFacts(token))) /\ Len(FactParts) = Len(token)
      /\ ClauseParts \in Seq(Seq(StatedClauses(token))) /\ Len(ClauseParts) = Len(token)
      /\ CheckParts \in Seq(Seq(StatedChecks(token))) /\ Len(CheckParts) = Len(token)
      /\ FactParts[block + 1] = FactsOf(token, block)
      /\ ClauseParts[block + 1] = ClausesOf(token, block)
      /\ CheckParts[block + 1] = ChecksOf(token, block)
  <2>1. token \in Seq(Message) /\ block \in 0 .. Len(token) - 1
    BY <1>1
  <2>2. FactParts \in Seq(Seq(StatedFacts(token))) /\ FactParts[block + 1] = FactsOf(token, block)
        /\ Len(FactParts) = Len(token)
    BY <2>1, PartsTyped
  <2>3. ClauseParts \in Seq(Seq(StatedClauses(token))) /\ Len(ClauseParts) = Len(token)
        /\ ClauseParts[block + 1] = ClausesOf(token, block)
    BY <2>1, PartsTyped
  <2>4. CheckParts \in Seq(Seq(StatedChecks(token))) /\ Len(CheckParts) = Len(token)
        /\ CheckParts[block + 1] = ChecksOf(token, block)
    BY <2>1, PartsTyped
  <2>5. QED
    BY <2>2, <2>3, <2>4, Zenon
<1>3. FirstParts(FactParts, block + 1) = FirstParts(FactParts, block) \o FactsOf(token, block)
  <2>1. FactParts \in Seq(Seq(StatedFacts(token))) /\ block \in Nat /\ block < Len(FactParts)
    BY <1>1, <1>2, Zenon
  <2>2. FirstParts(FactParts, block + 1) = FirstParts(FactParts, block) \o FactParts[block + 1]
    BY <2>1, AlongTheParts
  <2>3. QED
    BY <2>2, <1>2, Zenon
<1>4. FirstParts(ClauseParts, block + 1) = FirstParts(ClauseParts, block) \o ClausesOf(token, block)
  <2>1. ClauseParts \in Seq(Seq(StatedClauses(token))) /\ block \in Nat /\ block < Len(ClauseParts)
    BY <1>1, <1>2, Zenon
  <2>2. FirstParts(ClauseParts, block + 1) = FirstParts(ClauseParts, block) \o ClauseParts[block + 1]
    BY <2>1, AlongTheParts
  <2>3. QED
    BY <2>2, <1>2, Zenon
<1>5. FirstParts(CheckParts, block + 1) = FirstParts(CheckParts, block) \o ChecksOf(token, block)
  <2>1. CheckParts \in Seq(Seq(StatedChecks(token))) /\ block \in Nat /\ block < Len(CheckParts)
    BY <1>1, <1>2, Zenon
  <2>2. FirstParts(CheckParts, block + 1) = FirstParts(CheckParts, block) \o CheckParts[block + 1]
    BY <2>1, AlongTheParts
  <2>3. QED
    BY <2>2, <1>2, Zenon
<1>6. ASSUME NEW n \in 0 .. Len(token)
      PROVE  /\ FirstParts(FactParts, n) \o <<>> = FirstParts(FactParts, n)
             /\ FirstParts(ClauseParts, n) \o <<>> = FirstParts(ClauseParts, n)
             /\ FirstParts(CheckParts, n) \o <<>> = FirstParts(CheckParts, n)
  <2>1. /\ FirstParts(FactParts, n) \in Seq(StatedFacts(token))
        /\ FirstParts(ClauseParts, n) \in Seq(StatedClauses(token))
        /\ FirstParts(CheckParts, n) \in Seq(StatedChecks(token))
    BY <1>2, BeforeTyped
  <2>2. QED
    BY <2>1, ConcatEmptySeq
<1>7. /\ FirstParts(FactParts, Len(token)) = FlattenSeq(FactParts)
      /\ FirstParts(ClauseParts, Len(token)) = FlattenSeq(ClauseParts)
      /\ FirstParts(CheckParts, Len(token)) = FlattenSeq(CheckParts)
  BY <1>2, AllBefore
<1>8. QED
  BY <1>2, <1>3, <1>4, <1>5, <1>6, <1>7

\* The world stays while the loops move on.
LEMMA PartsStay ==
  ASSUME UNCHANGED <<token, entries, facts, rules, checks>>
  PROVE  /\ WorldFacts' = WorldFacts /\ WorldRules' = WorldRules /\ WorldChecks' = WorldChecks
         /\ FactParts' = FactParts /\ ClauseParts' = ClauseParts /\ CheckParts' = CheckParts
<1>1. FactParts' = FactParts
  BY DEF FactParts
<1>2. ClauseParts' = ClauseParts
  BY DEF ClauseParts
<1>3. CheckParts' = CheckParts
  BY DEF CheckParts
<1>4. QED
  BY <1>1, <1>2, <1>3, WorldSame

\* At the end of its facts a block has none left.
LEMMA FactsDoneRead ==
  ASSUME LoadTypeOK, LoadInv, ReadInv, Sensible(token), FactsDone
  PROVE  WorldRead'
<1> DEFINE F == FactsOf(token, block)
<1>1. /\ pc = "next" /\ pc' = "next" /\ phase = "facts" /\ msg > Len(Here.facts) /\ msg' = 1
      /\ UNCHANGED <<token, entries, facts, rules, checks>>
      /\ \/ block + 1 < Len(token) /\ block' = block + 1 /\ phase' = "facts"
         \/ ~(block + 1 < Len(token)) /\ block' = 0 /\ phase' = "scope"
  BY DEF FactsDone, poolVars
<1>2. WorldRead /\ msg - 1 <= Len(Here.facts)
  BY <1>1 DEF ReadInv, WorldRead, WithinLoops
<1>3. F \in Seq(StatedFacts(token)) /\ Len(F) = Len(Here.facts) /\ msg - 1 = Len(F)
  <2>1. F \in Seq(StatedFacts(token)) /\ Len(F) = Len(Here.facts)
    BY AtPlace, StatedTyped
  <2>2. QED
    BY <1>1, <1>2, <2>1, AtPlace
<1>4. FirstOf(F, msg - 1) = F
  <2>1. Len(F) \in 0 .. Len(F)
    BY <1>3, LenProperties
  <2>2. FirstOf(F, Len(F)) = F
    BY <1>3, <2>1, FirstOfPart
  <2>3. QED
    BY <1>3, <2>2
<1>5. WorldFacts = FirstParts(FactParts, block + 1)
  BY <1>1, <1>2, <1>4, PartsAre DEF WorldRead, FactsRead
<1>6. /\ WorldFacts' = WorldFacts /\ WorldRules' = WorldRules /\ WorldChecks' = WorldChecks
      /\ FactParts' = FactParts /\ ClauseParts' = ClauseParts /\ CheckParts' = CheckParts
  BY <1>1, PartsStay
<1>7. FactsRead'
  <2>1. CASE block + 1 < Len(token)
    <3>1. block' = block + 1 /\ phase' = "facts" /\ block + 1 \in 0 .. Len(token) - 1
          /\ block + 1 \in 0 .. Len(token)
      BY <1>1, <2>1, AtPlace
    <3>2. FactsOf(token, block + 1) \in Seq(StatedFacts(token))
      BY <3>1, AtPlace, StatedTyped
    <3>3. FirstOf(FactsOf(token, block + 1), 0) = <<>>
      <4>1. 0 \in 0 .. Len(FactsOf(token, block + 1))
        BY <3>2, LenProperties
      <4>2. QED
        BY <3>2, <4>1, FirstOfPart
    <3>4. msg' - 1 = 0
      BY <1>1
    <3>5. FirstParts(FactParts, block + 1) \o <<>> = FirstParts(FactParts, block + 1)
      BY <3>1, PartsAre
    <3>6. QED
      BY <1>1, <1>5, <1>6, <3>1, <3>3, <3>4, <3>5 DEF FactsRead
  <2>2. CASE ~(block + 1 < Len(token))
    <3>1. block + 1 = Len(token) /\ phase' = "scope"
      BY <1>1, <2>2, AtPlace
    <3>2. WorldFacts = FlattenSeq(FactParts)
      BY <1>5, <3>1, PartsAre
    <3>3. QED
      BY <1>6, <3>1, <3>2 DEF FactsRead
  <2>3. QED
    BY <2>1, <2>2
<1>8. WorldRules = FirstParts(ClauseParts, 0) \o <<>> /\ WorldChecks = FirstParts(CheckParts, 0) \o <<>>
  BY <1>1, <1>2 DEF WorldRead, RulesRead, ChecksRead, LogicRead
<1>9. LogicRead' = <<>> /\ phase' \in {"facts", "scope"}
      /\ (IF phase' = "facts" THEN 0 ELSE block') = 0
  BY <1>1 DEF LogicRead
<1>10. RulesRead' /\ ChecksRead'
  BY <1>6, <1>8, <1>9 DEF RulesRead, ChecksRead
<1>11. QED
  BY <1>7, <1>10 DEF WorldRead

\* The block's own annotations are resolved before its first rule.
LEMMA BlockTrustRead ==
  ASSUME LoadTypeOK, LoadInv, ReadInv, Sensible(token), BlockTrust, pc' # "stopped"
  PROVE  WorldRead' /\ TrustRead'
<1>1. /\ pc = "next" /\ pc' = "next" /\ phase = "scope" /\ phase' = "rules"
      /\ trust' = Trust(token, block, Here.scopes, {0})
      /\ UNCHANGED <<token, block, msg, query, entries, facts, rules, checks>>
  BY DEF BlockTrust, Refuse, poolVars
<1>2. WorldRead /\ msg = 1
  BY <1>1 DEF ReadInv, WorldRead, WithinLoops
<1>3. /\ WorldFacts' = WorldFacts /\ WorldRules' = WorldRules /\ WorldChecks' = WorldChecks
      /\ FactParts' = FactParts /\ ClauseParts' = ClauseParts /\ CheckParts' = CheckParts
  BY <1>1, PartsStay
<1>4. FirstOf(RulesOf(token, block), 0) = <<>>
  <2>1. RulesOf(token, block) \in Seq(StatedClauses(token))
    BY QueriesAre
  <2>2. 0 \in 0 .. Len(RulesOf(token, block))
    BY <2>1, LenProperties
  <2>3. QED
    BY <2>1, <2>2, FirstOfPart
<1>5. LogicRead = <<>> /\ LogicRead' = <<>>
  <2>1. msg' - 1 = 0
    BY <1>1, <1>2
  <2>2. QED
    BY <1>1, <1>4, <2>1 DEF LogicRead
<1>6. RulesRead'
  BY <1>1, <1>2, <1>3, <1>5 DEF WorldRead, RulesRead
<1>7. FactsRead' /\ ChecksRead'
  BY <1>1, <1>2, <1>3 DEF WorldRead, FactsRead, ChecksRead
<1>8. Here' = Here
  BY <1>1 DEF Here
<1>9. QED
  BY <1>1, <1>6, <1>7, <1>8 DEF WorldRead, TrustRead

\* At the end of its rules a block has none left.
LEMMA RulesDoneRead ==
  ASSUME LoadTypeOK, LoadInv, ReadInv, Sensible(token), RulesDone
  PROVE  WorldRead'
<1> DEFINE R == RulesOf(token, block)
           A == FirstParts(ClauseParts, block)
<1>1. /\ pc = "next" /\ pc' = "next" /\ phase = "rules" /\ phase' = "checks"
      /\ msg > Len(Here.rules) /\ msg' = 1
      /\ UNCHANGED <<token, block, query, entries, facts, rules, checks>>
  BY DEF RulesDone, poolVars
<1>2. WorldRead /\ msg - 1 <= Len(Here.rules)
  BY <1>1 DEF ReadInv, WorldRead, WithinLoops
<1>3. /\ WorldFacts' = WorldFacts /\ WorldRules' = WorldRules /\ WorldChecks' = WorldChecks
      /\ FactParts' = FactParts /\ ClauseParts' = ClauseParts /\ CheckParts' = CheckParts
  BY <1>1, PartsStay
<1>4. R \in Seq(StatedClauses(token)) /\ msg - 1 = Len(R)
  <2>1. R \in Seq(StatedClauses(token)) /\ Len(R) = Len(Here.rules)
    BY QueriesAre
  <2>2. QED
    BY <1>1, <1>2, <2>1, AtPlace
<1>5. FirstOf(R, msg - 1) = R /\ R \o <<>> = R
  <2>1. Len(R) \in 0 .. Len(R)
    BY <1>4, LenProperties
  <2>2. FirstOf(R, Len(R)) = R /\ R \o <<>> = R
    BY <1>4, <2>1, FirstOfPart, ConcatEmptySeq
  <2>3. QED
    BY <1>4, <2>2
<1>6. WorldRules = A \o R
  BY <1>1, <1>2, <1>5 DEF WorldRead, RulesRead, LogicRead
<1>7. LogicRead' = R
  <2>1. ~InCheck' /\ msg' - 1 = 0
    BY <1>1 DEF InCheck, InClause
  <2>2. FirstParts(QueryParts', 0) = <<>>
    BY NoneBefore
  <2>3. <<>> \o <<>> = <<>>
    BY ConcatEmptySeq, EmptySeq
  <2>4. QueriesRead' = <<>>
    BY <2>1 DEF QueriesRead
  <2>5. QED
    BY <1>1, <1>5, <2>1, <2>2, <2>3, <2>4 DEF LogicRead
<1>8. RulesRead'
  BY <1>1, <1>3, <1>6, <1>7 DEF RulesRead
<1>9. FirstOf(ChecksOf(token, block), 0) = <<>>
  <2>1. ChecksOf(token, block) \in Seq(StatedChecks(token))
    BY AtPlace, StatedTyped
  <2>2. 0 \in 0 .. Len(ChecksOf(token, block))
    BY <2>1, LenProperties
  <2>3. QED
    BY <2>1, <2>2, FirstOfPart
<1>10. ChecksRead'
  <2>1. msg' - 1 = 0
    BY <1>1
  <2>2. WorldChecks = FirstParts(CheckParts, block) \o <<>>
    BY <1>1, <1>2 DEF WorldRead, ChecksRead
  <2>3. QED
    BY <1>1, <1>3, <1>9, <2>1, <2>2 DEF ChecksRead
<1>11. FactsRead'
  BY <1>1, <1>2, <1>3 DEF WorldRead, FactsRead
<1>12. QED
  BY <1>8, <1>10, <1>11 DEF WorldRead

\* A check is opened at its first query.
LEMMA NextCheckRead ==
  ASSUME LoadTypeOK, LoadInv, ReadInv, Sensible(token), NextCheck, pc' # "stopped"
  PROVE  WorldRead'
<1>1. /\ pc = "next" /\ pc' = "query" /\ phase = "checks" /\ msg \in 1 .. Len(Here.checks)
      /\ query' = 1
      /\ UNCHANGED <<token, block, phase, msg, entries, facts, rules, checks>>
  BY AtPlace DEF NextCheck, Refuse, poolVars
<1>2. WorldRead
  BY <1>1 DEF ReadInv, WorldRead
<1>3. /\ WorldFacts' = WorldFacts /\ WorldRules' = WorldRules /\ WorldChecks' = WorldChecks
      /\ FactParts' = FactParts /\ ClauseParts' = ClauseParts /\ CheckParts' = CheckParts
      /\ QueryParts' = QueryParts
  BY <1>1, PartsStay, PartsSame
<1>4. FirstOf(QueryParts[msg], 0) = <<>>
  <2>1. QueryParts[msg] \in Seq(StatedClauses(token))
    BY <1>1, QueriesAre
  <2>2. 0 \in 0 .. Len(QueryParts[msg])
    BY <2>1, LenProperties
  <2>3. QED
    BY <2>1, <2>2, FirstOfPart
<1>5. QueriesRead = <<>> /\ QueriesRead' = <<>>
  <2>1. ~InCheck /\ query' - 1 = 0
    BY <1>1 DEF InCheck, InClause
  <2>2. QED
    BY <1>1, <1>3, <1>4, <2>1 DEF QueriesRead
<1>6. LogicRead' = LogicRead
  BY <1>1, <1>3, <1>5 DEF LogicRead
<1>7. RulesRead'
  BY <1>1, <1>2, <1>3, <1>6 DEF WorldRead, RulesRead
<1>8. FactsRead' /\ ChecksRead'
  BY <1>1, <1>2, <1>3 DEF WorldRead, FactsRead, ChecksRead
<1>9. QED
  BY <1>7, <1>8 DEF WorldRead

\* At the end of a block its clauses and checks have all been read.
LEMMA BlockIsRead ==
  ASSUME LoadTypeOK, LoadInv, ReadInv, Sensible(token), ChecksDone
  PROVE  /\ WorldFacts = FlattenSeq(FactParts)
         /\ WorldRules = FirstParts(ClauseParts, block + 1)
         /\ WorldChecks = FirstParts(CheckParts, block + 1)
<1> DEFINE K == ChecksOf(token, block)
<1>1. pc = "next" /\ phase = "checks" /\ msg > Len(Here.checks)
  BY DEF ChecksDone
<1>2. WorldRead /\ msg - 1 <= Len(Here.checks)
  BY <1>1 DEF ReadInv, WorldRead, WithinLoops
<1>3. msg - 1 = Len(Here.checks)
  BY <1>1, <1>2, AtPlace
<1>4. LogicRead = ClausesOf(token, block)
  <2>1. ~InCheck
    BY <1>1 DEF InCheck, InClause
  <2>2. QueriesRead = <<>>
    BY <2>1 DEF QueriesRead
  <2>3. FirstParts(QueryParts, msg - 1) = FlattenSeq(QueryParts)
    BY <1>3, QueriesAre, AllBefore
  <2>4. FlattenSeq(QueryParts) \o <<>> = FlattenSeq(QueryParts)
    BY QueriesAre, ConcatEmptySeq
  <2>5. QED
    BY <1>1, <2>2, <2>3, <2>4, QueriesAre DEF LogicRead
<1>5. WorldRules = FirstParts(ClauseParts, block + 1)
  BY <1>1, <1>2, <1>4, PartsAre DEF WorldRead, RulesRead
<1>6. FirstOf(K, msg - 1) = K
  <2>1. K \in Seq(StatedChecks(token)) /\ Len(K) = msg - 1
    BY <1>3, AtPlace, StatedTyped
  <2>2. Len(K) \in 0 .. Len(K)
    BY <2>1, LenProperties
  <2>3. FirstOf(K, Len(K)) = K
    BY <2>1, <2>2, FirstOfPart
  <2>4. QED
    BY <2>1, <2>3
<1>7. WorldChecks = FirstParts(CheckParts, block + 1)
  BY <1>1, <1>2, <1>6, PartsAre DEF WorldRead, ChecksRead
<1>8. WorldFacts = FlattenSeq(FactParts)
  BY <1>1, <1>2 DEF WorldRead, FactsRead
<1>9. QED
  BY <1>5, <1>7, <1>8

\* The next block is begun when nothing of this one is left.
LEMMA ChecksDoneRead ==
  ASSUME LoadTypeOK, LoadInv, ReadInv, Sensible(token), ChecksDone, pc' # "stopped"
  PROVE  WorldRead'
<1>1. /\ pc = "next" /\ pc' = "next" /\ phase' = "scope" /\ msg' = 1 /\ block' = block + 1
      /\ block + 1 < Len(token)
      /\ UNCHANGED <<token, entries, facts, rules, checks>>
  BY DEF ChecksDone, Refuse, poolVars
<1>2. /\ WorldFacts = FlattenSeq(FactParts)
      /\ WorldRules = FirstParts(ClauseParts, block + 1)
      /\ WorldChecks = FirstParts(CheckParts, block + 1)
  BY BlockIsRead
<1>3. /\ WorldFacts' = WorldFacts /\ WorldRules' = WorldRules /\ WorldChecks' = WorldChecks
      /\ FactParts' = FactParts /\ ClauseParts' = ClauseParts /\ CheckParts' = CheckParts
  BY <1>1, PartsStay
<1>4. block + 1 \in 0 .. Len(token)
  BY <1>1, AtPlace
<1>5. /\ FirstParts(ClauseParts, block + 1) \o <<>> = FirstParts(ClauseParts, block + 1)
      /\ FirstParts(CheckParts, block + 1) \o <<>> = FirstParts(CheckParts, block + 1)
  BY <1>4, PartsAre
<1>6. LogicRead' = <<>>
  BY <1>1 DEF LogicRead
<1>7. RulesRead'
  BY <1>1, <1>2, <1>3, <1>5, <1>6 DEF RulesRead
<1>8. FactsRead' /\ ChecksRead'
  BY <1>1, <1>2, <1>3, <1>5 DEF FactsRead, ChecksRead
<1>9. QED
  BY <1>7, <1>8 DEF WorldRead
-----------------------------------------------------------------------------
(* What is read is what is stated.                                         *)

\* A statement that is placed keeps the loops within their bounds, and leaves
\* no clause at hand.
LEMMA PlacedWithin ==
  ASSUME LoadTypeOK, LoadInv, WithinLoops, PlaceFact \/ PlaceRule \/ PlaceQuery \/ PlaceCheck
  PROVE  status' = status /\ ClauseRead' /\ WithinLoops'
<1>1. /\ pc \in {"place", "query"} /\ pc' \in {"next", "query"}
      /\ UNCHANGED <<token, block, phase, status>>
  BY DEF PlaceFact, PlaceRule, PlaceQuery, PlaceCheck
<1>2. Here' = Here
  BY <1>1 DEF Here
<1>3. status' = status /\ ClauseRead'
  BY <1>1 DEF ClauseRead, InClause
<1>4. phase # "scope"
  <2>1. pc = "query" => phase = "checks"
    BY DEF LoadInv, OnStatement
  <2>2. pc = "place" => AtStatement
    BY DEF LoadInv, OnStatement, InClause
  <2>3. QED
    BY <1>1, <2>1, <2>2 DEF AtStatement
<1>5. CASE PlaceFact \/ PlaceRule
  <2>1. phase \in {"facts", "rules"} /\ msg' = msg + 1 /\ pc = "place"
    BY <1>5 DEF PlaceFact, PlaceRule
  <2>2. /\ phase = "facts" => msg \in 1 .. Len(Here.facts)
        /\ phase = "rules" => msg \in 1 .. Len(Here.rules)
        /\ msg' - 1 = msg
    <3>1. AtStatement
      BY <2>1 DEF LoadInv, OnStatement, InClause
    <3>2. QED
      BY <2>1, <3>1, PlaceNumbers DEF AtStatement
  <2>3. WithinLoops'
    BY <1>1, <1>2, <2>1, <2>2, AtPlace DEF WithinLoops, InCheck
  <2>4. QED
    BY <1>3, <2>3
<1>6. CASE PlaceQuery
  <2>1. phase = "checks" /\ query' = query + 1 /\ msg' = msg /\ pc = "place" /\ pc' = "query"
    BY <1>6 DEF PlaceQuery
  <2>2. msg \in 1 .. Len(Here.checks) /\ query \in 1 .. Len(Here.checks[msg].queries)
        /\ query' - 1 = query
    <3>1. msg \in DOMAIN Here.checks /\ query \in DOMAIN Here.checks[msg].queries
      BY <2>1 DEF LoadInv, OnStatement, AtStatement, InClause
    <3>2. query' - 1 = query
      BY <2>1, PlaceNumbers
    <3>3. msg \in 1 .. Len(Here.checks)
      BY <3>1, PlaceNumbers
    <3>4. DOMAIN Here.checks[msg].queries = 1 .. Len(Here.checks[msg].queries)
      BY <3>3, QueryPlaces
    <3>5. QED
      BY <3>1, <3>2, <3>3, <3>4
  <2>3. WithinLoops'
    BY <1>1, <1>2, <2>1, <2>2, AtPlace DEF WithinLoops, InCheck
  <2>4. QED
    BY <1>3, <2>3
<1>7. CASE PlaceCheck
  <2>1. pc = "query" /\ pc' = "next" /\ msg' = msg + 1
    BY <1>7 DEF PlaceCheck
  <2>2. phase = "checks" /\ msg \in 1 .. Len(Here.checks) /\ msg' - 1 = msg
    <3>1. phase = "checks" /\ msg \in DOMAIN Here.checks
      BY <2>1 DEF LoadInv, OnStatement
    <3>2. QED
      BY <2>1, <3>1, PlaceNumbers
  <2>3. WithinLoops'
    BY <1>1, <1>2, <2>1, <2>2, AtPlace DEF WithinLoops, InCheck, InClause
  <2>4. QED
    BY <1>3, <2>3
<1>8. QED
  BY <1>5, <1>6, <1>7

\* So does a loop that ends, and a check that is opened.
LEMMA MovedWithin ==
  ASSUME LoadTypeOK, LoadInv, WithinLoops, pc' # "stopped",
         FactsDone \/ BlockTrust \/ RulesDone \/ NextCheck \/ ChecksDone
  PROVE  status' = status /\ ClauseRead' /\ WithinLoops'
<1>1. /\ pc = "next" /\ pc' \in {"next", "query"}
      /\ UNCHANGED <<token, status>>
      /\ \/ msg' = 1
         \/ phase = "scope" /\ phase' = "rules" /\ UNCHANGED <<block, msg>>
         \/ UNCHANGED <<block, phase, msg>> /\ query' = 1 /\ phase = "checks"
  BY DEF FactsDone, BlockTrust, RulesDone, NextCheck, ChecksDone, Refuse
<1>2. status' = status /\ ClauseRead'
  BY <1>1 DEF ClauseRead, InClause
<1>3. block' \in 0 .. Len(token) - 1
  BY <1>1, AtPlace DEF FactsDone, BlockTrust, RulesDone, NextCheck, ChecksDone, Refuse
<1>4. /\ Len(Here'.facts) \in Nat /\ Len(Here'.rules) \in Nat /\ Len(Here'.checks) \in Nat
  <2>1. Here' = token[block' + 1] /\ block' + 1 \in 1 .. Len(token)
    BY <1>1, <1>3, AtPlace DEF Here
  <2>2. Here' \in Message
    BY <2>1, ElementOfSeq, AtPlace
  <2>3. QED
    BY <2>2, MessageFields, LenProperties
<1>5. WithinLoops'
  <2>1. CASE msg' = 1
    <3>1. msg' - 1 = 0 /\ (InCheck' => pc' = "query")
      BY <1>1, <2>1 DEF InCheck, InClause
    <3>2. pc' = "query" => query' = 1 /\ UNCHANGED <<block, phase, msg>> /\ phase = "checks"
          /\ msg \in 1 .. Len(Here.checks)
      BY <1>1, PlaceNumbers DEF FactsDone, BlockTrust, RulesDone, NextCheck, ChecksDone, Refuse
    <3>3. pc' = "query" => query' - 1 <= Len(Here'.checks[msg'].queries)
      <4>1. pc' = "query" => Len(Here.checks[msg].queries) \in Nat
        BY <3>2, QueryPlaces
      <4>2. pc' = "query" => Here' = Here
        BY <1>1, <3>2 DEF Here
      <4>3. QED
        BY <3>2, <4>1, <4>2
    <3>4. QED
      BY <1>4, <2>1, <3>1, <3>3 DEF WithinLoops
  <2>2. CASE phase = "scope" /\ phase' = "rules" /\ UNCHANGED <<block, msg>>
    <3>1. msg' = 1
      BY <2>2 DEF WithinLoops
    <3>2. msg' - 1 = 0 /\ ~InCheck'
      BY <2>2, <3>1 DEF InCheck
    <3>3. QED
      BY <1>4, <2>2, <3>2 DEF WithinLoops
  <2>3. CASE UNCHANGED <<block, phase, msg>> /\ query' = 1 /\ phase = "checks"
    <3>1. Here' = Here
      BY <1>1, <2>3 DEF Here
    <3>2. pc' = "query" => msg \in 1 .. Len(Here.checks)
      BY <1>1, <2>3, PlaceNumbers DEF FactsDone, BlockTrust, RulesDone, NextCheck, ChecksDone, Refuse
    <3>3. InCheck' => query' - 1 <= Len(Here'.checks[msg'].queries)
      <4>1. InCheck' => Len(Here.checks[msg].queries) \in Nat
        BY <1>1, <3>2, QueryPlaces DEF InCheck, InClause
      <4>2. query' - 1 = 0
        BY <2>3
      <4>3. QED
        BY <2>3, <3>1, <4>1, <4>2
    <3>4. QED
      BY <2>3, <3>1, <3>3 DEF WithinLoops
  <2>4. QED
    BY <1>1, <2>1, <2>2, <2>3
<1>6. QED
  BY <1>2, <1>5

\* A statement that is placed leaves the rest as it must be.
LEMMA PlacedRest ==
  ASSUME LoadTypeOK, LoadInv, ReadInv, PlaceFact \/ PlaceRule \/ PlaceQuery \/ PlaceCheck
  PROVE  status' = "none" /\ ClauseRead' /\ TrustRead' /\ WithinLoops' /\ RunsFilled'
<1>1. /\ pc \in {"place", "query"} /\ UNCHANGED <<token, block, phase, trust, status>>
  BY DEF PlaceFact, PlaceRule, PlaceQuery, PlaceCheck
<1>2. status = "none" /\ TrustRead /\ WithinLoops /\ RunsFilled
  BY <1>1 DEF ReadInv
<1>3. status' = "none" /\ ClauseRead' /\ WithinLoops'
  BY <1>2, PlacedWithin
<1>4. TrustRead'
  <2>1. Here' = Here
    BY <1>1 DEF Here
  <2>2. QED
    BY <1>1, <1>2, <2>1 DEF TrustRead
<1>5. CASE PlaceFact
  BY <1>2, <1>3, <1>4, <1>5 DEF PlaceFact, RunsFilled
<1>6. CASE PlaceRule \/ PlaceQuery
  <2>1. /\ rules' = Append(rules, Loaded(FALSE)) \/ rules' = Append(rules, Loaded(TRUE))
        /\ pc = "place" /\ phase # "facts" /\ UNCHANGED <<entries, checks>>
    BY <1>6 DEF PlaceRule, PlaceQuery
  <2>2. RunsFilled'
    BY <1>2, <2>1, RuleAppended
  <2>3. QED
    BY <1>3, <1>4, <2>2
<1>7. CASE PlaceCheck
  <2> DEFINE c == [query_at |-> at, query_count |-> query - 1,
                   kind |-> Here.checks[msg].kind, block |-> block]
  <2>1. pc = "query" /\ pc' = "next" /\ msg' = msg + 1 /\ checks' = Append(checks, c) /\ rules' = rules
    BY <1>7 DEF PlaceCheck
  <2>2. Len(rules) = at + query - 1
    <3>1. phase = "checks" /\ RoomAhead
      BY <2>1 DEF LoadInv, OnStatement
    <3>2. QED
      BY <2>1, <3>1 DEF RoomAhead
  <2>3. c.query_at + c.query_count <= Len(rules)
    <3>1. at \in Nat /\ query \in Nat
      BY AtPlace DEF LoadTypeOK
    <3>2. c.query_at = at /\ c.query_count = query - 1
      OBVIOUS
    <3>3. Len(rules) \in Nat
      BY WorldTyped
    <3>4. QED
      BY <2>2, <3>1, <3>2, <3>3
  <2> HIDE DEF c
  <2>4. RunsFilled'
    <3>1. /\ Len(checks) \in Nat /\ DOMAIN checks = 1 .. Len(checks)
          /\ DOMAIN checks' = 1 .. Len(checks) + 1 /\ checks'[Len(checks) + 1] = c
          /\ \A k \in 1 .. Len(checks) : checks'[k] = checks[k]
      BY <2>1, AppendedLast DEF LoadTypeOK
    <3>2. ASSUME NEW n \in DOMAIN checks'
          PROVE  checks'[n].query_at + checks'[n].query_count <= Len(rules)
      <4>1. n \in 1 .. Len(checks) \/ n = Len(checks) + 1
        BY <3>1
      <4>2. QED
        BY <1>2, <2>3, <3>1, <4>1 DEF RunsFilled
    <3>3. QED
      BY <2>1, <3>2 DEF RunsFilled
  <2>5. QED
    BY <1>3, <1>4, <2>4
<1>8. QED
  BY <1>5, <1>6, <1>7

\* So does a loop that ends, and a check that is opened.
LEMMA MovedRest ==
  ASSUME LoadTypeOK, LoadInv, ReadInv, pc' # "stopped",
         FactsDone \/ BlockTrust \/ RulesDone \/ NextCheck \/ ChecksDone
  PROVE  status' = "none" /\ ClauseRead' /\ WithinLoops' /\ RunsFilled'
         /\ (TrustRead' \/ BlockTrust)
<1>1. pc = "next" /\ UNCHANGED <<token, rules, checks, status>>
  BY DEF FactsDone, BlockTrust, RulesDone, NextCheck, ChecksDone, Refuse, poolVars
<1>2. status = "none" /\ TrustRead /\ WithinLoops /\ RunsFilled
  BY <1>1 DEF ReadInv
<1>3. status' = "none" /\ ClauseRead' /\ WithinLoops'
  BY <1>2, MovedWithin
<1>4. RunsFilled'
  BY <1>1, <1>2 DEF RunsFilled
<1>5. TrustRead' \/ BlockTrust
  <2>1. CASE RulesDone \/ NextCheck
    <3>1. UNCHANGED <<token, block, trust>> /\ phase \in {"rules", "checks"}
      BY <2>1 DEF RulesDone, NextCheck
    <3>2. Here' = Here
      BY <3>1 DEF Here
    <3>3. QED
      BY <1>2, <3>1, <3>2 DEF TrustRead
  <2>2. CASE FactsDone \/ ChecksDone
    <3>1. phase' \notin {"rules", "checks"}
      BY <2>2 DEF FactsDone, ChecksDone, Refuse
    <3>2. QED
      BY <3>1 DEF TrustRead
  <2>3. QED
    BY <2>1, <2>2
<1>6. QED
  BY <1>3, <1>4, <1>5

\* While it runs, the loader goes on reading what it should.
LEMMA ReadStep ==
  ASSUME TablesGoOn, LoadTypeOK, LoadInv, ReadInv, LoadTypeOK', LoadInv', LoadStep, pc' # "stopped"
  PROVE  ReadInv'
<1>1. CASE \/ ReadName \/ ReadTerm \/ ReadOperand
           \/ Reserve \/ PredicateDone \/ NextPredicate \/ NextExpression
  BY <1>1, ClauseTurn
<1>2. CASE NextFact \/ NextRule \/ NextQuery
  BY <1>2, OpeningTurn
<1>3. CASE PlaceFact \/ PlaceRule \/ PlaceQuery \/ PlaceCheck
  <2>1. token' = token
    BY <1>3 DEF PlaceFact, PlaceRule, PlaceQuery, PlaceCheck
  <2>2. Sensible(token) => WorldRead'
    BY <1>3, FactPlacedRead, RulePlacedRead, QueryPlacedRead, CheckPlacedRead
  <2>3. QED
    BY <1>3, <2>1, <2>2, PlacedRest DEF ReadInv, WorldRead
<1>4. CASE FactsDone \/ BlockTrust \/ RulesDone \/ NextCheck \/ ChecksDone
  <2>1. token' = token
    BY <1>4 DEF FactsDone, BlockTrust, RulesDone, NextCheck, ChecksDone
  <2>2. Sensible(token) => WorldRead'
    BY <1>4, FactsDoneRead, BlockTrustRead, RulesDoneRead, NextCheckRead, ChecksDoneRead
  <2>3. BlockTrust => TrustRead'
    <3>1. BlockTrust => trust' = Trust(token, block, Here.scopes, {0}) /\ Here' = Here /\ block' = block
      BY DEF BlockTrust, Refuse, Here
    <3>2. QED
      BY <2>1, <3>1 DEF TrustRead
  <2>4. QED
    BY <1>4, <2>1, <2>2, <2>3, MovedRest DEF ReadInv, WorldRead
<1>5. ~(Unnamed \/ NoSymbolRoom \/ PoolFull \/ BadScope \/ UnboundRule \/ NoCheckRoom)
  BY DEF Unnamed, NoSymbolRoom, PoolFull, BadScope, UnboundRule, NoCheckRoom, Refuse
<1>6. QED
  BY <1>1, <1>2, <1>3, <1>4, <1>5 DEF LoadStep

\* A load that stops leaves the world as it was, and one that succeeds does
\* so at the end of the last block.
LEMMA StopsAsItIs ==
  ASSUME LoadTypeOK, LoadInv, ReadInv, LoadStep, pc' = "stopped"
  PROVE  /\ UNCHANGED <<token, entries, facts, rules, checks>>
         /\ status' = "OK" => ChecksDone /\ block + 1 = Len(token)
<1>1. pc # "stopped"
  BY DEF LoadStep, ReadName, ReadTerm, ReadOperand, Unnamed, NoSymbolRoom, Reading, Reserve, PoolFull,
         Reserving, PredicateDone, NextPredicate, NextExpression, PlaceFact, PlaceRule, PlaceQuery,
         PlaceCheck, BadScope, UnboundRule, NoCheckRoom, NextFact, FactsDone, BlockTrust, NextRule,
         RulesDone, NextCheck, NextQuery, ChecksDone
<1>2. status = "none"
  BY <1>1 DEF ReadInv
<1>3. ~(\/ ReadName \/ ReadTerm \/ ReadOperand \/ Reserve \/ PredicateDone \/ NextPredicate
        \/ NextExpression \/ PlaceFact \/ PlaceRule \/ PlaceQuery \/ PlaceCheck \/ FactsDone
        \/ RulesDone \/ NextQuery)
  BY <1>1 DEF ReadName, ReadTerm, ReadOperand, Reserve, Reserving, Demand, PredicateDone, NextPredicate,
         NextExpression, PlaceFact, PlaceRule, PlaceQuery, PlaceCheck, FactsDone, RulesDone, NextQuery,
         OpenClause
<1>4. CASE \/ Unnamed \/ NoSymbolRoom \/ PoolFull \/ BadScope \/ UnboundRule \/ NoCheckRoom
  BY <1>4 DEF Unnamed, NoSymbolRoom, PoolFull, BadScope, UnboundRule, NoCheckRoom, Refuse, poolVars
<1>5. CASE NextFact \/ NextRule
  BY <1>2, <1>5 DEF NextFact, NextRule, Refuse, OpenClause, poolVars
<1>6. CASE BlockTrust
  BY <1>2, <1>6 DEF BlockTrust, Refuse, poolVars
<1>7. CASE NextCheck
  BY <1>2, <1>7 DEF NextCheck, Refuse, poolVars
<1>8. CASE ChecksDone
  <2>1. UNCHANGED <<token, entries, facts, rules, checks>>
    BY <1>8 DEF ChecksDone, poolVars
  <2>2. ~(block + 1 < Len(token))
    BY <1>1, <1>8 DEF ChecksDone, Refuse
  <2>3. block + 1 = Len(token)
    BY <2>2, AtPlace
  <2>4. QED
    BY <1>8, <2>1, <2>3
<1>9. QED
  BY <1>3, <1>4, <1>5, <1>6, <1>7, <1>8 DEF LoadStep
\* What has been read of the token is where a full reading begins.
LEMMA ReadIsStated ==
  ASSUME LoadTypeOK, LoadInv, ReadInv, pc # "stopped"
  PROVE  LoadsWhatIsStated
<1> SUFFICES ASSUME Sensible(token)
             PROVE  /\ IsPrefix(WorldFacts, PerBlock(token, FactsOf))
                    /\ IsPrefix(WorldRules, PerBlock(token, ClausesOf))
                    /\ IsPrefix(WorldChecks, PerBlock(token, ChecksOf))
  BY DEF LoadsWhatIsStated, ReadInv
<1>1. WorldRead /\ WithinLoops
  BY DEF ReadInv, WorldRead
<1>2. /\ FlattenSeq(FactParts) = PerBlock(token, FactsOf)
      /\ FlattenSeq(ClauseParts) = PerBlock(token, ClausesOf)
      /\ FlattenSeq(CheckParts) = PerBlock(token, ChecksOf)
      /\ FactParts[block + 1] = FactsOf(token, block)
      /\ ClauseParts[block + 1] = ClausesOf(token, block)
      /\ CheckParts[block + 1] = ChecksOf(token, block)
  BY AtPlace, PartsTyped
<1>3. ASSUME NEW S, NEW parts \in Seq(Seq(S)), Len(parts) = Len(token),
             NEW x \in Seq(S), IsPrefix(x, parts[block + 1])
      PROVE  IsPrefix(FirstParts(parts, block) \o x, FlattenSeq(parts))
  BY <1>3, AtPlace, AlongTheParts
<1>4. ASSUME NEW S, NEW parts \in Seq(Seq(S)), Len(parts) = Len(token)
      PROVE  /\ IsPrefix(FirstParts(parts, 0) \o <<>>, FlattenSeq(parts))
             /\ FlattenSeq(parts) \in Seq(S)
             /\ IsPrefix(FlattenSeq(parts), FlattenSeq(parts))
  <2>1. 0 \in 0 .. Len(parts)
    BY <1>4, AtPlace
  <2>2. IsPrefix(FirstParts(parts, 0), FlattenSeq(parts)) /\ FlattenSeq(parts) \in Seq(S)
    BY <2>1, BeforeIsPrefix
  <2>3. FirstParts(parts, 0) \o <<>> = FirstParts(parts, 0)
    <3>1. FirstParts(parts, 0) \in Seq(S)
      BY <2>1, BeforeTyped
    <3>2. QED
      BY <3>1, ConcatEmptySeq
  <2>4. QED
    BY <2>2, <2>3, PrefixItself
<1>5. ASSUME NEW S, NEW part \in Seq(S), NEW n \in 0 .. Len(part)
      PROVE  FirstOf(part, n) \in Seq(S) /\ IsPrefix(FirstOf(part, n), part)
  BY FirstOfPart
<1>6. ASSUME NEW S, NEW part \in Seq(S)
      PROVE  <<>> \in Seq(S) /\ IsPrefix(<<>>, part)
  <2>1. 0 \in 0 .. Len(part)
    BY LenProperties
  <2>2. FirstOf(part, 0) = <<>>
    BY <2>1, FirstOfPart
  <2>3. QED
    BY <2>1, <2>2, <1>5
<1>7. phase \in {"facts", "scope", "rules", "checks"}
  BY DEF LoadTypeOK
<1>8. IsPrefix(WorldFacts, FlattenSeq(FactParts))
  <2>1. CASE phase = "facts"
    <3> DEFINE F == FactsOf(token, block)
               n == msg - 1
    <3>1. F \in Seq(StatedFacts(token)) /\ n \in 0 .. Len(F)
      <4>1. F \in Seq(StatedFacts(token)) /\ Len(F) = Len(Here.facts)
        BY AtPlace, StatedTyped
      <4>2. QED
        BY <1>1, <2>1, <4>1, AtPlace DEF WithinLoops
    <3>2. WorldFacts = FirstParts(FactParts, block) \o FirstOf(F, n)
      BY <1>1, <2>1 DEF WorldRead, FactsRead
    <3>3. F = FactParts[block + 1]
      BY <1>2
    <3> HIDE DEF F, n
    <3> DEFINE x == FirstOf(F, n)
    <3>4. x \in Seq(StatedFacts(token)) /\ IsPrefix(x, FactParts[block + 1])
      BY <1>5, <3>1, <3>3
    <3> HIDE DEF x
    <3>5. IsPrefix(FirstParts(FactParts, block) \o x, FlattenSeq(FactParts))
      BY <1>3, <3>4, PartsAre
    <3>6. QED
      BY <3>2, <3>5 DEF x
  <2>2. CASE phase # "facts"
    <3>1. WorldFacts = FlattenSeq(FactParts)
      BY <1>1, <2>2 DEF WorldRead, FactsRead
    <3>2. QED
      BY <1>4, <3>1, PartsAre
  <2>3. QED
    BY <2>1, <2>2
<1>9. LogicRead \in Seq(StatedClauses(token)) /\ IsPrefix(LogicRead, ClauseParts[block + 1])
  <2> DEFINE S == StatedClauses(token)
             R == RulesOf(token, block)
             C == ClausesOf(token, block)
             Q == FlattenSeq(QueryParts)
  <2>1. /\ R \in Seq(S) /\ C \in Seq(S) /\ Q \in Seq(S) /\ C = R \o Q
        /\ Len(R) = Len(Here.rules) /\ ClauseParts[block + 1] = C
    BY <1>2, QueriesAre
  <2>2. CASE phase \in {"facts", "scope"}
    <3>1. LogicRead = <<>>
      BY <2>2 DEF LogicRead
    <3> HIDE DEF S, C
    <3>2. QED
      BY <1>6, <2>1, <3>1 DEF S
  <2>3. CASE phase = "rules"
    <3> DEFINE n == msg - 1
    <3>1. n \in 0 .. Len(R)
      BY <1>1, <2>1, <2>3, AtPlace DEF WithinLoops
    <3>2. LogicRead = FirstOf(R, n)
      BY <2>3 DEF LogicRead
    <3> HIDE DEF S, R, C, Q, n
    <3>3. LogicRead \in Seq(S) /\ IsPrefix(LogicRead, R)
      BY <1>5, <2>1, <3>1, <3>2
    <3>4. IsPrefix(R, C)
      BY <2>1, PrefixOfJoin
    <3>5. IsPrefix(LogicRead, C)
      BY <2>1, <3>3, <3>4, PrefixOn
    <3>6. QED
      BY <2>1, <3>3, <3>5 DEF S
  <2>4. CASE phase = "checks"
    <3> DEFINE n == msg - 1
               B == FirstParts(QueryParts, n)
               u == B \o QueriesRead
    <3>1. n \in 0 .. Len(Here.checks) /\ Len(Here.checks) \in Nat
      BY <1>1, <2>4, AtPlace DEF WithinLoops
    <3>2. LogicRead = R \o u
      BY <2>4 DEF LogicRead
    <3>3. /\ QueryParts \in Seq(Seq(S)) /\ Len(QueryParts) = Len(Here.checks) /\ B \in Seq(S)
      BY <3>1, QueriesAre
    <3>4. u \in Seq(S) /\ IsPrefix(u, Q)
      <4>1. CASE InCheck
        <5>1. msg \in 1 .. Len(Here.checks) /\ query - 1 \in 0 .. Len(Here.checks[msg].queries)
          <6>1. msg \in DOMAIN Here.checks
            BY <2>4, <4>1 DEF InCheck, LoadInv, OnStatement, AtStatement
          <6>2. query - 1 <= Len(Here.checks[msg].queries)
            BY <1>1, <4>1 DEF WithinLoops
          <6>3. Len(Here.checks[msg].queries) \in Nat /\ query \in Nat \ {0}
            BY <6>1, AtPlace
          <6>4. QED
            BY <6>1, <6>2, <6>3, AtPlace
        <5> DEFINE m == query - 1
                   x == FirstOf(QueryParts[msg], m)
        <5>2. QueriesRead = x
          BY <4>1 DEF QueriesRead
        <5>3. QueryParts[msg] \in Seq(S) /\ m \in 0 .. Len(QueryParts[msg])
          BY <5>1, QueriesAre
        <5> HIDE DEF m, S
        <5>4. x \in Seq(S) /\ IsPrefix(x, QueryParts[msg])
          BY <1>5, <5>3
        <5>5. n \in Nat /\ n < Len(QueryParts) /\ n + 1 = msg
          BY <3>1, <3>3, <5>1
        <5> HIDE DEF x, n, B
        <5>6. FirstParts(QueryParts, n) \o x \in Seq(S)
              /\ IsPrefix(FirstParts(QueryParts, n) \o x, FlattenSeq(QueryParts))
          BY <3>3, <5>4, <5>5, AlongTheParts
        <5>7. QED
          BY <5>2, <5>6 DEF B
      <4>2. CASE ~InCheck
        <5>1. QueriesRead = <<>>
          BY <4>2 DEF QueriesRead
        <5>2. u = B
          BY <3>3, <5>1, ConcatEmptySeq
        <5> HIDE DEF u, n, S
        <5>3. IsPrefix(FirstParts(QueryParts, n), FlattenSeq(QueryParts))
          BY <3>1, <3>3, BeforeIsPrefix
        <5>4. QED
          BY <3>3, <5>2, <5>3
      <4>3. QED
        BY <4>1, <4>2
    <3> HIDE DEF S, R, C, Q, u
    <3>5. IsPrefix(R \o u, R \o Q) /\ R \o u \in Seq(S)
      BY <2>1, <3>4, PrefixJoined, ConcatProperties
    <3>6. QED
      BY <2>1, <3>2, <3>5 DEF S
  <2>5. QED
    BY <1>7, <2>2, <2>3, <2>4
<1>10. IsPrefix(WorldRules, FlattenSeq(ClauseParts))
  <2>1. ClauseParts \in Seq(Seq(StatedClauses(token))) /\ Len(ClauseParts) = Len(token)
    BY PartsAre
  <2>2. CASE phase = "facts"
    <3>1. WorldRules = FirstParts(ClauseParts, 0) \o <<>>
      BY <1>1, <2>2 DEF WorldRead, RulesRead, LogicRead
    <3>2. QED
      BY <1>4, <2>1, <3>1
  <2>3. CASE phase # "facts"
    <3>1. WorldRules = FirstParts(ClauseParts, block) \o LogicRead
      BY <1>1, <2>3 DEF WorldRead, RulesRead
    <3>2. QED
      BY <1>3, <1>9, <2>1, <3>1
  <2>4. QED
    BY <2>2, <2>3
<1>11. IsPrefix(WorldChecks, FlattenSeq(CheckParts))
  <2> DEFINE K == ChecksOf(token, block)
             S == StatedChecks(token)
             x == IF phase = "checks" THEN FirstOf(K, msg - 1) ELSE <<>>
  <2>1. CheckParts \in Seq(Seq(S)) /\ Len(CheckParts) = Len(token)
        /\ K \in Seq(S) /\ Len(K) = Len(Here.checks) /\ CheckParts[block + 1] = K
    BY <1>2, PartsAre, AtPlace, StatedTyped
  <2>2. WorldChecks = FirstParts(CheckParts, IF phase = "facts" THEN 0 ELSE block) \o x
    BY <1>1 DEF WorldRead, ChecksRead
  <2>3. x \in Seq(S) /\ IsPrefix(x, K)
    <3>1. phase = "checks" => msg - 1 \in 0 .. Len(K)
      BY <1>1, <2>1, PlaceNumbers DEF WithinLoops
    <3> HIDE DEF K, S
    <3>2. <<>> \in Seq(S) /\ IsPrefix(<<>>, K)
      BY <1>6, <2>1
    <3>3. phase = "checks" => FirstOf(K, msg - 1) \in Seq(S) /\ IsPrefix(FirstOf(K, msg - 1), K)
      BY <1>5, <2>1, <3>1
    <3>4. QED
      BY <3>2, <3>3
  <2>4. CASE phase = "facts"
    <3>1. WorldChecks = FirstParts(CheckParts, 0) \o <<>>
      BY <2>2, <2>4
    <3>2. QED
      BY <1>4, <2>1, <3>1
  <2>5. CASE phase # "facts"
    <3>1. WorldChecks = FirstParts(CheckParts, block) \o x
      BY <2>2, <2>5
    <3> HIDE DEF x, K, S
    <3>2. QED
      BY <1>3, <2>1, <2>3, <3>1
  <2>6. QED
    BY <2>4, <2>5
<1>12. QED
  BY <1>2, <1>8, <1>10, <1>11
\* The length of a world is that of what it reads.
LEMMA SameLength ==
  ASSUME LoadTypeOK, LoadInv, WorldFacts = FlattenSeq(FactParts),
         WorldRules = FlattenSeq(ClauseParts), WorldChecks = FlattenSeq(CheckParts)
  PROVE  /\ IsPrefix(WorldFacts, PerBlock(token, FactsOf))
         /\ IsPrefix(WorldRules, PerBlock(token, ClausesOf))
         /\ IsPrefix(WorldChecks, PerBlock(token, ChecksOf))
         /\ Len(facts) = Len(PerBlock(token, FactsOf))
         /\ Len(rules) = Len(PerBlock(token, ClausesOf))
         /\ Len(checks) = Len(PerBlock(token, ChecksOf))
<1>1. /\ FlattenSeq(FactParts) = PerBlock(token, FactsOf)
      /\ FlattenSeq(ClauseParts) = PerBlock(token, ClausesOf)
      /\ FlattenSeq(CheckParts) = PerBlock(token, ChecksOf)
  BY AtPlace, PartsTyped
<1>2. /\ Len(WorldFacts) = Len(facts) /\ Len(WorldRules) = Len(rules)
      /\ Len(WorldChecks) = Len(checks)
  BY WorldTyped
<1>3. /\ \E S : WorldFacts \in Seq(S)
      /\ \E S : WorldRules \in Seq(S)
      /\ \E S : WorldChecks \in Seq(S)
  BY WorldTyped
<1>4. /\ IsPrefix(WorldFacts, WorldFacts) /\ IsPrefix(WorldRules, WorldRules)
      /\ IsPrefix(WorldChecks, WorldChecks)
  BY <1>3, PrefixItself
<1>5. QED
  BY <1>1, <1>2, <1>4

\* The same of the next state.
LEMMA ReadStatedNext ==
  (LoadTypeOK /\ LoadInv /\ ReadInv /\ pc # "stopped" => LoadsWhatIsStated)'
<1>1. LoadTypeOK /\ LoadInv /\ ReadInv /\ pc # "stopped" => LoadsWhatIsStated
  BY ReadIsStated
<1>2. QED
  BY <1>1, PTL

\* What a stopped load has read it has read before.
LEMMA StoppedIsStated ==
  ASSUME TablesGoOn, LoadTypeOK, LoadInv, ReadInv, LoadsWhatIsStated, LoadTypeOK', LoadInv',
         LoadStep, pc' = "stopped"
  PROVE  LoadsWhatIsStated'
<1>1. /\ UNCHANGED <<token, entries, facts, rules, checks>>
      /\ status' = "OK" => ChecksDone /\ block + 1 = Len(token)
  BY StopsAsItIs
<1>2. WorldFacts' = WorldFacts /\ WorldRules' = WorldRules /\ WorldChecks' = WorldChecks
  BY <1>1, WorldSame
<1>3. ASSUME Sensible(token), status' = "OK"
      PROVE  /\ Len(facts) = Len(PerBlock(token, FactsOf))
             /\ Len(rules) = Len(PerBlock(token, ClausesOf))
             /\ Len(checks) = Len(PerBlock(token, ChecksOf))
  <2>1. /\ WorldFacts = FlattenSeq(FactParts)
        /\ WorldRules = FlattenSeq(ClauseParts)
        /\ WorldChecks = FlattenSeq(CheckParts)
    BY <1>1, <1>3, BlockIsRead, PartsAre
  <2>2. QED
    BY <2>1, SameLength
<1>4. QED
  BY <1>1, <1>2, <1>3 DEF LoadsWhatIsStated

\* Nothing is read at first.
LEMMA ReadInit ==
  ASSUME LoadInit
  PROVE  ReadInv
<1>1. /\ token \in Tokens /\ facts = <<>> /\ rules = <<>> /\ checks = <<>>
      /\ block = 0 /\ phase = "facts" /\ msg = 1 /\ pc = "next" /\ status = "none"
  BY DEF LoadInit
<1>2. LoadTypeOK /\ LoadInv
  BY LoadInvInit
<1>3. ClauseRead /\ TrustRead /\ RunsFilled
  BY <1>1, EmptySeq DEF ClauseRead, InClause, TrustRead, RunsFilled
<1>4. WithinLoops
  <2>1. Len(Here.facts) \in Nat
    BY <1>2, AtPlace
  <2>2. QED
    BY <1>1, <2>1 DEF WithinLoops, InCheck
<1>5. WorldFacts = <<>> /\ WorldRules = <<>> /\ WorldChecks = <<>>
  <2>1. Len(WorldFacts) = 0 /\ Len(WorldRules) = 0 /\ Len(WorldChecks) = 0
    BY <1>1, <1>2, WorldTyped, EmptySeq
  <2>2. /\ \E S : WorldFacts \in Seq(S)
        /\ \E S : WorldRules \in Seq(S)
        /\ \E S : WorldChecks \in Seq(S)
    BY <1>2, WorldTyped
  <2>3. QED
    BY <2>1, <2>2, EmptySeq
<1>6. <<>> \o <<>> = <<>>
  BY ConcatEmptySeq, EmptySeq
<1>7. FirstOf(FactsOf(token, block), msg - 1) = <<>>
  <2>1. FactsOf(token, block) \in Seq(StatedFacts(token))
    BY <1>2, AtPlace, StatedTyped
  <2>2. 0 \in 0 .. Len(FactsOf(token, block)) /\ msg - 1 = 0
    BY <1>1, <2>1, LenProperties
  <2>3. QED
    BY <2>1, <2>2, FirstOfPart
<1>8. WorldRead
  <2>1. FirstParts(FactParts, 0) = <<>> /\ FirstParts(ClauseParts, 0) = <<>>
        /\ FirstParts(CheckParts, 0) = <<>>
    BY NoneBefore
  <2>2. LogicRead = <<>>
    BY <1>1 DEF LogicRead
  <2>3. FactsRead
    BY <1>1, <1>5, <1>6, <1>7, <2>1 DEF FactsRead
  <2>4. RulesRead
    BY <1>1, <1>5, <1>6, <2>1, <2>2 DEF RulesRead
  <2>5. ChecksRead
    BY <1>1, <1>5, <1>6, <2>1 DEF ChecksRead
  <2>6. QED
    BY <2>3, <2>4, <2>5 DEF WorldRead
<1>9. QED
  BY <1>1, <1>3, <1>4, <1>8 DEF ReadInv, WorldRead

\* Every step keeps both.
LEMMA StatedStep ==
  ASSUME TablesGoOn, LoadTypeOK, LoadInv, ReadInv, LoadsWhatIsStated, LoadTypeOK', LoadInv',
         [LoadNext]_loadVars
  PROVE  ReadInv' /\ LoadsWhatIsStated'
<1>1. CASE UNCHANGED loadVars
  <2>1. UNCHANGED <<token, limits, entries, facts, rules, checks, used, block, phase, msg, query,
                    at, trust, made, cur, tests, given, pc, status>>
    BY <1>1 DEF loadVars, poolVars, placeVars, clauseVars
  <2>2. WorldFacts' = WorldFacts /\ WorldRules' = WorldRules /\ WorldChecks' = WorldChecks
    BY <2>1, WorldSame
  <2>3. LoadsWhatIsStated'
    BY <2>1, <2>2 DEF LoadsWhatIsStated
  <2>4. CASE pc = "stopped"
    BY <2>1, <2>3, <2>4 DEF ReadInv
  <2>5. CASE pc # "stopped"
    <3>1. ClauseRead'
      <4>1. Here' = Here /\ From' = From /\ CurrentClause' = CurrentClause
            /\ \A n : PredicateAt(n)' = PredicateAt(n)
        BY <2>1, SameClause
      <4>2. Wanted' = Wanted /\ NextTest' = NextTest
        BY <2>1, <4>1 DEF Wanted, NextTest
      <4>3. ClauseRead
        BY <2>5 DEF ReadInv
      <4>4. QED
        BY <2>1, <4>1, <4>2, <4>3 DEF ClauseRead, InClause, PredicatesRead, TestsRead, ReadSoFar
    <3>2. InCheck' <=> InCheck
      BY <2>1 DEF InCheck, InClause
    <3>3. entries' \in Seq(Text) /\ IsPrefix(entries, entries')
      BY <2>1, PrefixItself DEF LoadTypeOK
    <3>4. QED
      BY <2>1, <2>3, <2>5, <3>1, <3>2, <3>3, TurnKept
  <2>6. QED
    BY <2>4, <2>5
<1>2. CASE LoadStep /\ pc' = "stopped"
  BY <1>2, StoppedIsStated DEF ReadInv
<1>3. CASE LoadStep /\ pc' # "stopped"
  <2>1. ReadInv'
    BY <1>3, ReadStep
  <2>2. QED
    BY <1>3, <2>1, ReadStatedNext
<1>4. QED
  BY <1>1, <1>2, <1>3 DEF LoadNext, Stopped

\* If the tables the host reads each block against go on from those its
\* signer had, then at every moment the world says what the blocks say, each
\* as its signer wrote it, from the first statement on and with nothing
\* added, and a load that succeeds has left nothing out.
THEOREM LoadsStated == TablesGoOn => (LoadSpec => []LoadsWhatIsStated)
<1> SUFFICES ASSUME TablesGoOn PROVE LoadSpec => []LoadsWhatIsStated
  OBVIOUS
<1>1. LoadInit => LoadTypeOK /\ LoadInv /\ ReadInv /\ LoadsWhatIsStated
  <2>1. LoadInit => LoadTypeOK /\ LoadInv /\ ReadInv /\ pc # "stopped"
    BY LoadInvInit, ReadInit DEF LoadInit
  <2>2. QED
    BY <2>1, ReadIsStated
<1>2. /\ LoadTypeOK /\ LoadInv /\ ReadInv /\ LoadsWhatIsStated
      /\ LoadTypeOK' /\ LoadInv' /\ [LoadNext]_loadVars
      => ReadInv' /\ LoadsWhatIsStated'
  BY StatedStep
<1>3. LoadTypeOK /\ LoadInv /\ [LoadNext]_loadVars => (LoadTypeOK /\ LoadInv)'
  BY LoadInvStep
<1>4. QED
  BY <1>1, <1>2, <1>3, PTL DEF LoadSpec

\* The tables this code builds do go on: a host that reads every block
\* against the tables bs_tables_build and bs_tables_build_block give it loads
\* what was stated.
THEOREM ChainLoadsStated ==
  ASSUME \A t \in Tokens : \A b \in 0 .. Len(t) - 1 : Tables(t, b) = BlockTables(t, b)
  PROVE  LoadSpec => []LoadsWhatIsStated
BY ChainTablesGoOn, LoadsStated, PTL

-----------------------------------------------------------------------------
(* Sums.                                                                   *)

\* f[k] is the sum of the first k of ns, up to n.
Sums(ns, n, f) == f = [k \in 0 .. n |-> IF k = 0 THEN 0 ELSE f[k - 1] + ns[k]]

\* The sums up to n give those up to n + 1.
LEMMA SumsOn ==
  ASSUME NEW ns, NEW n \in Nat, NEW f, Sums(ns, n, f)
  PROVE  \E g : Sums(ns, n + 1, g)
<1> DEFINE g == [k \in 0 .. n + 1 |-> IF k = n + 1 THEN f[n] + ns[n + 1] ELSE f[k]]
<1>1. ASSUME NEW k \in 0 .. n + 1
      PROVE  g[k] = IF k = 0 THEN 0 ELSE g[k - 1] + ns[k]
  <2>1. CASE k = n + 1
    <3>1. k - 1 = n /\ n \in 0 .. n + 1 /\ n # n + 1 /\ k # 0
      BY <2>1
    <3>2. g[k] = f[n] + ns[n + 1] /\ g[n] = f[n]
      BY <2>1, <3>1
    <3>3. QED
      BY <2>1, <3>1, <3>2
  <2>2. CASE k # n + 1
    <3>1. k \in 0 .. n /\ g[k] = f[k]
      BY <2>2
    <3>2. f[k] = IF k = 0 THEN 0 ELSE f[k - 1] + ns[k]
      BY <3>1 DEF Sums
    <3>3. k # 0 => g[k - 1] = f[k - 1]
      BY <3>1
    <3>4. QED
      BY <3>1, <3>2, <3>3
  <2>3. QED
    BY <2>1, <2>2
<1>2. g = [k \in 0 .. n + 1 |-> g[k]]
  OBVIOUS
<1> HIDE DEF g
<1>3. g = [k \in 0 .. n + 1 |-> IF k = 0 THEN 0 ELSE g[k - 1] + ns[k]]
  BY <1>1, <1>2
<1>4. QED
  BY <1>3 DEF Sums

\* So there are sums of any number.
LEMMA SumsExist ==
  ASSUME NEW ns, NEW n \in Nat
  PROVE  \E f : Sums(ns, n, f)
<1> DEFINE Off == {m \in Nat : ~\E f : Sums(ns, m, f)}
<1>1. ASSUME Off # {} PROVE FALSE
  <2>1. PICK m \in Off : \A j \in Off : m <= j
    <3>1. Off \in SUBSET Nat
      OBVIOUS
    <3> HIDE DEF Off
    <3>2. QED
      BY <1>1, <3>1, LeastNumber
  <2>2. CASE m = 0
    <3>1. Sums(ns, 0, [k \in 0 .. 0 |-> 0])
      BY DEF Sums
    <3>2. QED
      BY <2>1, <2>2, <3>1
  <2>3. CASE m # 0
    <3>1. m - 1 \in Nat /\ (m - 1) + 1 = m /\ ~(m <= m - 1)
      BY <2>1, <2>3
    <3>2. PICK f : Sums(ns, m - 1, f)
      BY <2>1, <3>1
    <3>3. \E g : Sums(ns, (m - 1) + 1, g)
      BY <3>1, <3>2, SumsOn
    <3>4. QED
      BY <2>1, <3>1, <3>3
  <2>4. QED
    BY <2>2, <2>3
<1>2. QED
  BY <1>1

\* SumTo gives them.
LEMMA SumIs ==
  ASSUME NEW ns, Len(ns) \in Nat
  PROVE  \E f : Sums(ns, Len(ns), f) /\ \A n \in 0 .. Len(ns) : SumTo(ns, n) = f[n]
<1> DEFINE sum == CHOOSE f : f = [k \in 0 .. Len(ns) |-> IF k = 0 THEN 0 ELSE f[k - 1] + ns[k]]
<1>1. \A n \in 0 .. Len(ns) : SumTo(ns, n) = sum[n]
  BY DEF SumTo
<1>2. sum = CHOOSE f : Sums(ns, Len(ns), f)
  BY DEF Sums
<1>3. Sums(ns, Len(ns), CHOOSE f : Sums(ns, Len(ns), f))
  BY SumsExist
<1>4. QED
  BY <1>1, <1>2, <1>3

\* A sum begins with nothing, and goes on by what is added.
LEMMA SumStep ==
  ASSUME NEW ns, Len(ns) \in Nat
  PROVE  /\ SumTo(ns, 0) = 0
         /\ \A n \in 1 .. Len(ns) : SumTo(ns, n) = SumTo(ns, n - 1) + ns[n]
<1>1. PICK f : Sums(ns, Len(ns), f) /\ \A n \in 0 .. Len(ns) : SumTo(ns, n) = f[n]
  BY SumIs
<1>2. \A n \in 0 .. Len(ns) : f[n] = IF n = 0 THEN 0 ELSE f[n - 1] + ns[n]
  BY <1>1 DEF Sums
<1>3. SumTo(ns, 0) = 0
  <2>1. 0 \in 0 .. Len(ns)
    OBVIOUS
  <2>2. QED
    BY <1>1, <1>2, <2>1
<1>4. ASSUME NEW n \in 1 .. Len(ns) PROVE SumTo(ns, n) = SumTo(ns, n - 1) + ns[n]
  <2>1. n \in 0 .. Len(ns) /\ n - 1 \in 0 .. Len(ns) /\ n # 0
    OBVIOUS
  <2>2. QED
    BY <1>1, <1>2, <2>1
<1>5. QED
  BY <1>3, <1>4

\* Of numbers it is a number.
LEMMA SumTyped ==
  ASSUME NEW ns, Len(ns) \in Nat, \A k \in 1 .. Len(ns) : ns[k] \in Nat
  PROVE  \A n \in 0 .. Len(ns) : SumTo(ns, n) \in Nat
<1> DEFINE Off == {n \in 0 .. Len(ns) : SumTo(ns, n) \notin Nat}
<1>1. ASSUME Off # {} PROVE FALSE
  <2>1. PICK m \in Off : \A j \in Off : m <= j
    <3>1. Off \in SUBSET Nat
      OBVIOUS
    <3> HIDE DEF Off
    <3>2. QED
      BY <1>1, <3>1, LeastNumber
  <2>2. m # 0
    BY <2>1, SumStep
  <2>3. m \in 1 .. Len(ns) /\ m - 1 \in 0 .. Len(ns) /\ ~(m <= m - 1)
    BY <2>1, <2>2
  <2>4. SumTo(ns, m - 1) \in Nat /\ ns[m] \in Nat
    BY <2>1, <2>3
  <2>5. SumTo(ns, m) = SumTo(ns, m - 1) + ns[m]
    BY <2>3, SumStep
  <2>6. QED
    BY <2>1, <2>4, <2>5
<1>2. QED
  BY <1>1

\* And none is more than the whole.
LEMMA SumBelow ==
  ASSUME NEW ns, Len(ns) \in Nat, \A k \in 1 .. Len(ns) : ns[k] \in Nat
  PROVE  \A n \in 0 .. Len(ns) : SumTo(ns, n) <= SumOf(ns)
<1> DEFINE Off == {d \in 0 .. Len(ns) : ~(SumTo(ns, Len(ns) - d) <= SumTo(ns, Len(ns)))}
<1>1. ASSUME Off # {} PROVE FALSE
  <2>1. PICK d \in Off : \A j \in Off : d <= j
    <3>1. Off \in SUBSET Nat
      OBVIOUS
    <3> HIDE DEF Off
    <3>2. QED
      BY <1>1, <3>1, LeastNumber
  <2>2. d # 0
    <3>1. Len(ns) - 0 = Len(ns) /\ SumTo(ns, Len(ns)) \in Nat
      BY SumTyped
    <3>2. QED
      BY <2>1, <3>1
  <2>3. /\ d - 1 \in 0 .. Len(ns) /\ ~(d <= d - 1)
        /\ Len(ns) - (d - 1) \in 1 .. Len(ns)
        /\ (Len(ns) - (d - 1)) - 1 = Len(ns) - d /\ Len(ns) - d \in 0 .. Len(ns)
    BY <2>1, <2>2
  <2>4. SumTo(ns, Len(ns) - (d - 1)) <= SumTo(ns, Len(ns))
    BY <2>1, <2>3
  <2>5. SumTo(ns, Len(ns) - (d - 1)) = SumTo(ns, Len(ns) - d) + ns[Len(ns) - (d - 1)]
    BY <2>3, SumStep
  <2>6. ns[Len(ns) - (d - 1)] \in Nat /\ SumTo(ns, Len(ns) - d) \in Nat
        /\ SumTo(ns, Len(ns)) \in Nat
    BY <2>3, SumTyped
  <2>7. QED
    BY <2>1, <2>4, <2>5, <2>6
<1>2. ASSUME NEW n \in 0 .. Len(ns) PROVE SumTo(ns, n) <= SumTo(ns, Len(ns))
  <2>1. Len(ns) - n \in 0 .. Len(ns) /\ Len(ns) - (Len(ns) - n) = n
    OBVIOUS
  <2>2. QED
    BY <1>1, <2>1
<1>3. QED
  BY <1>2 DEF SumOf

\* What the proofs use of sums.
LEMMA SumAlong ==
  ASSUME NEW ns, Len(ns) \in Nat, \A k \in 1 .. Len(ns) : ns[k] \in Nat
  PROVE  /\ SumTo(ns, 0) = 0 /\ SumTo(ns, Len(ns)) = SumOf(ns) /\ SumOf(ns) \in Nat
         /\ \A n \in 0 .. Len(ns) : SumTo(ns, n) \in Nat /\ SumTo(ns, n) <= SumOf(ns)
         /\ \A n \in 1 .. Len(ns) : /\ SumTo(ns, n) = SumTo(ns, n - 1) + ns[n]
                                    /\ SumTo(ns, n - 1) + ns[n] <= SumOf(ns)
<1>1. /\ SumTo(ns, 0) = 0
      /\ \A n \in 1 .. Len(ns) : SumTo(ns, n) = SumTo(ns, n - 1) + ns[n]
  BY SumStep
<1>2. \A n \in 0 .. Len(ns) : SumTo(ns, n) \in Nat /\ SumTo(ns, n) <= SumOf(ns)
  BY SumTyped, SumBelow
<1>3. SumTo(ns, Len(ns)) = SumOf(ns) /\ SumOf(ns) \in Nat
  BY <1>2 DEF SumOf
<1>4. QED
  BY <1>1, <1>2, <1>3

\* As many ones are their number.
LEMMA SumOfOnes ==
  ASSUME NEW ns, Len(ns) \in Nat, \A k \in 1 .. Len(ns) : ns[k] = 1
  PROVE  \A n \in 0 .. Len(ns) : SumTo(ns, n) = n
<1> DEFINE Off == {n \in 0 .. Len(ns) : SumTo(ns, n) # n}
<1>1. ASSUME Off # {} PROVE FALSE
  <2>1. PICK m \in Off : \A j \in Off : m <= j
    <3>1. Off \in SUBSET Nat
      OBVIOUS
    <3> HIDE DEF Off
    <3>2. QED
      BY <1>1, <3>1, LeastNumber
  <2>2. m # 0
    BY <2>1, SumStep
  <2>3. m \in 1 .. Len(ns) /\ m - 1 \in 0 .. Len(ns) /\ ~(m <= m - 1)
    BY <2>1, <2>2
  <2>4. SumTo(ns, m - 1) = m - 1 /\ ns[m] = 1
    BY <2>1, <2>3
  <2>5. SumTo(ns, m) = SumTo(ns, m - 1) + ns[m]
    BY <2>3, SumStep
  <2>6. QED
    BY <2>1, <2>3, <2>4, <2>5
<1>2. QED
  BY <1>1

-----------------------------------------------------------------------------
(* What statements take.                                                   *)

\* One number for each element.
LEMMA NumbersOver ==
  ASSUME NEW S, NEW s \in Seq(S), NEW f, f = [n \in DOMAIN s |-> f[n]],
         \A n \in DOMAIN s : f[n] \in Nat
  PROVE  /\ Len(f) = Len(s) /\ Len(f) \in Nat
         /\ \A n \in 1 .. Len(f) : f[n] \in Nat
<1>1. DOMAIN s = 1 .. Len(s) /\ Len(s) \in Nat
  BY LenProperties
<1>2. f = [n \in 1 .. Len(s) |-> f[n]] /\ \A n \in 1 .. Len(s) : f[n] \in Nat
  BY <1>1
<1>3. f \in [1 .. Len(s) -> Nat]
  BY <1>2
<1>4. f \in Seq(Nat) /\ Len(f) = Len(s)
  BY <1>1, <1>3, SeqDef, LenProperties
<1>5. QED
  BY <1>1, <1>2, <1>4

\* A fact is a clause that is a head alone.
LEMMA FactAsClause ==
  ASSUME NEW f \in Predicate
  PROVE  AsClause(f) \in Clause
BY DEF AsClause, Clause

\* The fields of a clause.
LEMMA ClauseFields ==
  ASSUME NEW c \in Clause
  PROVE  /\ c.head \in Predicate /\ c.body \in Seq(Predicate) /\ c.expr \in Seq(Test)
         /\ c.scopes \in Seq(Scope)
         /\ Len(c.body) \in Nat /\ DOMAIN c.body = 1 .. Len(c.body)
         /\ Len(c.expr) \in Nat /\ DOMAIN c.expr = 1 .. Len(c.expr)
<1>1. /\ c.head \in Predicate /\ c.body \in Seq(Predicate) /\ c.expr \in Seq(Test)
      /\ c.scopes \in Seq(Scope)
  BY DEF Clause
<1>2. QED
  BY <1>1, LenProperties

\* The predicates of a clause, the head first, and their terms.
LEMMA TermTakesTyped ==
  ASSUME NEW c \in Clause
  PROVE  /\ Len(TermTakes(c)) = Len(c.body) + 1
         /\ \A n \in 1 .. Len(c.body) + 1 :
              /\ TermTakes(c)[n] = Len((IF n = 1 THEN c.head ELSE c.body[n - 1]).terms)
              /\ TermTakes(c)[n] \in Nat
<1>1. /\ c.head \in Predicate /\ Len(c.body) \in Nat
      /\ \A n \in 1 .. Len(c.body) : c.body[n] \in Predicate
  BY ClauseFields, ElementOfSeq
<1>2. ASSUME NEW n \in 1 .. Len(c.body) + 1
      PROVE  Len((IF n = 1 THEN c.head ELSE c.body[n - 1]).terms) \in Nat
  <2>1. (IF n = 1 THEN c.head ELSE c.body[n - 1]) \in Predicate
    BY <1>1
  <2>2. \A q \in Predicate : Len(q.terms) \in Nat
    <3>1. \A q \in Predicate : q.terms \in Seq(Term)
      BY DEF Predicate
    <3>2. QED
      BY <3>1, LenProperties
  <2>3. QED
    BY <2>1, <2>2
<1>3. \A n \in 1 .. Len(c.body) + 1 :
         TermTakes(c)[n] = Len((IF n = 1 THEN c.head ELSE c.body[n - 1]).terms)
  BY <1>1 DEF TermTakes
<1>4. TermTakes(c) \in [1 .. Len(c.body) + 1 -> Nat]
  BY <1>2 DEF TermTakes
<1>5. Len(TermTakes(c)) = Len(c.body) + 1
  <2>1. Len(c.body) + 1 \in Nat
    BY <1>1
  <2>2. TermTakes(c) \in Seq(Nat)
    BY <1>4, <2>1, SeqDef
  <2>3. QED
    BY <1>4, <2>1, <2>2, LenProperties
<1>6. QED
  BY <1>2, <1>3, <1>5

\* What a clause takes is a number.
LEMMA PoolTakeTyped ==
  ASSUME NEW c \in Clause, NEW p \in Pools
  PROVE  PoolTake(p, c) \in Nat
<1>1. Len(c.body) \in Nat /\ Len(c.expr) \in Nat
  BY ClauseFields
<1>2. SumOf(TermTakes(c)) \in Nat
  BY <1>1, TermTakesTyped, SumAlong
<1>3. QED
  BY <1>1, <1>2 DEF PoolTake, Pools

\* So is what any statement takes.
LEMMA StatementTakes ==
  ASSUME NEW p \in Resources
  PROVE  /\ \A f \in Predicate : FactTake(p, f) \in Nat
         /\ \A c \in Clause : ClauseTake(p, c) \in Nat
<1>1. ASSUME NEW f \in Predicate PROVE FactTake(p, f) \in Nat
  BY FactAsClause, PoolTakeTyped DEF FactTake
<1>2. ASSUME NEW c \in Clause PROVE ClauseTake(p, c) \in Nat
  BY PoolTakeTyped DEF ClauseTake
<1>3. QED
  BY <1>1, <1>2

\* The queries of a check.
LEMMA QueryTakesTyped ==
  ASSUME NEW p \in Resources, NEW c \in CheckMessage
  PROVE  /\ Len(QueryTakes(p, c)) = Len(c.queries) /\ Len(c.queries) \in Nat
         /\ \A n \in 1 .. Len(c.queries) :
              QueryTakes(p, c)[n] = ClauseTake(p, c.queries[n]) /\ QueryTakes(p, c)[n] \in Nat
         /\ SumOf(QueryTakes(p, c)) \in Nat /\ CheckTake(p, c) \in Nat
         /\ p = "rules" => SumOf(QueryTakes(p, c)) = Len(c.queries)
<1>1. c.queries \in Seq(Clause) /\ Len(c.queries) \in Nat /\ DOMAIN c.queries = 1 .. Len(c.queries)
  <2>1. c.queries \in Seq(Clause)
    BY DEF CheckMessage
  <2>2. QED
    BY <2>1, LenProperties
<1>2. /\ QueryTakes(p, c) = [n \in DOMAIN c.queries |-> QueryTakes(p, c)[n]]
      /\ \A n \in DOMAIN c.queries : QueryTakes(p, c)[n] = ClauseTake(p, c.queries[n])
  BY DEF QueryTakes
<1>3. \A n \in DOMAIN c.queries : QueryTakes(p, c)[n] \in Nat
  BY <1>1, <1>2, ElementOfSeq, StatementTakes
<1>4. /\ Len(QueryTakes(p, c)) = Len(c.queries)
      /\ \A n \in 1 .. Len(c.queries) : QueryTakes(p, c)[n] \in Nat
  BY <1>1, <1>2, <1>3, NumbersOver
<1>5. SumOf(QueryTakes(p, c)) \in Nat
  BY <1>1, <1>4, SumAlong
<1>6. CheckTake(p, c) \in Nat
  BY <1>5 DEF CheckTake
<1>7. p = "rules" => SumOf(QueryTakes(p, c)) = Len(c.queries)
  <2>1. SUFFICES ASSUME p = "rules" PROVE SumTo(QueryTakes(p, c), Len(QueryTakes(p, c))) = Len(c.queries)
    BY DEF SumOf
  <2>2. \A n \in 1 .. Len(c.queries) : QueryTakes(p, c)[n] = 1
    BY <1>1, <1>2, <2>1 DEF ClauseTake, Pools
  <2>3. QED
    BY <1>1, <1>4, <2>2, SumOfOnes
<1>8. QED
  BY <1>1, <1>2, <1>4, <1>5, <1>6, <1>7

\* The statements of a block.
LEMMA MessageTakes ==
  ASSUME NEW p \in Resources, NEW m \in Message
  PROVE  /\ Len(FactTakes(p, m)) = Len(m.facts) /\ Len(m.facts) \in Nat
         /\ \A n \in 1 .. Len(m.facts) :
              FactTakes(p, m)[n] = FactTake(p, m.facts[n]) /\ FactTakes(p, m)[n] \in Nat
         /\ Len(RuleTakes(p, m)) = Len(m.rules) /\ Len(m.rules) \in Nat
         /\ \A n \in 1 .. Len(m.rules) :
              RuleTakes(p, m)[n] = ClauseTake(p, m.rules[n]) /\ RuleTakes(p, m)[n] \in Nat
         /\ Len(CheckTakes(p, m)) = Len(m.checks) /\ Len(m.checks) \in Nat
         /\ \A n \in 1 .. Len(m.checks) :
              CheckTakes(p, m)[n] = CheckTake(p, m.checks[n]) /\ CheckTakes(p, m)[n] \in Nat
<1>1. m.facts \in Seq(Predicate) /\ m.rules \in Seq(Clause) /\ m.checks \in Seq(CheckMessage)
  BY MessageFields
<1>2. /\ Len(m.facts) \in Nat /\ DOMAIN m.facts = 1 .. Len(m.facts)
      /\ Len(m.rules) \in Nat /\ DOMAIN m.rules = 1 .. Len(m.rules)
      /\ Len(m.checks) \in Nat /\ DOMAIN m.checks = 1 .. Len(m.checks)
  BY <1>1, LenProperties
<1>3. /\ FactTakes(p, m) = [n \in DOMAIN m.facts |-> FactTakes(p, m)[n]]
      /\ RuleTakes(p, m) = [n \in DOMAIN m.rules |-> RuleTakes(p, m)[n]]
      /\ CheckTakes(p, m) = [n \in DOMAIN m.checks |-> CheckTakes(p, m)[n]]
      /\ \A n \in DOMAIN m.facts : FactTakes(p, m)[n] = FactTake(p, m.facts[n])
      /\ \A n \in DOMAIN m.rules : RuleTakes(p, m)[n] = ClauseTake(p, m.rules[n])
      /\ \A n \in DOMAIN m.checks : CheckTakes(p, m)[n] = CheckTake(p, m.checks[n])
  BY DEF FactTakes, RuleTakes, CheckTakes
<1>4. ASSUME NEW n \in DOMAIN m.facts PROVE FactTakes(p, m)[n] \in Nat
  <2>1. m.facts[n] \in Predicate
    BY <1>1, <1>2, ElementOfSeq
  <2>2. FactTake(p, m.facts[n]) \in Nat
    BY <2>1, StatementTakes
  <2>3. QED
    BY <1>3, <2>2
<1>5. ASSUME NEW n \in DOMAIN m.rules PROVE RuleTakes(p, m)[n] \in Nat
  <2>1. m.rules[n] \in Clause
    BY <1>1, <1>2, ElementOfSeq
  <2>2. ClauseTake(p, m.rules[n]) \in Nat
    BY <2>1, StatementTakes
  <2>3. QED
    BY <1>3, <2>2
<1>6. ASSUME NEW n \in DOMAIN m.checks PROVE CheckTakes(p, m)[n] \in Nat
  <2>1. m.checks[n] \in CheckMessage
    BY <1>1, <1>2, ElementOfSeq
  <2>2. CheckTake(p, m.checks[n]) \in Nat
    BY <2>1, QueryTakesTyped
  <2>3. QED
    BY <1>3, <2>2
<1>7. Len(FactTakes(p, m)) = Len(m.facts)
  BY <1>1, <1>3, <1>4, NumbersOver
<1>8. Len(RuleTakes(p, m)) = Len(m.rules)
  BY <1>1, <1>3, <1>5, NumbersOver
<1>9. Len(CheckTakes(p, m)) = Len(m.checks)
  BY <1>1, <1>3, <1>6, NumbersOver
<1>10. QED
  BY <1>2, <1>3, <1>4, <1>5, <1>6, <1>7, <1>8, <1>9

\* And the sums over them.
LEMMA MessageSums ==
  ASSUME NEW p \in Resources, NEW m \in Message
  PROVE  /\ SumOf(FactTakes(p, m)) \in Nat /\ SumOf(RuleTakes(p, m)) \in Nat
         /\ SumOf(CheckTakes(p, m)) \in Nat
BY MessageTakes, SumAlong

\* The blocks of a token.
LEMMA TokenTakes ==
  ASSUME NEW p \in Resources, NEW t \in Seq(Message)
  PROVE  /\ Len(FactsTake(p, t)) = Len(t) /\ Len(LogicTake(p, t)) = Len(t) /\ Len(t) \in Nat
         /\ \A i \in 1 .. Len(t) :
              /\ FactsTake(p, t)[i] = SumOf(FactTakes(p, t[i])) /\ FactsTake(p, t)[i] \in Nat
              /\ LogicTake(p, t)[i] = SumOf(RuleTakes(p, t[i])) + SumOf(CheckTakes(p, t[i]))
              /\ LogicTake(p, t)[i] \in Nat
<1>1. Len(t) \in Nat /\ DOMAIN t = 1 .. Len(t) /\ \A i \in DOMAIN t : t[i] \in Message
  BY LenProperties, ElementOfSeq
<1>2. /\ FactsTake(p, t) = [i \in DOMAIN t |-> FactsTake(p, t)[i]]
      /\ LogicTake(p, t) = [i \in DOMAIN t |-> LogicTake(p, t)[i]]
      /\ \A i \in DOMAIN t :
           /\ FactsTake(p, t)[i] = SumOf(FactTakes(p, t[i]))
           /\ LogicTake(p, t)[i] = SumOf(RuleTakes(p, t[i])) + SumOf(CheckTakes(p, t[i]))
  BY DEF FactsTake, LogicTake
<1>3. \A i \in DOMAIN t : FactsTake(p, t)[i] \in Nat /\ LogicTake(p, t)[i] \in Nat
  BY <1>1, <1>2, MessageSums
<1>4. Len(FactsTake(p, t)) = Len(t)
  BY <1>2, <1>3, NumbersOver
<1>5. Len(LogicTake(p, t)) = Len(t)
  BY <1>2, <1>3, NumbersOver
<1>6. QED
  BY <1>1, <1>2, <1>3, <1>4, <1>5

\* Statement by statement.
LEMMA MessageAlong ==
  ASSUME NEW p \in Resources, NEW m \in Message
  PROVE  /\ SumTo(FactTakes(p, m), 0) = 0 /\ SumTo(RuleTakes(p, m), 0) = 0
         /\ SumTo(CheckTakes(p, m), 0) = 0
         /\ SumTo(FactTakes(p, m), Len(m.facts)) = SumOf(FactTakes(p, m))
         /\ SumTo(RuleTakes(p, m), Len(m.rules)) = SumOf(RuleTakes(p, m))
         /\ SumTo(CheckTakes(p, m), Len(m.checks)) = SumOf(CheckTakes(p, m))
         /\ \A n \in 0 .. Len(m.facts) : SumTo(FactTakes(p, m), n) \in Nat
         /\ \A n \in 0 .. Len(m.rules) : SumTo(RuleTakes(p, m), n) \in Nat
         /\ \A n \in 0 .. Len(m.checks) : SumTo(CheckTakes(p, m), n) \in Nat
         /\ \A n \in 1 .. Len(m.facts) :
              /\ SumTo(FactTakes(p, m), n) = SumTo(FactTakes(p, m), n - 1) + FactTake(p, m.facts[n])
              /\ SumTo(FactTakes(p, m), n) <= SumOf(FactTakes(p, m))
         /\ \A n \in 1 .. Len(m.rules) :
              /\ SumTo(RuleTakes(p, m), n) = SumTo(RuleTakes(p, m), n - 1) + ClauseTake(p, m.rules[n])
              /\ SumTo(RuleTakes(p, m), n) <= SumOf(RuleTakes(p, m))
         /\ \A n \in 1 .. Len(m.checks) :
              /\ SumTo(CheckTakes(p, m), n) = SumTo(CheckTakes(p, m), n - 1) + CheckTake(p, m.checks[n])
              /\ SumTo(CheckTakes(p, m), n) <= SumOf(CheckTakes(p, m))
<1> DEFINE ns == FactTakes(p, m)
           rs == RuleTakes(p, m)
           cs == CheckTakes(p, m)
<1>1. /\ Len(ns) \in Nat /\ Len(ns) = Len(m.facts)
      /\ \A k \in 1 .. Len(ns) : ns[k] \in Nat /\ ns[k] = FactTake(p, m.facts[k])
  BY MessageTakes
<1>2. /\ Len(rs) \in Nat /\ Len(rs) = Len(m.rules)
      /\ \A k \in 1 .. Len(rs) : rs[k] \in Nat /\ rs[k] = ClauseTake(p, m.rules[k])
  BY MessageTakes
<1>3. /\ Len(cs) \in Nat /\ Len(cs) = Len(m.checks)
      /\ \A k \in 1 .. Len(cs) : cs[k] \in Nat /\ cs[k] = CheckTake(p, m.checks[k])
  BY MessageTakes
<1> HIDE DEF ns, rs, cs
<1>4. /\ SumTo(ns, 0) = 0 /\ SumTo(ns, Len(ns)) = SumOf(ns)
      /\ \A n \in 0 .. Len(ns) : SumTo(ns, n) \in Nat
      /\ \A n \in 1 .. Len(ns) : SumTo(ns, n) = SumTo(ns, n - 1) + ns[n] /\ SumTo(ns, n) <= SumOf(ns)
  BY <1>1, SumAlong
<1>5. /\ SumTo(rs, 0) = 0 /\ SumTo(rs, Len(rs)) = SumOf(rs)
      /\ \A n \in 0 .. Len(rs) : SumTo(rs, n) \in Nat
      /\ \A n \in 1 .. Len(rs) : SumTo(rs, n) = SumTo(rs, n - 1) + rs[n] /\ SumTo(rs, n) <= SumOf(rs)
  BY <1>2, SumAlong
<1>6. /\ SumTo(cs, 0) = 0 /\ SumTo(cs, Len(cs)) = SumOf(cs)
      /\ \A n \in 0 .. Len(cs) : SumTo(cs, n) \in Nat
      /\ \A n \in 1 .. Len(cs) : SumTo(cs, n) = SumTo(cs, n - 1) + cs[n] /\ SumTo(cs, n) <= SumOf(cs)
  BY <1>3, SumAlong
<1>7. QED
  BY <1>1, <1>2, <1>3, <1>4, <1>5, <1>6 DEF ns, rs, cs

\* Query by query.
LEMMA QueriesAlong ==
  ASSUME NEW p \in Resources, NEW c \in CheckMessage
  PROVE  /\ SumTo(QueryTakes(p, c), 0) = 0
         /\ SumTo(QueryTakes(p, c), Len(c.queries)) = SumOf(QueryTakes(p, c))
         /\ \A n \in 0 .. Len(c.queries) : SumTo(QueryTakes(p, c), n) \in Nat
         /\ \A n \in 1 .. Len(c.queries) :
              /\ SumTo(QueryTakes(p, c), n)
                 = SumTo(QueryTakes(p, c), n - 1) + ClauseTake(p, c.queries[n])
              /\ SumTo(QueryTakes(p, c), n) <= SumOf(QueryTakes(p, c))
<1> DEFINE ns == QueryTakes(p, c)
<1>1. /\ Len(ns) \in Nat /\ Len(ns) = Len(c.queries)
      /\ \A k \in 1 .. Len(ns) : ns[k] \in Nat /\ ns[k] = ClauseTake(p, c.queries[k])
  BY QueryTakesTyped
<1> HIDE DEF ns
<1>2. /\ SumTo(ns, 0) = 0 /\ SumTo(ns, Len(ns)) = SumOf(ns)
      /\ \A n \in 0 .. Len(ns) : SumTo(ns, n) \in Nat
      /\ \A n \in 1 .. Len(ns) : SumTo(ns, n) = SumTo(ns, n - 1) + ns[n] /\ SumTo(ns, n) <= SumOf(ns)
  BY <1>1, SumAlong
<1>3. QED
  BY <1>1, <1>2 DEF ns

\* Block by block.
LEMMA TokenAlong ==
  ASSUME NEW p \in Resources, NEW t \in Seq(Message)
  PROVE  /\ SumTo(FactsTake(p, t), 0) = 0 /\ SumTo(LogicTake(p, t), 0) = 0
         /\ SumTo(FactsTake(p, t), Len(t)) = SumOf(FactsTake(p, t))
         /\ SumTo(LogicTake(p, t), Len(t)) = SumOf(LogicTake(p, t))
         /\ SumOf(FactsTake(p, t)) \in Nat /\ SumOf(LogicTake(p, t)) \in Nat
         /\ \A n \in 0 .. Len(t) : SumTo(FactsTake(p, t), n) \in Nat /\ SumTo(LogicTake(p, t), n) \in Nat
         /\ \A n \in 1 .. Len(t) :
              /\ SumTo(FactsTake(p, t), n)
                 = SumTo(FactsTake(p, t), n - 1) + SumOf(FactTakes(p, t[n]))
              /\ SumTo(LogicTake(p, t), n)
                 = SumTo(LogicTake(p, t), n - 1) + (SumOf(RuleTakes(p, t[n])) + SumOf(CheckTakes(p, t[n])))
              /\ SumTo(FactsTake(p, t), n) <= SumOf(FactsTake(p, t))
              /\ SumTo(LogicTake(p, t), n) <= SumOf(LogicTake(p, t))
<1> DEFINE ns == FactsTake(p, t)
           rs == LogicTake(p, t)
<1>1. /\ Len(ns) \in Nat /\ Len(ns) = Len(t)
      /\ \A k \in 1 .. Len(ns) : ns[k] \in Nat /\ ns[k] = SumOf(FactTakes(p, t[k]))
  BY TokenTakes
<1>2. /\ Len(rs) \in Nat /\ Len(rs) = Len(t)
      /\ \A k \in 1 .. Len(rs) :
           rs[k] \in Nat /\ rs[k] = SumOf(RuleTakes(p, t[k])) + SumOf(CheckTakes(p, t[k]))
  BY TokenTakes
<1> HIDE DEF ns, rs
<1>3. /\ SumTo(ns, 0) = 0 /\ SumTo(ns, Len(ns)) = SumOf(ns) /\ SumOf(ns) \in Nat
      /\ \A n \in 0 .. Len(ns) : SumTo(ns, n) \in Nat
      /\ \A n \in 1 .. Len(ns) : SumTo(ns, n) = SumTo(ns, n - 1) + ns[n] /\ SumTo(ns, n) <= SumOf(ns)
  BY <1>1, SumAlong
<1>4. /\ SumTo(rs, 0) = 0 /\ SumTo(rs, Len(rs)) = SumOf(rs) /\ SumOf(rs) \in Nat
      /\ \A n \in 0 .. Len(rs) : SumTo(rs, n) \in Nat
      /\ \A n \in 1 .. Len(rs) : SumTo(rs, n) = SumTo(rs, n - 1) + rs[n] /\ SumTo(rs, n) <= SumOf(rs)
  BY <1>2, SumAlong
<1>5. QED
  BY <1>1, <1>2, <1>3, <1>4 DEF ns, rs

\* Where the loops stand: the blocks before this one, and this one.
LEMMA BlockAlong ==
  ASSUME LoadTypeOK, LoadInv, NEW p \in Resources
  PROVE  /\ SumTo(FactsTake(p, token), block) \in Nat /\ SumTo(LogicTake(p, token), block) \in Nat
         /\ SumTo(FactsTake(p, token), 0) = 0 /\ SumTo(LogicTake(p, token), 0) = 0
         /\ SumOf(FactTakes(p, Here)) \in Nat /\ SumOf(RuleTakes(p, Here)) \in Nat
         /\ SumOf(CheckTakes(p, Here)) \in Nat
         /\ SumOf(FactsTake(p, token)) \in Nat /\ SumOf(LogicTake(p, token)) \in Nat
         /\ SumTo(FactsTake(p, token), block + 1)
            = SumTo(FactsTake(p, token), block) + SumOf(FactTakes(p, Here))
         /\ SumTo(LogicTake(p, token), block + 1)
            = SumTo(LogicTake(p, token), block)
              + (SumOf(RuleTakes(p, Here)) + SumOf(CheckTakes(p, Here)))
         /\ SumTo(FactsTake(p, token), block + 1) <= SumOf(FactsTake(p, token))
         /\ SumTo(LogicTake(p, token), block + 1) <= SumOf(LogicTake(p, token))
         /\ block + 1 = Len(token) =>
              /\ SumTo(FactsTake(p, token), block + 1) = SumOf(FactsTake(p, token))
              /\ SumTo(LogicTake(p, token), block + 1) = SumOf(LogicTake(p, token))
<1>1. /\ token \in Seq(Message) /\ block \in Nat /\ block + 1 \in 1 .. Len(token)
      /\ block \in 0 .. Len(token) /\ (block + 1) - 1 = block
      /\ Here \in Message /\ Here = token[block + 1]
  BY AtPlace
<1>2. /\ SumOf(FactTakes(p, Here)) \in Nat /\ SumOf(RuleTakes(p, Here)) \in Nat
      /\ SumOf(CheckTakes(p, Here)) \in Nat
  BY <1>1, MessageSums
<1>3. QED
  BY <1>1, <1>2, TokenAlong

\* Inside a check the loop stands on a check there is.
LEMMA CheckAtHand ==
  ASSUME LoadTypeOK, LoadInv, InCheck
  PROVE  /\ phase = "checks" /\ msg \in 1 .. Len(Here.checks) /\ Here.checks[msg] \in CheckMessage
         /\ InClause => query \in 1 .. Len(Here.checks[msg].queries)
<1>1. phase = "checks" /\ msg \in DOMAIN Here.checks
      /\ (InClause => query \in DOMAIN Here.checks[msg].queries)
  BY DEF InCheck, LoadInv, OnStatement, AtStatement
<1>2. Here.checks \in Seq(CheckMessage) /\ DOMAIN Here.checks = 1 .. Len(Here.checks)
      /\ DOMAIN Here.checks[msg].queries = 1 .. Len(Here.checks[msg].queries)
  BY <1>1, AtPlace
<1>3. Here.checks[msg] \in CheckMessage
  BY <1>1, <1>2, ElementOfSeq
<1>4. QED
  BY <1>1, <1>2, <1>3

\* What the statements before take, and the one at hand with them, is within
\* what the token needs: in the loop over the facts ...
LEMMA FactsNeeded ==
  ASSUME LoadTypeOK, LoadInv, WithinLoops, phase = "facts", NEW p \in Resources
  PROVE  /\ TakenBefore(p) \in Nat
         /\ msg \in DOMAIN Here.facts =>
              TakenBefore(p) + FactTake(p, Here.facts[msg]) <= Needs(p, token)
<1> DEFINE b == SumTo(FactsTake(p, token), block)
           n == SumTo(FactTakes(p, Here), msg - 1)
           f == FactTake(p, Here.facts[msg])
<1>1. /\ msg \in Nat \ {0} /\ msg - 1 \in 0 .. Len(Here.facts) /\ Here \in Message
      /\ DOMAIN Here.facts = 1 .. Len(Here.facts) /\ Len(Here.facts) \in Nat
      /\ Here.facts \in Seq(Predicate)
  BY AtPlace DEF WithinLoops
<1>2. b \in Nat /\ n \in Nat
  BY <1>1, BlockAlong, MessageAlong
<1>3. TakenBefore(p) = b + n
  BY DEF TakenBefore
<1>4. ASSUME msg \in DOMAIN Here.facts PROVE b + n + f <= Needs(p, token)
  <2>1. Here.facts[msg] \in Predicate /\ msg \in 1 .. Len(Here.facts)
    BY <1>1, <1>4, ElementOfSeq
  <2>2. f \in Nat
    BY <2>1, StatementTakes
  <2>3. n + f <= SumOf(FactTakes(p, Here))
    BY <1>1, <2>1, MessageAlong
  <2>4. /\ b + SumOf(FactTakes(p, Here)) <= SumOf(FactsTake(p, token))
        /\ SumOf(FactTakes(p, Here)) \in Nat /\ SumOf(FactsTake(p, token)) \in Nat
        /\ SumOf(LogicTake(p, token)) \in Nat
    BY BlockAlong
  <2> HIDE DEF b, n, f
  <2>5. b + n + f <= SumOf(FactsTake(p, token)) + SumOf(LogicTake(p, token))
    BY <1>2, <2>2, <2>3, <2>4
  <2>6. QED
    BY <2>5 DEF Needs
<1> HIDE DEF b, n, f
<1>5. QED
  BY <1>2, <1>3, <1>4 DEF f

\* ... in the loop over the rules ...
LEMMA RulesNeeded ==
  ASSUME LoadTypeOK, LoadInv, WithinLoops, phase = "rules", NEW p \in Resources
  PROVE  /\ TakenBefore(p) \in Nat
         /\ msg \in DOMAIN Here.rules =>
              TakenBefore(p) + ClauseTake(p, Here.rules[msg]) <= Needs(p, token)
<1> DEFINE a == SumOf(FactsTake(p, token))
           b == SumTo(LogicTake(p, token), block)
           n == SumTo(RuleTakes(p, Here), msg - 1)
           f == ClauseTake(p, Here.rules[msg])
<1>1. /\ msg \in Nat \ {0} /\ msg - 1 \in 0 .. Len(Here.rules) /\ Here \in Message
      /\ DOMAIN Here.rules = 1 .. Len(Here.rules) /\ Len(Here.rules) \in Nat
      /\ Here.rules \in Seq(Clause)
  BY AtPlace DEF WithinLoops
<1>2. a \in Nat /\ b \in Nat /\ n \in Nat
  BY <1>1, BlockAlong, MessageAlong
<1>3. TakenBefore(p) = a + b + n
  BY DEF TakenBefore, RuledSoFar
<1>4. ASSUME msg \in DOMAIN Here.rules PROVE a + b + n + f <= Needs(p, token)
  <2>1. Here.rules[msg] \in Clause /\ msg \in 1 .. Len(Here.rules)
    BY <1>1, <1>4, ElementOfSeq
  <2>2. f \in Nat
    BY <2>1, StatementTakes
  <2>3. n + f <= SumOf(RuleTakes(p, Here))
    BY <1>1, <2>1, MessageAlong
  <2>4. /\ b + (SumOf(RuleTakes(p, Here)) + SumOf(CheckTakes(p, Here))) <= SumOf(LogicTake(p, token))
        /\ SumOf(RuleTakes(p, Here)) \in Nat /\ SumOf(CheckTakes(p, Here)) \in Nat
        /\ SumOf(LogicTake(p, token)) \in Nat
    BY BlockAlong
  <2> HIDE DEF a, b, n, f
  <2>5. a + b + n + f <= a + SumOf(LogicTake(p, token))
    BY <1>2, <2>2, <2>3, <2>4
  <2>6. QED
    BY <2>5 DEF Needs, a
<1> HIDE DEF a, b, n, f
<1>5. QED
  BY <1>2, <1>3, <1>4 DEF f

\* ... between the checks ...
LEMMA ChecksNeeded ==
  ASSUME LoadTypeOK, LoadInv, WithinLoops, phase = "checks", ~InCheck, NEW p \in Resources
  PROVE  /\ TakenBefore(p) \in Nat
         /\ msg \in DOMAIN Here.checks =>
              TakenBefore(p) + CheckTake(p, Here.checks[msg]) <= Needs(p, token)
<1> DEFINE a == SumOf(FactsTake(p, token))
           b == SumTo(LogicTake(p, token), block)
           r == SumOf(RuleTakes(p, Here))
           n == SumTo(CheckTakes(p, Here), msg - 1)
           f == CheckTake(p, Here.checks[msg])
<1>1. /\ msg \in Nat \ {0} /\ msg - 1 \in 0 .. Len(Here.checks) /\ Here \in Message
      /\ DOMAIN Here.checks = 1 .. Len(Here.checks) /\ Len(Here.checks) \in Nat
      /\ Here.checks \in Seq(CheckMessage)
  BY AtPlace DEF WithinLoops
<1>2. a \in Nat /\ b \in Nat /\ n \in Nat /\ r \in Nat
  BY <1>1, BlockAlong, MessageAlong
<1>3. TakenBefore(p) = a + b + (r + n + 0)
  BY DEF TakenBefore, RuledSoFar
<1>4. ASSUME msg \in DOMAIN Here.checks PROVE a + b + (r + n + 0) + f <= Needs(p, token)
  <2>1. Here.checks[msg] \in CheckMessage /\ msg \in 1 .. Len(Here.checks)
    BY <1>1, <1>4, ElementOfSeq
  <2>2. f \in Nat
    BY <2>1, QueryTakesTyped
  <2>3. n + f <= SumOf(CheckTakes(p, Here))
    BY <1>1, <2>1, MessageAlong
  <2>4. /\ b + (r + SumOf(CheckTakes(p, Here))) <= SumOf(LogicTake(p, token))
        /\ SumOf(CheckTakes(p, Here)) \in Nat /\ SumOf(LogicTake(p, token)) \in Nat
    BY BlockAlong
  <2> HIDE DEF a, b, n, f, r
  <2>5. a + b + (r + n + 0) + f <= a + SumOf(LogicTake(p, token))
    BY <1>2, <2>2, <2>3, <2>4
  <2>6. QED
    BY <2>5 DEF Needs, a
<1> HIDE DEF a, b, n, f, r
<1>5. QED
  BY <1>2, <1>3, <1>4 DEF f

\* ... and among the queries of one.
LEMMA QueriesNeeded ==
  ASSUME LoadTypeOK, LoadInv, WithinLoops, InCheck, NEW p \in Resources
  PROVE  /\ TakenBefore(p) \in Nat
         /\ query \in DOMAIN Here.checks[msg].queries =>
              TakenBefore(p) + ClauseTake(p, Here.checks[msg].queries[query]) <= Needs(p, token)
         /\ query > Len(Here.checks[msg].queries) =>
              TakenBefore(p) + (IF p = "checks" THEN 1 ELSE 0) <= Needs(p, token)
<1> DEFINE c == Here.checks[msg]
           a == SumOf(FactsTake(p, token))
           b == SumTo(LogicTake(p, token), block)
           r == SumOf(RuleTakes(p, Here))
           n == SumTo(CheckTakes(p, Here), msg - 1)
           q == SumTo(QueryTakes(p, c), query - 1)
           w == SumOf(QueryTakes(p, c))
           one == IF p = "checks" THEN 1 ELSE 0
           f == ClauseTake(p, c.queries[query])
<1>1. phase = "checks" /\ msg \in 1 .. Len(Here.checks) /\ c \in CheckMessage
  BY CheckAtHand
<1>2. /\ msg - 1 \in 0 .. Len(Here.checks) /\ Here \in Message
      /\ query - 1 \in 0 .. Len(c.queries) /\ Len(c.queries) \in Nat
      /\ query \in Nat \ {0} /\ DOMAIN c.queries = 1 .. Len(c.queries) /\ c.queries \in Seq(Clause)
  <2>1. /\ Here \in Message /\ query \in Nat \ {0} /\ msg \in Nat \ {0} /\ Len(Here.checks) \in Nat
        /\ msg \in DOMAIN Here.checks
    BY <1>1, AtPlace
  <2>2. c.queries \in Seq(Clause) /\ Len(c.queries) \in Nat /\ DOMAIN c.queries = 1 .. Len(c.queries)
    BY <2>1, AtPlace
  <2>3. query - 1 <= Len(c.queries)
    BY DEF WithinLoops
  <2> HIDE DEF c
  <2>4. QED
    BY <1>1, <2>1, <2>2, <2>3
<1>3. a \in Nat /\ b \in Nat /\ n \in Nat /\ r \in Nat
  BY <1>1, <1>2, BlockAlong, MessageAlong
<1>4. q \in Nat /\ w \in Nat /\ q <= w
  <2>1. SumTo(QueryTakes(p, c), Len(c.queries)) = w
    BY <1>1, QueriesAlong
  <2>2. q \in Nat /\ w \in Nat
    BY <1>1, <1>2, QueriesAlong, QueryTakesTyped
  <2>3. CASE query = 1
    <3>1. q = 0
      BY <1>1, <2>3, QueriesAlong
    <3>2. QED
      BY <2>2, <3>1
  <2>4. CASE query # 1
    <3>1. query - 1 \in 1 .. Len(c.queries)
      BY <1>2, <2>4
    <3>2. QED
      BY <1>1, <2>2, <3>1, QueriesAlong
  <2>5. QED
    BY <2>3, <2>4
<1>5. TakenBefore(p) = a + b + (r + n + q)
  BY <1>1 DEF TakenBefore, RuledSoFar
<1>6. a + b + (r + n + (w + one)) <= Needs(p, token)
  <2>1. CheckTake(p, c) = w + one
    BY DEF CheckTake
  <2>2. n + (w + one) <= SumOf(CheckTakes(p, Here))
    BY <1>1, <1>2, <2>1, MessageAlong
  <2>3. /\ b + (r + SumOf(CheckTakes(p, Here))) <= SumOf(LogicTake(p, token))
        /\ SumOf(CheckTakes(p, Here)) \in Nat /\ SumOf(LogicTake(p, token)) \in Nat
    BY BlockAlong
  <2>4. one \in Nat
    OBVIOUS
  <2> HIDE DEF a, b, n, r, w, one
  <2>5. a + b + (r + n + (w + one)) <= a + SumOf(LogicTake(p, token))
    BY <1>3, <1>4, <2>2, <2>3, <2>4
  <2>6. QED
    BY <2>5 DEF Needs, a
<1>7. query \in DOMAIN c.queries => f \in Nat /\ q + f <= w
  <2>1. SUFFICES ASSUME query \in 1 .. Len(c.queries) PROVE f \in Nat /\ q + f <= w
    BY <1>2
  <2>2. c.queries[query] \in Clause
    BY <1>2, <2>1, ElementOfSeq
  <2>3. QED
    BY <1>1, <2>1, <2>2, StatementTakes, QueriesAlong
<1>8. query > Len(c.queries) => q = w
  <2>1. query > Len(c.queries) => query - 1 = Len(c.queries)
    BY <1>2
  <2>2. QED
    BY <1>1, <2>1, QueriesAlong
<1>9. one \in {0, 1} /\ Needs(p, token) \in Nat
  BY BlockAlong DEF Needs
<1> HIDE DEF a, b, n, r, q, w, f, c, one
<1>10. TakenBefore(p) \in Nat
  BY <1>3, <1>4, <1>5
<1>11. query \in DOMAIN c.queries => TakenBefore(p) + f <= Needs(p, token)
  BY <1>3, <1>4, <1>5, <1>6, <1>7, <1>9
<1>12. query > Len(c.queries) => TakenBefore(p) + one <= Needs(p, token)
  BY <1>3, <1>4, <1>5, <1>6, <1>8, <1>9
<1>13. QED
  BY <1>10, <1>11, <1>12 DEF c, f, one

\* What was taken before is a number.
LEMMA BeforeNumber ==
  ASSUME LoadTypeOK, LoadInv, WithinLoops, NEW p \in Resources
  PROVE  TakenBefore(p) \in Nat /\ Needs(p, token) \in Nat
<1>1. CASE phase = "scope"
  <2>1. TakenBefore(p) = SumOf(FactsTake(p, token)) + SumTo(LogicTake(p, token), block) + 0
    BY <1>1 DEF TakenBefore, RuledSoFar
  <2>2. QED
    BY <2>1, BlockAlong DEF Needs
<1>2. CASE phase # "scope"
  <2>1. phase \in {"facts", "rules", "checks"}
    BY <1>2 DEF LoadTypeOK
  <2>2. TakenBefore(p) \in Nat
    BY <2>1, FactsNeeded, RulesNeeded, ChecksNeeded, QueriesNeeded
  <2>3. QED
    BY <2>2, BlockAlong DEF Needs
<1>3. QED
  BY <1>1, <1>2

-----------------------------------------------------------------------------
(* What the turns of a clause take.                                        *)

\* The clause at hand, in numbers.
LEMMA HereTyped ==
  ASSUME LoadTypeOK, LoadInv, ClauseRead, InClause
  PROVE  /\ CurrentClause \in Clause
         /\ Len(CurrentClause.body) \in Nat /\ Len(CurrentClause.expr) \in Nat
         /\ Len(made) \in Nat /\ Len(made) <= Len(CurrentClause.body) + 1
         /\ (made = <<>> <=> Len(made) = 0)
         /\ Len(tests) \in Nat /\ Len(tests) <= Len(CurrentClause.expr)
         /\ (given = <<>> <=> Len(given) = 0)
         /\ (given # <<>> => Len(given) = 1 /\ pc \in {"value", "operand"})
         /\ SumTo(TermTakes(CurrentClause), 0) = 0
         /\ SumTo(TermTakes(CurrentClause), Len(CurrentClause.body) + 1)
            = SumOf(TermTakes(CurrentClause))
         /\ SumTo(TermTakes(CurrentClause), Len(made)) \in Nat
         /\ SumTo(TermTakes(CurrentClause), Len(made)) <= SumOf(TermTakes(CurrentClause))
         /\ SumOf(TermTakes(CurrentClause)) \in Nat
<1>1. CurrentClause \in Clause
  BY ClauseTyped
<1>2. Len(CurrentClause.body) \in Nat /\ Len(CurrentClause.expr) \in Nat
  BY <1>1, ClauseFields
<1>3. /\ Len(made) \in Nat /\ (made = <<>> <=> Len(made) = 0)
      /\ Len(tests) \in Nat /\ (given = <<>> <=> Len(given) = 0)
  BY LenProperties, EmptySeq DEF LoadTypeOK
<1>4. /\ Len(made) <= Len(CurrentClause.body) + 1 /\ Len(tests) <= Len(CurrentClause.expr)
      /\ (given # <<>> => Len(given) = 1 /\ pc \in {"value", "operand"})
  BY DEF ClauseRead, PredicatesRead, TestsRead
<1> DEFINE ns == TermTakes(CurrentClause)
<1>5. Len(ns) = Len(CurrentClause.body) + 1 /\ Len(ns) \in Nat /\ \A k \in 1 .. Len(ns) : ns[k] \in Nat
  BY <1>1, <1>2, TermTakesTyped
<1> HIDE DEF ns
<1>6. /\ SumTo(ns, 0) = 0 /\ SumTo(ns, Len(ns)) = SumOf(ns) /\ SumOf(ns) \in Nat
      /\ \A n \in 0 .. Len(ns) : SumTo(ns, n) \in Nat /\ SumTo(ns, n) <= SumOf(ns)
  BY <1>5, SumAlong
<1>7. Len(made) \in 0 .. Len(ns)
  BY <1>2, <1>3, <1>4, <1>5
<1>8. QED
  BY <1>1, <1>2, <1>3, <1>4, <1>5, <1>6, <1>7 DEF ns

\* The terms of the predicate that is read.
LEMMA WantedTakes ==
  ASSUME LoadTypeOK, LoadInv, ClauseRead, pc \in {"name", "room", "terms"}
  PROVE  /\ Len(Wanted.terms) \in Nat
         /\ SumTo(TermTakes(CurrentClause), Len(made) + 1)
            = SumTo(TermTakes(CurrentClause), Len(made)) + Len(Wanted.terms)
         /\ SumTo(TermTakes(CurrentClause), Len(made)) + Len(Wanted.terms)
            <= SumOf(TermTakes(CurrentClause))
<1>1. InClause
  BY DEF InClause
<1>2. /\ CurrentClause \in Clause /\ Len(CurrentClause.body) \in Nat
      /\ Len(made) \in Nat /\ (made = <<>> <=> Len(made) = 0)
      /\ Len(made) <= Len(CurrentClause.body)
  BY <1>1, HereTyped DEF LoadInv, InOrder
<1> DEFINE ns == TermTakes(CurrentClause)
           n == Len(made) + 1
<1>3. Len(ns) = Len(CurrentClause.body) + 1 /\ Len(ns) \in Nat /\ \A k \in 1 .. Len(ns) : ns[k] \in Nat
  BY <1>2, TermTakesTyped
<1>4. n \in 1 .. Len(ns) /\ n - 1 = Len(made)
  BY <1>2, <1>3
<1>5. ns[n] = Len(Wanted.terms)
  <2>1. ns[n] = Len((IF n = 1 THEN CurrentClause.head ELSE CurrentClause.body[n - 1]).terms)
    BY <1>2, <1>3, <1>4, TermTakesTyped
  <2>2. n = 1 <=> made = <<>>
    BY <1>2
  <2>3. QED
    BY <1>4, <2>1, <2>2 DEF Wanted
<1>6. Len(Wanted.terms) \in Nat
  BY <1>3, <1>4, <1>5
<1> HIDE DEF ns, n
<1>7. SumTo(ns, n) = SumTo(ns, n - 1) + ns[n] /\ SumTo(ns, n - 1) + ns[n] <= SumOf(ns)
  BY <1>3, <1>4, SumAlong
<1>8. QED
  BY <1>4, <1>5, <1>6, <1>7 DEF ns, n

\* What is reserved is there to be reserved: with it no more is taken than
\* the clause takes in all.
LEMMA DemandNeeded ==
  ASSUME LoadTypeOK, LoadInv, ClauseRead, Reserving
  PROVE  /\ Demand.pool \in Pools /\ Demand.n \in Nat
         /\ TakenHere(Demand.pool) \in Nat
         /\ TakenHere(Demand.pool) + Demand.n <= PoolTake(Demand.pool, CurrentClause)
<1>1. InClause /\ pc \in {"room", "body", "exprs", "ops", "value"}
  BY DEF Reserving, InClause
<1>2. /\ Len(CurrentClause.body) \in Nat /\ Len(CurrentClause.expr) \in Nat
      /\ Len(tests) \in Nat /\ Len(tests) <= Len(CurrentClause.expr)
      /\ (given = <<>> <=> Len(given) = 0)
      /\ (given # <<>> => Len(given) = 1 /\ pc \in {"value", "operand"})
      /\ SumTo(TermTakes(CurrentClause), Len(made)) \in Nat
      /\ SumTo(TermTakes(CurrentClause), Len(made)) <= SumOf(TermTakes(CurrentClause))
      /\ SumOf(TermTakes(CurrentClause)) \in Nat
  BY <1>1, HereTyped
<1>3. CASE pc = "room"
  <2>1. Demand.pool = "terms" /\ Demand.n = Len(Wanted.terms)
    BY <1>3 DEF Demand
  <2>2. tests = <<>> /\ given = <<>>
    BY <1>1, <1>2, <1>3 DEF ClauseRead, ReadSoFar
  <2>3. TakenHere("terms") = SumTo(TermTakes(CurrentClause), Len(made)) + 0 + 2 * 0 + 0 + 0
    BY <1>2, <1>3, <2>2, EmptySeq DEF TakenHere
  <2>4. QED
    BY <1>2, <1>3, <2>1, <2>3, WantedTakes DEF PoolTake, Pools
<1>4. CASE pc = "body"
  <2>1. Demand.pool = "preds" /\ Demand.n = Len(CurrentClause.body)
    BY <1>4 DEF Demand
  <2>2. QED
    BY <1>2, <1>4, <2>1 DEF TakenHere, PoolTake, Pools
<1>5. CASE pc = "exprs"
  <2>1. Demand.pool = "exprs" /\ Demand.n = Len(CurrentClause.expr)
    BY <1>5 DEF Demand
  <2>2. QED
    BY <1>2, <1>5, <2>1 DEF TakenHere, PoolTake, Pools
<1>6. CASE pc = "ops"
  <2>1. Demand.pool = "ops" /\ Demand.n = 3
    BY <1>6 DEF Demand
  <2>2. Len(tests) < Len(CurrentClause.expr)
    BY <1>6 DEF LoadInv, InOrder
  <2>3. TakenHere("ops") = 3 * Len(tests)
    BY <1>2, <1>6 DEF TakenHere
  <2>4. QED
    BY <1>2, <2>1, <2>2, <2>3 DEF PoolTake, Pools
<1>7. CASE pc = "value"
  <2>1. Demand.pool = "terms" /\ Demand.n = 1
    BY <1>7 DEF Demand
  <2>2. Len(tests) < Len(CurrentClause.expr)
    BY <1>7 DEF LoadInv, InOrder
  <2>3. TakenHere("terms") = SumTo(TermTakes(CurrentClause), Len(made)) + 0 + 2 * Len(tests) + Len(given) + 0
    BY <1>7 DEF TakenHere
  <2>4. Len(given) \in 0 .. 1
    BY <1>2
  <2>5. PoolTake("terms", CurrentClause) = SumOf(TermTakes(CurrentClause)) + 2 * Len(CurrentClause.expr)
    BY DEF PoolTake
  <2>6. TakenHere("terms") \in Nat /\ TakenHere("terms") + 1 <= PoolTake("terms", CurrentClause)
    <3> DEFINE s == SumTo(TermTakes(CurrentClause), Len(made))
               w == SumOf(TermTakes(CurrentClause))
               k == Len(tests)
               e == Len(CurrentClause.expr)
               g == Len(given)
    <3>1. s \in Nat /\ w \in Nat /\ k \in Nat /\ e \in Nat /\ g \in 0 .. 1 /\ s <= w /\ k < e
      BY <1>2, <2>2, <2>4
    <3>2. TakenHere("terms") = s + 0 + 2 * k + g + 0 /\ PoolTake("terms", CurrentClause) = w + 2 * e
      BY <2>3, <2>5
    <3> HIDE DEF s, w, k, e, g
    <3>3. QED
      BY <3>1, <3>2
  <2>7. QED
    BY <2>1, <2>6 DEF Pools
<1>8. QED
  BY <1>1, <1>3, <1>4, <1>5, <1>6, <1>7

\* When a clause is placed, it has taken what it takes.
LEMMA AllTaken ==
  ASSUME LoadTypeOK, LoadInv, ClauseRead, pc = "place", NEW p \in Pools
  PROVE  TakenHere(p) = PoolTake(p, CurrentClause)
<1>1. InClause
  BY DEF InClause
<1>2. /\ Len(CurrentClause.body) \in Nat /\ Len(CurrentClause.expr) \in Nat
      /\ Len(made) \in Nat /\ (made = <<>> <=> Len(made) = 0)
      /\ Len(given) = 0
      /\ SumTo(TermTakes(CurrentClause), Len(CurrentClause.body) + 1)
            = SumOf(TermTakes(CurrentClause))
      /\ SumOf(TermTakes(CurrentClause)) \in Nat
  BY <1>1, HereTyped
<1>3. Len(made) = Len(CurrentClause.body) + 1 /\ Len(tests) = Len(CurrentClause.expr)
  BY <1>1 DEF ClauseRead, ReadSoFar
<1>4. made # <<>>
  BY <1>2, <1>3
<1>5. QED
  BY <1>2, <1>3, <1>4 DEF TakenHere, PoolTake, Pools

\* What is taken here is a number.
LEMMA HereNumber ==
  ASSUME LoadTypeOK, LoadInv, ClauseRead, InClause, NEW p \in Pools
  PROVE  TakenHere(p) \in Nat
<1>1. /\ Len(CurrentClause.body) \in Nat /\ Len(CurrentClause.expr) \in Nat
      /\ Len(tests) \in Nat /\ SumTo(TermTakes(CurrentClause), Len(made)) \in Nat
  BY HereTyped
<1>2. Len(given) \in Nat
  BY HereTyped
<1>3. pc = "terms" => Len(Wanted.terms) \in Nat
  BY WantedTakes
<1>4. CASE p = "terms"
  BY <1>1, <1>2, <1>3, <1>4 DEF TakenHere
<1>5. CASE p \in {"preds", "exprs", "ops"}
  BY <1>1, <1>5 DEF TakenHere
<1>6. QED
  BY <1>4, <1>5 DEF Pools

\* Turns that reserve nothing take nothing.
LEMMA SymbolTakes ==
  ASSUME LoadTypeOK, LoadInv, ClauseRead, ReadName \/ ReadTerm, NEW p \in Pools
  PROVE  TakenHere(p)' = TakenHere(p)
<1>1. /\ UNCHANGED <<token, block, phase, msg, query, made, tests, given>>
      /\ pc \in {"name", "terms"} /\ (pc = "name" => pc' = "room") /\ (pc = "terms" => pc' = "terms")
  BY DEF ReadName, ReadTerm, placeVars
<1>2. CurrentClause' = CurrentClause
  BY <1>1, SameClause
<1>3. Wanted' = Wanted
  BY <1>1, <1>2 DEF Wanted
<1>4. p \in {"terms", "preds", "exprs", "ops"}
  BY DEF Pools
<1>5. QED
  BY <1>1, <1>2, <1>3, <1>4 DEF TakenHere

\* A turn that only looks ahead takes nothing.
LEMMA MovesTake ==
  ASSUME LoadTypeOK, LoadInv, ClauseRead, NextPredicate \/ NextExpression, NEW p \in Pools
  PROVE  TakenHere(p)' = TakenHere(p)
<1>1. /\ UNCHANGED <<token, block, phase, msg, query, made, tests, given>>
      /\ \/ pc = "preds" /\ pc' \in {"name", "exprs"}
         \/ pc = "tests" /\ pc' \in {"ops", "place"}
  BY DEF NextPredicate, NextExpression, placeVars, clauseVars
<1>2. CurrentClause' = CurrentClause
  BY <1>1, SameClause
<1>3. p \in {"terms", "preds", "exprs", "ops"}
  BY DEF Pools
<1>4. QED
  BY <1>1, <1>2, <1>3 DEF TakenHere

\* What a predicate takes was taken when it was begun.
LEMMA PredicateTakes ==
  ASSUME LoadTypeOK, LoadInv, ClauseRead, PredicateDone, NEW p \in Pools
  PROVE  TakenHere(p)' = TakenHere(p)
<1>1. /\ UNCHANGED <<token, block, phase, msg, query, tests, given>>
      /\ pc = "terms" /\ made' = Append(made, cur)
      /\ pc' = IF phase = "facts" THEN "place" ELSE IF made = <<>> THEN "body" ELSE "preds"
  BY DEF PredicateDone, placeVars
<1>2. CurrentClause' = CurrentClause
  BY <1>1, SameClause
<1>3. /\ Len(made) \in Nat /\ (made = <<>> <=> Len(made) = 0)
      /\ SumTo(TermTakes(CurrentClause), Len(made)) \in Nat
      /\ Len(tests) \in Nat /\ given = <<>> /\ Len(given) = 0
  BY <1>1, HereTyped DEF InClause
<1>4. Len(made') = Len(made) + 1 /\ made' # <<>>
  <2>1. made \in Seq(Predicate) /\ cur \in Predicate
    BY DEF LoadTypeOK
  <2>2. QED
    BY <1>1, <2>1, AppendedLast, EmptySeq
<1>5. /\ Len(Wanted.terms) \in Nat
      /\ SumTo(TermTakes(CurrentClause), Len(made) + 1)
         = SumTo(TermTakes(CurrentClause), Len(made)) + Len(Wanted.terms)
  BY <1>1, WantedTakes
<1>6. phase = "facts" => CurrentClause.body = <<>> /\ CurrentClause.expr = <<>>
  BY DEF CurrentClause
<1>7. CASE p = "terms"
  BY <1>1, <1>2, <1>3, <1>4, <1>5, <1>7 DEF TakenHere
<1>8. CASE p = "preds"
  <2>1. Len(<<>>) = 0
    BY EmptySeq
  <2>2. QED
    BY <1>1, <1>2, <1>4, <1>6, <1>8, <2>1 DEF TakenHere
<1>9. CASE p = "exprs"
  <2>1. Len(<<>>) = 0
    BY EmptySeq
  <2>2. QED
    BY <1>1, <1>2, <1>4, <1>6, <1>9, <2>1 DEF TakenHere
<1>10. CASE p = "ops"
  BY <1>1, <1>10 DEF TakenHere
<1>11. QED
  BY <1>7, <1>8, <1>9, <1>10 DEF Pools

\* So was what an operand takes.
LEMMA OperandTakes ==
  ASSUME LoadTypeOK, LoadInv, ClauseRead, ReadOperand, NEW p \in Pools
  PROVE  TakenHere(p)' = TakenHere(p)
<1> DEFINE t == IF given = <<>> THEN NextTest.left ELSE NextTest.right
           loaded == [kind |-> t.kind, sym |-> Number]
           test == [op |-> NextTest.op, left |-> given[1], right |-> loaded]
<1>1. /\ UNCHANGED <<token, block, phase, msg, query, made>> /\ pc = "operand"
      /\ IF given = <<>> THEN given' = <<loaded>> /\ pc' = "value" /\ tests' = tests
         ELSE tests' = Append(tests, test) /\ given' = <<>> /\ pc' = "tests"
  BY DEF ReadOperand, placeVars
<1> HIDE DEF loaded, test
<1>2. CurrentClause' = CurrentClause
  BY <1>1, SameClause
<1>3. /\ Len(tests) \in Nat /\ (given = <<>> <=> Len(given) = 0) /\ (given # <<>> => Len(given) = 1)
      /\ SumTo(TermTakes(CurrentClause), Len(made)) \in Nat
  BY <1>1, HereTyped DEF InClause
<1>4. CASE given = <<>>
  <2>1. given' = <<loaded>> /\ pc' = "value" /\ tests' = tests /\ Len(given) = 0 /\ Len(given') = 1
    <3>1. Len(<<loaded>>) = 1
      OBVIOUS
    <3>2. QED
      BY <1>1, <1>3, <1>4, <3>1
  <2>2. p \in {"terms", "preds", "exprs", "ops"}
    BY DEF Pools
  <2>3. QED
    BY <1>1, <1>2, <1>3, <2>1, <2>2 DEF TakenHere
<1>5. CASE given # <<>>
  <2>1. given' = <<>> /\ pc' = "tests" /\ Len(given) = 1 /\ Len(given') = 0
        /\ Len(tests') = Len(tests) + 1
    <3>1. tests \in Seq(Test)
      BY DEF LoadTypeOK
    <3>2. Len(Append(tests, test)) = Len(tests) + 1
      BY <3>1
    <3>3. QED
      BY <1>1, <1>3, <1>5, <3>2, EmptySeq
  <2>2. 2 * (Len(tests) + 1) = 2 * Len(tests) + 2 /\ 3 * (Len(tests) + 1) = 3 * Len(tests) + 3
    BY <1>3
  <2>3. CASE p = "terms"
    <3>1. TakenHere(p) = SumTo(TermTakes(CurrentClause), Len(made)) + 0 + 2 * Len(tests) + 1 + 1
      BY <1>1, <2>1, <2>3 DEF TakenHere
    <3>2. TakenHere(p)' = SumTo(TermTakes(CurrentClause), Len(made)) + 0 + 2 * (Len(tests) + 1) + 0 + 0
      BY <1>1, <1>2, <2>1, <2>3 DEF TakenHere
    <3>3. QED
      BY <1>3, <2>2, <3>1, <3>2
  <2>4. CASE p = "ops"
    BY <1>1, <1>3, <2>1, <2>2, <2>4 DEF TakenHere
  <2>5. CASE p \in {"preds", "exprs"}
    BY <1>1, <1>2, <2>1, <2>5 DEF TakenHere
  <2>6. QED
    BY <2>3, <2>4, <2>5 DEF Pools
<1>6. QED
  BY <1>4, <1>5

\* A turn that reserves takes what it reserves.
LEMMA ReserveTakes ==
  ASSUME LoadTypeOK, LoadInv, ClauseRead, Reserve, NEW p \in Pools
  PROVE  TakenHere(p)' = TakenHere(p) + IF p = Demand.pool THEN Demand.n ELSE 0
<1>1. /\ UNCHANGED <<token, block, phase, msg, query, made, tests, given, cur>>
      /\ Reserving /\ pc' = Demand.then
  BY DEF Reserve, placeVars, clauseVars
<1>2. CurrentClause' = CurrentClause
  BY <1>1, SameClause
<1>3. Wanted' = Wanted
  BY <1>1, <1>2 DEF Wanted
<1>4. InClause /\ pc \in {"room", "body", "exprs", "ops", "value"}
  BY <1>1 DEF Reserving, InClause
<1>5. /\ Len(CurrentClause.body) \in Nat /\ Len(CurrentClause.expr) \in Nat
      /\ Len(tests) \in Nat /\ (given = <<>> <=> Len(given) = 0)
      /\ (given # <<>> => Len(given) = 1 /\ pc \in {"value", "operand"})
      /\ SumTo(TermTakes(CurrentClause), Len(made)) \in Nat
  BY <1>4, HereTyped
<1>6. Len(given) \in Nat
  BY <1>5
<1>7. pc \notin {"name", "room", "terms"} => made # <<>>
  BY <1>4 DEF LoadInv, InOrder
<1>8. p \in {"terms", "preds", "exprs", "ops"}
  BY DEF Pools
<1>9. CASE pc = "room"
  <2>1. Demand.pool = "terms" /\ Demand.n = Len(Wanted.terms) /\ pc' = "terms"
    BY <1>1, <1>9 DEF Demand
  <2>2. Len(Wanted.terms) \in Nat
    BY <1>9, WantedTakes
  <2>3. CASE p = "terms"
    BY <1>1, <1>2, <1>3, <1>5, <1>6, <1>9, <2>1, <2>2, <2>3 DEF TakenHere
  <2>4. CASE p # "terms"
    BY <1>1, <1>2, <1>5, <1>8, <1>9, <2>1, <2>4 DEF TakenHere
  <2>5. QED
    BY <2>3, <2>4
<1>10. CASE pc = "body"
  <2>1. Demand.pool = "preds" /\ Demand.n = Len(CurrentClause.body) /\ pc' = "preds"
    BY <1>1, <1>10 DEF Demand
  <2>2. CASE p = "preds"
    BY <1>1, <1>2, <1>5, <1>7, <1>10, <2>1, <2>2 DEF TakenHere
  <2>3. CASE p # "preds"
    BY <1>1, <1>2, <1>5, <1>6, <1>8, <1>10, <2>1, <2>3 DEF TakenHere
  <2>4. QED
    BY <2>2, <2>3
<1>11. CASE pc = "exprs"
  <2>1. Demand.pool = "exprs" /\ Demand.n = Len(CurrentClause.expr) /\ pc' = "tests"
    BY <1>1, <1>11 DEF Demand
  <2>2. CASE p = "exprs"
    BY <1>1, <1>2, <1>5, <1>11, <2>1, <2>2 DEF TakenHere
  <2>3. CASE p # "exprs"
    BY <1>1, <1>2, <1>5, <1>6, <1>8, <1>11, <2>1, <2>3 DEF TakenHere
  <2>4. QED
    BY <2>2, <2>3
<1>12. CASE pc = "ops"
  <2>1. Demand.pool = "ops" /\ Demand.n = 3 /\ pc' = "value"
    BY <1>1, <1>12 DEF Demand
  <2>2. CASE p = "ops"
    <3>1. TakenHere(p) = 3 * (Len(tests) + 0) /\ TakenHere(p)' = 3 * (Len(tests) + 1)
      BY <1>1, <1>12, <2>1, <2>2 DEF TakenHere
    <3>2. QED
      BY <1>5, <2>1, <2>2, <3>1
  <2>3. CASE p # "ops"
    BY <1>1, <1>2, <1>5, <1>6, <1>8, <1>12, <2>1, <2>3 DEF TakenHere
  <2>4. QED
    BY <2>2, <2>3
<1>13. CASE pc = "value"
  <2>1. Demand.pool = "terms" /\ Demand.n = 1 /\ pc' = "operand"
    BY <1>1, <1>13 DEF Demand
  <2>2. CASE p = "terms"
    BY <1>1, <1>2, <1>5, <1>6, <1>13, <2>1, <2>2 DEF TakenHere
  <2>3. CASE p # "terms"
    BY <1>1, <1>2, <1>5, <1>6, <1>8, <1>13, <2>1, <2>3 DEF TakenHere
  <2>4. QED
    BY <2>2, <2>3
<1>14. QED
  BY <1>4, <1>9, <1>10, <1>11, <1>12, <1>13

\* A clause that is opened has taken nothing yet.
LEMMA OpenTakes ==
  ASSUME LoadTypeOK, LoadInv, AtStatement, OpenClause,
         UNCHANGED <<token, block, phase, msg, query>>, NEW p \in Pools
  PROVE  TakenHere(p)' = 0
<1>1. made' = <<>> /\ tests' = <<>> /\ given' = <<>> /\ pc' = "name"
  BY DEF OpenClause
<1>2. SumTo(TermTakes(CurrentClause'), 0) = 0
  <2>1. CurrentClause' = CurrentClause /\ CurrentClause \in Clause
    BY SameClause, ClauseTyped
  <2>2. Len(TermTakes(CurrentClause)) \in Nat
    BY <2>1, TermTakesTyped, ClauseFields
  <2>3. QED
    BY <2>1, <2>2, SumStep
<1>3. Len(<<>>) = 0
  BY EmptySeq
<1>4. p \in {"terms", "preds", "exprs", "ops"}
  BY DEF Pools
<1>5. QED
  BY <1>1, <1>2, <1>3, <1>4 DEF TakenHere

-----------------------------------------------------------------------------
(* The accounts are kept.                                                  *)

\* As long as the loops stand, so does what they have gone past.
LEMMA BeforeSame ==
  ASSUME InCheck' <=> InCheck, UNCHANGED <<token, block, phase, msg, query>>
  PROVE  \A p : TakenBefore(p)' = TakenBefore(p)
BY DEF TakenBefore, RuledSoFar, Here

\* What a turn takes is accounted for.
LEMMA AccountsTurn ==
  ASSUME LoadTypeOK, LoadInv, ClauseRead, WithinLoops, Accounted,
         \/ ReadName \/ ReadTerm \/ ReadOperand
         \/ Reserve \/ PredicateDone \/ NextPredicate \/ NextExpression
  PROVE  Accounted'
<1>1. /\ UNCHANGED <<token, block, phase, msg, query, facts, rules, checks>>
      /\ pc \notin {"next", "query", "stopped"} /\ pc' \notin {"next", "query", "stopped"}
      /\ used' = used \/ Reserve
  BY DEF ReadName, ReadTerm, ReadOperand, Reserve, PredicateDone, NextPredicate, NextExpression,
         poolVars, placeVars, Reserving, Demand
<1>2. InClause /\ InClause' /\ (InCheck' <=> InCheck)
  BY <1>1 DEF InClause, InCheck
<1>3. \A p : TakenBefore(p)' = TakenBefore(p)
  BY <1>1, <1>2, BeforeSame
<1>4. ASSUME NEW p \in Resources
      PROVE  Taken(p)' = TakenBefore(p)' + (IF InClause' /\ p \in Pools THEN TakenHere(p)' ELSE 0)
  <2>1. Taken(p) = TakenBefore(p) + (IF p \in Pools THEN TakenHere(p) ELSE 0)
    BY <1>2 DEF Accounted
  <2>2. CASE p \notin Pools
    <3>1. Taken(p)' = Taken(p)
      BY <1>1, <2>2 DEF Taken, Resources
    <3>2. QED
      BY <1>3, <2>1, <2>2, <3>1
  <2>3. CASE p \in Pools /\ ~Reserve
    <3>1. Taken(p)' = Taken(p)
      BY <1>1, <2>3 DEF Taken
    <3>2. TakenHere(p)' = TakenHere(p)
      BY <2>3, SymbolTakes, MovesTake, PredicateTakes, OperandTakes
    <3>3. QED
      BY <1>2, <1>3, <2>1, <2>3, <3>1, <3>2
  <2>4. CASE p \in Pools /\ Reserve
    <3>1. TakenHere(p)' = TakenHere(p) + IF p = Demand.pool THEN Demand.n ELSE 0
      BY <2>4, ReserveTakes
    <3>2. Taken(p)' = Taken(p) + IF p = Demand.pool THEN Demand.n ELSE 0
      <4>1. used \in [Pools -> Nat] /\ used' = [used EXCEPT ![Demand.pool] = @ + Demand.n]
        BY <2>4 DEF Reserve, LoadTypeOK
      <4>2. QED
        BY <2>4, <4>1 DEF Taken
    <3>3. Demand.n \in Nat /\ TakenHere(p) \in Nat /\ TakenBefore(p) \in Nat
      <4>1. Reserving
        BY <2>4 DEF Reserve
      <4>2. QED
        BY <1>2, <2>4, <4>1, DemandNeeded, HereNumber, BeforeNumber
    <3> DEFINE d == IF p = Demand.pool THEN Demand.n ELSE 0
    <3>4. d \in Nat
      BY <3>3
    <3> HIDE DEF d
    <3>5. Taken(p)' = TakenBefore(p) + (TakenHere(p) + d)
      BY <2>1, <2>4, <3>2, <3>3, <3>4 DEF d
    <3>6. QED
      BY <1>2, <1>3, <2>4, <3>1, <3>5 DEF d
  <2>5. QED
    BY <2>2, <2>3, <2>4
<1>5. QED
  BY <1>4 DEF Accounted

\* A clause is opened at a statement there is.
LEMMA OpensAtStatement ==
  ASSUME LoadTypeOK, LoadInv, NextFact \/ NextRule \/ NextQuery
  PROVE  AtStatement
<1>1. /\ msg \in Nat \ {0} /\ query \in Nat \ {0}
      /\ Len(Here.facts) \in Nat /\ DOMAIN Here.facts = 1 .. Len(Here.facts)
      /\ Len(Here.rules) \in Nat /\ DOMAIN Here.rules = 1 .. Len(Here.rules)
  BY PlaceNumbers
<1>2. CASE NextFact
  BY <1>1, <1>2 DEF NextFact, AtStatement
<1>3. CASE NextRule
  BY <1>1, <1>3 DEF NextRule, AtStatement
<1>4. CASE NextQuery
  <2>1. phase = "checks" /\ msg \in DOMAIN Here.checks
    BY <1>4 DEF NextQuery, LoadInv, OnStatement
  <2>2. DOMAIN Here.checks[msg].queries = 1 .. Len(Here.checks[msg].queries)
        /\ Len(Here.checks[msg].queries) \in Nat
    BY <2>1, PlaceNumbers, QueryPlaces
  <2>3. query \in DOMAIN Here.checks[msg].queries
    BY <1>1, <1>4, <2>2 DEF NextQuery
  <2>4. QED
    BY <2>1, <2>3 DEF AtStatement
<1>5. QED
  BY <1>2, <1>3, <1>4

\* A clause is opened with the accounts as they are.
LEMMA AccountsOpen ==
  ASSUME LoadTypeOK, LoadInv, WithinLoops, Accounted, pc' # "stopped",
         NextFact \/ NextRule \/ NextQuery
  PROVE  Accounted'
<1>1. /\ pc \in {"next", "query"} /\ OpenClause
      /\ UNCHANGED <<token, block, phase, msg, query, facts, rules, checks, used>>
      /\ (phase = "checks" => pc = "query")
  BY DEF NextFact, NextRule, NextQuery, Refuse, poolVars, placeVars, LoadInv, OnStatement
<1>2. ~InClause /\ InClause' /\ (InCheck' <=> InCheck)
  BY <1>1 DEF InClause, InCheck, OpenClause
<1>3. AtStatement
  BY <1>1, OpensAtStatement
<1>4. ASSUME NEW p \in Resources
      PROVE  Taken(p)' = TakenBefore(p)' + (IF InClause' /\ p \in Pools THEN TakenHere(p)' ELSE 0)
  <2>1. Taken(p) = TakenBefore(p) + 0
    BY <1>2 DEF Accounted
  <2>2. Taken(p)' = Taken(p)
    BY <1>1 DEF Taken
  <2>3. TakenBefore(p)' = TakenBefore(p)
    BY <1>1, <1>2, BeforeSame
  <2>4. p \in Pools => TakenHere(p)' = 0
    BY <1>1, <1>3, OpenTakes
  <2>5. QED
    BY <2>1, <2>2, <2>3, <2>4
<1>5. QED
  BY <1>4 DEF Accounted

\* A statement that is placed has taken what it takes.
LEMMA FactAccounted ==
  ASSUME LoadTypeOK, LoadInv, ClauseRead, WithinLoops, Accounted, PlaceFact
  PROVE  Accounted'
<1>1. /\ UNCHANGED <<token, block, phase, rules, checks, used>>
      /\ pc = "place" /\ phase = "facts" /\ msg' = msg + 1 /\ pc' = "next" /\ InClause /\ ~InClause'
  BY DEF PlaceFact, InClause
<1>2. /\ msg \in 1 .. Len(Here.facts) /\ Here \in Message /\ (msg + 1) - 1 = msg
      /\ Here.facts[msg] \in Predicate
  <2>1. msg \in DOMAIN Here.facts
    BY <1>1 DEF LoadInv, OnStatement, AtStatement
  <2>2. QED
    BY <2>1, AtPlace, ElementOfSeq
<1>3. Here' = Here
  BY <1>1 DEF Here
<1>4. facts \in Seq(Fact) /\ Len(facts') = Len(facts) + 1 /\ Len(facts) \in Nat
  <2>1. facts \in Seq(Fact)
    BY DEF LoadTypeOK
  <2> DEFINE f == [name |-> made[1].name, terms |-> made[1].terms, origin |-> {block}]
  <2>2. facts' = Append(facts, f)
    BY DEF PlaceFact
  <2> HIDE DEF f
  <2>3. QED
    BY <2>1, <2>2, LenProperties
<1>5. ASSUME NEW p \in Resources PROVE Taken(p)' = TakenBefore(p)' + 0
  <2> DEFINE b == SumTo(FactsTake(p, token), block)
             n == SumTo(FactTakes(p, Here), msg - 1)
             f == FactTake(p, Here.facts[msg])
  <2>1. b \in Nat /\ n \in Nat /\ f \in Nat
    <3>1. msg - 1 \in 0 .. Len(Here.facts)
      BY <1>2
    <3>2. QED
      BY <1>2, <3>1, BlockAlong, MessageAlong, StatementTakes
  <2>2. TakenBefore(p) = b + n
    BY <1>1 DEF TakenBefore
  <2>3. TakenBefore(p)' = b + (n + f)
    <3>1. TakenBefore(p)' = b + SumTo(FactTakes(p, Here), msg)
      BY <1>1, <1>2, <1>3 DEF TakenBefore
    <3>2. SumTo(FactTakes(p, Here), msg) = n + f
      BY <1>2, MessageAlong
    <3>3. QED
      BY <3>1, <3>2
  <2> HIDE DEF b, n, f
  <2>4. CASE p \in Pools
    <3>1. TakenHere(p) = f
      <4>1. CurrentClause = AsClause(Here.facts[msg])
        BY <1>1 DEF CurrentClause, AsClause
      <4>2. QED
        BY <1>1, <2>4, <4>1, AllTaken DEF f, FactTake
    <3>2. Taken(p) = TakenBefore(p) + TakenHere(p)
      BY <1>1, <2>4 DEF Accounted
    <3>3. Taken(p)' = Taken(p)
      BY <1>1, <2>4 DEF Taken
    <3>4. QED
      BY <2>1, <2>2, <2>3, <3>1, <3>2, <3>3
  <2>5. CASE p \notin Pools
    <3>1. Taken(p) = TakenBefore(p) + 0
      BY <2>5 DEF Accounted
    <3>2. Taken(p)' = Taken(p) + f
      BY <1>1, <1>4, <2>5 DEF Taken, Resources, f, FactTake, Pools
    <3>3. QED
      BY <2>1, <2>2, <2>3, <3>1, <3>2
  <2>6. QED
    BY <2>4, <2>5
<1>6. QED
  BY <1>1, <1>5 DEF Accounted

\* So does a rule, ...
LEMMA RuleAccounted ==
  ASSUME LoadTypeOK, LoadInv, ClauseRead, WithinLoops, Accounted, PlaceRule
  PROVE  Accounted'
<1>1. /\ UNCHANGED <<token, block, phase, facts, checks, used>>
      /\ pc = "place" /\ phase = "rules" /\ msg' = msg + 1 /\ pc' = "next" /\ InClause /\ ~InClause'
      /\ rules' = Append(rules, Loaded(FALSE))
  BY DEF PlaceRule, InClause
<1>2. /\ msg \in 1 .. Len(Here.rules) /\ Here \in Message /\ (msg + 1) - 1 = msg
      /\ Here.rules[msg] \in Clause
  <2>1. msg \in DOMAIN Here.rules
    BY <1>1 DEF LoadInv, OnStatement, AtStatement
  <2>2. QED
    BY <2>1, AtPlace, ElementOfSeq
<1>3. Here' = Here
  BY <1>1 DEF Here
<1>4. Len(rules') = Len(rules) + 1 /\ Len(rules) \in Nat
  <2>1. rules \in Seq(Rule)
    BY DEF LoadTypeOK
  <2>2. QED
    BY <1>1, <2>1, LenProperties
<1>5. ASSUME NEW p \in Resources PROVE Taken(p)' = TakenBefore(p)' + 0
  <2> DEFINE a == SumOf(FactsTake(p, token))
             b == SumTo(LogicTake(p, token), block)
             n == SumTo(RuleTakes(p, Here), msg - 1)
             f == ClauseTake(p, Here.rules[msg])
  <2>1. a \in Nat /\ b \in Nat /\ n \in Nat /\ f \in Nat
    <3>1. msg - 1 \in 0 .. Len(Here.rules)
      BY <1>2
    <3>2. QED
      BY <1>2, <3>1, BlockAlong, MessageAlong, StatementTakes
  <2>2. TakenBefore(p) = a + b + n
    BY <1>1 DEF TakenBefore, RuledSoFar
  <2>3. TakenBefore(p)' = a + b + (n + f)
    <3>1. TakenBefore(p)' = a + b + SumTo(RuleTakes(p, Here), msg)
      BY <1>1, <1>2, <1>3 DEF TakenBefore, RuledSoFar
    <3>2. SumTo(RuleTakes(p, Here), msg) = n + f
      BY <1>2, MessageAlong
    <3>3. QED
      BY <3>1, <3>2
  <2> HIDE DEF a, b, n, f
  <2>4. CASE p \in Pools
    <3>1. TakenHere(p) = f
      <4>1. CurrentClause = Here.rules[msg]
        BY <1>1 DEF CurrentClause
      <4>2. QED
        BY <1>1, <2>4, <4>1, AllTaken DEF f, ClauseTake
    <3>2. Taken(p) = TakenBefore(p) + TakenHere(p)
      BY <1>1, <2>4 DEF Accounted
    <3>3. Taken(p)' = Taken(p)
      BY <1>1, <2>4 DEF Taken
    <3>4. QED
      BY <2>1, <2>2, <2>3, <3>1, <3>2, <3>3
  <2>5. CASE p \notin Pools
    <3>1. Taken(p) = TakenBefore(p) + 0
      BY <2>5 DEF Accounted
    <3>2. Taken(p)' = Taken(p) + f
      <4>1. Taken("facts") \in Nat /\ Taken("checks") \in Nat
        BY LenProperties DEF Taken, Pools, LoadTypeOK
      <4>2. QED
        BY <1>1, <1>4, <2>5, <4>1 DEF Taken, Resources, f, ClauseTake, Pools
    <3>3. QED
      BY <2>1, <2>2, <2>3, <3>1, <3>2
  <2>6. QED
    BY <2>4, <2>5
<1>6. QED
  BY <1>1, <1>5 DEF Accounted

\* ... and a query of a check.
LEMMA QueryAccounted ==
  ASSUME LoadTypeOK, LoadInv, ClauseRead, WithinLoops, Accounted, PlaceQuery
  PROVE  Accounted'
<1>1. /\ UNCHANGED <<token, block, phase, msg, facts, checks, used>>
      /\ pc = "place" /\ phase = "checks" /\ query' = query + 1 /\ pc' = "query"
      /\ InClause /\ ~InClause' /\ InCheck /\ InCheck'
      /\ rules' = Append(rules, Loaded(TRUE))
  BY DEF PlaceQuery, InClause, InCheck
<1>2. /\ msg - 1 \in 0 .. Len(Here.checks) /\ Here \in Message
      /\ Here.checks[msg] \in CheckMessage /\ query \in 1 .. Len(Here.checks[msg].queries)
      /\ Here.checks[msg].queries \in Seq(Clause) /\ (query + 1) - 1 = query
      /\ Here.checks[msg].queries[query] \in Clause
  <2>1. /\ msg \in 1 .. Len(Here.checks) /\ Here.checks[msg] \in CheckMessage
        /\ query \in 1 .. Len(Here.checks[msg].queries)
    BY <1>1, CheckAtHand
  <2>2. QED
    BY <2>1, AtPlace, ElementOfSeq
<1>3. Here' = Here
  BY <1>1 DEF Here
<1>4. Len(rules') = Len(rules) + 1 /\ Len(rules) \in Nat
  <2>1. rules \in Seq(Rule)
    BY DEF LoadTypeOK
  <2>2. QED
    BY <1>1, <2>1, LenProperties
<1>5. ASSUME NEW p \in Resources PROVE Taken(p)' = TakenBefore(p)' + 0
  <2> DEFINE a == SumOf(FactsTake(p, token))
             b == SumTo(LogicTake(p, token), block)
             r == SumOf(RuleTakes(p, Here))
             n == SumTo(CheckTakes(p, Here), msg - 1)
             q == SumTo(QueryTakes(p, Here.checks[msg]), query - 1)
             f == ClauseTake(p, Here.checks[msg].queries[query])
  <2>1. a \in Nat /\ b \in Nat /\ n \in Nat /\ f \in Nat /\ q \in Nat /\ r \in Nat
    <3>1. query - 1 \in 0 .. Len(Here.checks[msg].queries)
      BY <1>2
    <3>2. q \in Nat
      BY <1>2, <3>1, QueriesAlong
    <3>3. QED
      BY <1>2, <3>2, BlockAlong, MessageAlong, StatementTakes
  <2>2. TakenBefore(p) = a + b + (r + n + q)
    BY <1>1 DEF TakenBefore, RuledSoFar
  <2>3. TakenBefore(p)' = a + b + (r + n + (q + f))
    <3>1. TakenBefore(p)' = a + b + (r + n + SumTo(QueryTakes(p, Here.checks[msg]), query))
      BY <1>1, <1>2, <1>3 DEF TakenBefore, RuledSoFar
    <3>2. SumTo(QueryTakes(p, Here.checks[msg]), query) = q + f
      BY <1>2, QueriesAlong
    <3>3. QED
      BY <3>1, <3>2
  <2> HIDE DEF a, b, n, f, q, r
  <2>4. CASE p \in Pools
    <3>1. TakenHere(p) = f
      <4>1. CurrentClause = Here.checks[msg].queries[query]
        BY <1>1 DEF CurrentClause
      <4>2. QED
        BY <1>1, <2>4, <4>1, AllTaken DEF f, ClauseTake
    <3>2. Taken(p) = TakenBefore(p) + TakenHere(p)
      BY <1>1, <2>4 DEF Accounted
    <3>3. Taken(p)' = Taken(p)
      BY <1>1, <2>4 DEF Taken
    <3>4. QED
      BY <2>1, <2>2, <2>3, <3>1, <3>2, <3>3
  <2>5. CASE p \notin Pools
    <3>1. Taken(p) = TakenBefore(p) + 0
      BY <2>5 DEF Accounted
    <3>2. Taken(p)' = Taken(p) + f
      <4>1. Taken("facts") \in Nat /\ Taken("checks") \in Nat
        BY LenProperties DEF Taken, Pools, LoadTypeOK
      <4>2. QED
        BY <1>1, <1>4, <2>5, <4>1 DEF Taken, Resources, f, ClauseTake, Pools
    <3>3. QED
      BY <2>1, <2>2, <2>3, <3>1, <3>2
  <2>6. QED
    BY <2>4, <2>5
<1>6. QED
  BY <1>1, <1>5 DEF Accounted

\* A check that is placed ends the account of its queries.
LEMMA CheckAccounted ==
  ASSUME LoadTypeOK, LoadInv, WithinLoops, Accounted, PlaceCheck
  PROVE  Accounted'
<1>1. /\ UNCHANGED <<token, block, phase, facts, rules, used>>
      /\ pc = "query" /\ phase = "checks" /\ msg' = msg + 1 /\ pc' = "next"
      /\ ~InClause /\ ~InClause' /\ InCheck /\ ~InCheck'
      /\ query > Len(Here.checks[msg].queries)
  BY DEF PlaceCheck, InClause, InCheck, LoadInv, OnStatement
<1>2. /\ msg \in 1 .. Len(Here.checks) /\ Here \in Message /\ (msg + 1) - 1 = msg
      /\ Here.checks[msg] \in CheckMessage
  <2>1. msg \in 1 .. Len(Here.checks) /\ Here.checks[msg] \in CheckMessage
    BY <1>1, CheckAtHand
  <2>2. QED
    BY <2>1, AtPlace
<1>3. Here' = Here
  BY <1>1 DEF Here
<1>4. Len(checks') = Len(checks) + 1 /\ Len(checks) \in Nat
  <2>1. checks \in Seq(Check)
    BY DEF LoadTypeOK
  <2> DEFINE c == [query_at |-> at, query_count |-> query - 1,
                   kind |-> Here.checks[msg].kind, block |-> block]
  <2>2. checks' = Append(checks, c)
    BY DEF PlaceCheck
  <2> HIDE DEF c
  <2>3. QED
    BY <2>1, <2>2, LenProperties
<1>5. ASSUME NEW p \in Resources PROVE Taken(p)' = TakenBefore(p)' + 0
  <2> DEFINE a == SumOf(FactsTake(p, token))
             b == SumTo(LogicTake(p, token), block)
             r == SumOf(RuleTakes(p, Here))
             n == SumTo(CheckTakes(p, Here), msg - 1)
             w == SumOf(QueryTakes(p, Here.checks[msg]))
             one == IF p = "checks" THEN 1 ELSE 0
  <2>1. a \in Nat /\ b \in Nat /\ n \in Nat /\ w \in Nat /\ r \in Nat
    <3>1. msg - 1 \in 0 .. Len(Here.checks)
      BY <1>2
    <3>2. QED
      BY <1>2, <3>1, BlockAlong, MessageAlong, QueryTakesTyped
  <2>2. TakenBefore(p) = a + b + (r + n + w)
    <3>1. TakenBefore(p) = a + b + (r + n + SumTo(QueryTakes(p, Here.checks[msg]), query - 1))
      BY <1>1 DEF TakenBefore, RuledSoFar
    <3>2. query - 1 = Len(Here.checks[msg].queries)
      <4>1. query \in Nat /\ Len(Here.checks[msg].queries) \in Nat
            /\ query - 1 <= Len(Here.checks[msg].queries)
        BY <1>1, <1>2, AtPlace DEF WithinLoops
      <4>2. QED
        BY <1>1, <4>1
    <3>3. QED
      BY <1>2, <3>1, <3>2, QueriesAlong
  <2>3. TakenBefore(p)' = a + b + (r + (n + (w + one)) + 0)
    <3>1. TakenBefore(p)' = a + b + (r + SumTo(CheckTakes(p, Here), msg) + 0)
      BY <1>1, <1>2, <1>3 DEF TakenBefore, RuledSoFar
    <3>2. SumTo(CheckTakes(p, Here), msg) = n + CheckTake(p, Here.checks[msg])
      BY <1>2, MessageAlong
    <3>3. QED
      BY <3>1, <3>2 DEF CheckTake
  <2>4. Taken(p) = TakenBefore(p) + 0
    BY <1>1 DEF Accounted
  <2>5. Taken(p)' = Taken(p) + one
    <3>1. Taken(p) \in Nat
      BY LenProperties DEF Taken, Resources, Pools, LoadTypeOK
    <3>2. QED
      BY <1>1, <1>4, <3>1 DEF Taken, Resources, Pools
  <2>6. one \in Nat
    OBVIOUS
  <2> HIDE DEF a, b, n, w, r, one
  <2>7. QED
    BY <2>1, <2>2, <2>3, <2>4, <2>5, <2>6
<1>6. QED
  BY <1>1, <1>5 DEF Accounted

\* A loop that ends, and a check that is opened, takes nothing: what came
\* before the next loop is what came before this one and all of this one.
LEMMA LoopsAccounted ==
  ASSUME LoadTypeOK, LoadInv, WithinLoops, Accounted, pc' # "stopped",
         FactsDone \/ BlockTrust \/ RulesDone \/ NextCheck \/ ChecksDone
  PROVE  Accounted'
<1>1. /\ pc = "next" /\ pc' \in {"next", "query"}
      /\ UNCHANGED <<token, facts, rules, checks, used>>
  BY DEF FactsDone, BlockTrust, RulesDone, NextCheck, ChecksDone, Refuse, poolVars
<1>2. ~InClause /\ ~InClause' /\ ~InCheck
  BY <1>1 DEF InClause, InCheck
<1>3. /\ Here \in Message /\ msg \in Nat \ {0} /\ block \in Nat /\ Len(token) \in Nat /\ block < Len(token)
      /\ Len(Here.facts) \in Nat /\ Len(Here.rules) \in Nat /\ Len(Here.checks) \in Nat
  BY AtPlace
<1>4. ASSUME NEW p \in Resources PROVE TakenBefore(p)' = TakenBefore(p)
  <2> DEFINE a == SumOf(FactsTake(p, token))
             b == SumTo(LogicTake(p, token), block)
             f == SumTo(FactsTake(p, token), block)
             hf == SumOf(FactTakes(p, Here))
             hr == SumOf(RuleTakes(p, Here))
             hc == SumOf(CheckTakes(p, Here))
  <2>1. a \in Nat /\ b \in Nat /\ f \in Nat /\ hf \in Nat /\ hr \in Nat /\ hc \in Nat
        /\ SumTo(LogicTake(p, token), 0) = 0
        /\ SumTo(FactsTake(p, token), block + 1) = f + hf
        /\ SumTo(LogicTake(p, token), block + 1) = b + (hr + hc)
        /\ (block + 1 = Len(token) => SumTo(FactsTake(p, token), block + 1) = a)
    BY BlockAlong
  <2>2. ASSUME NEW m \in Message
        PROVE  SumTo(FactTakes(p, m), 0) = 0 /\ SumTo(RuleTakes(p, m), 0) = 0
               /\ SumTo(CheckTakes(p, m), 0) = 0
    BY MessageAlong
  <2>3. /\ SumTo(FactTakes(p, Here), Len(Here.facts)) = hf
        /\ SumTo(RuleTakes(p, Here), Len(Here.rules)) = hr
        /\ SumTo(CheckTakes(p, Here), Len(Here.checks)) = hc
    BY <1>3, MessageAlong
  <2>4. 1 - 1 = 0
    OBVIOUS
  <2> HIDE DEF a, b, f, hf, hr, hc
  <2>5. CASE FactsDone
    <3>1. /\ phase = "facts" /\ msg - 1 = Len(Here.facts) /\ msg' = 1
          /\ IF block + 1 < Len(token) THEN block' = block + 1 /\ phase' = phase
             ELSE block' = 0 /\ phase' = "scope"
      BY <1>3, <2>5 DEF FactsDone, WithinLoops
    <3>2. TakenBefore(p) = f + hf
      BY <2>3, <3>1 DEF TakenBefore, f
    <3>3. CASE block + 1 < Len(token)
      <4>1. block' = block + 1 /\ phase' = "facts" /\ token' = token
        BY <1>1, <3>1, <3>3
      <4>2. Here' = token[(block + 1) + 1] /\ Here' \in Message
        <5>1. block + 1 \in Nat /\ (block + 1) + 1 \in 1 .. Len(token)
          BY <1>3, <3>3
        <5>2. QED
          BY <4>1, <5>1, AtPlace, ElementOfSeq DEF Here
      <4>3. TakenBefore(p)' = SumTo(FactsTake(p, token), block + 1) + SumTo(FactTakes(p, Here'), 0)
        BY <2>4, <3>1, <4>1 DEF TakenBefore
      <4>4. QED
        BY <2>1, <2>2, <3>2, <4>2, <4>3
    <3>4. CASE ~(block + 1 < Len(token))
      <4>1. block' = 0 /\ phase' = "scope" /\ token' = token
        BY <1>1, <3>1, <3>4
      <4>2. TakenBefore(p)' = a + SumTo(LogicTake(p, token), 0) + 0
        BY <4>1 DEF TakenBefore, RuledSoFar, a
      <4>3. block + 1 = Len(token)
        BY <1>3, <3>4
      <4>4. QED
        BY <2>1, <3>2, <4>2, <4>3
    <3>5. QED
      BY <3>3, <3>4
  <2>6. CASE BlockTrust
    <3>1. phase = "scope" /\ phase' = "rules" /\ UNCHANGED <<block, msg>> /\ msg = 1
      BY <2>6 DEF BlockTrust, Refuse, WithinLoops
    <3>2. Here' = Here
      BY <1>1, <3>1 DEF Here
    <3>3. TakenBefore(p) = a + b + 0
      BY <3>1 DEF TakenBefore, RuledSoFar, a, b
    <3>4. TakenBefore(p)' = a + b + SumTo(RuleTakes(p, Here), 0)
      BY <1>1, <2>4, <3>1, <3>2 DEF TakenBefore, RuledSoFar, a, b
    <3>5. QED
      BY <1>3, <2>2, <3>3, <3>4
  <2>7. CASE RulesDone
    <3>1. phase = "rules" /\ phase' = "checks" /\ block' = block /\ msg' = 1 /\ pc' = "next"
          /\ msg - 1 = Len(Here.rules)
      BY <1>3, <2>7 DEF RulesDone, WithinLoops
    <3>2. Here' = Here /\ ~InCheck'
      BY <1>1, <1>2, <3>1 DEF Here, InCheck
    <3>3. TakenBefore(p) = a + b + hr
      BY <2>3, <3>1 DEF TakenBefore, RuledSoFar, a, b
    <3>4. TakenBefore(p)' = a + b + (hr + SumTo(CheckTakes(p, Here), 0) + 0)
      BY <1>1, <2>4, <3>1, <3>2 DEF TakenBefore, RuledSoFar, a, b, hr
    <3>5. QED
      BY <1>3, <2>1, <2>2, <3>3, <3>4
  <2>8. CASE NextCheck
    <3>1. phase = "checks" /\ UNCHANGED <<block, phase, msg>> /\ query' = 1
          /\ msg \in 1 .. Len(Here.checks)
      BY <1>3, <2>8 DEF NextCheck, Refuse
    <3>2. Here' = Here /\ Here.checks[msg] \in CheckMessage
      BY <1>1, <3>1, AtPlace, ElementOfSeq DEF Here
    <3> DEFINE n == SumTo(CheckTakes(p, Here), msg - 1)
               q == SumTo(QueryTakes(p, Here.checks[msg]), 0)
    <3>3. n \in Nat /\ q = 0
      <4>1. msg - 1 \in 0 .. Len(Here.checks)
        BY <3>1
      <4>2. QED
        BY <1>3, <3>2, <4>1, MessageAlong, QueriesAlong
    <3>4. TakenBefore(p) = a + b + (hr + n + 0)
      BY <1>2, <3>1 DEF TakenBefore, RuledSoFar, a, b, hr
    <3>5. TakenBefore(p)' = a + b + (hr + n + IF InCheck' THEN q ELSE 0)
      BY <1>1, <2>4, <3>1, <3>2 DEF TakenBefore, RuledSoFar, a, b, hr
    <3> HIDE DEF n, q
    <3>6. QED
      BY <3>3, <3>4, <3>5
  <2>9. CASE ChecksDone
    <3>1. /\ phase = "checks" /\ msg - 1 = Len(Here.checks) /\ msg' = 1
          /\ block' = block + 1 /\ phase' = "scope" /\ block + 1 < Len(token)
      BY <1>3, <2>9 DEF ChecksDone, Refuse, WithinLoops
    <3>2. TakenBefore(p) = a + b + (hr + hc + 0)
      BY <1>2, <2>3, <3>1 DEF TakenBefore, RuledSoFar, a, b, hr
    <3>3. TakenBefore(p)' = a + SumTo(LogicTake(p, token), block + 1) + 0
      BY <1>1, <3>1 DEF TakenBefore, RuledSoFar, a
    <3>4. QED
      BY <2>1, <3>2, <3>3
  <2>10. QED
    BY <2>5, <2>6, <2>7, <2>8, <2>9
<1>5. ASSUME NEW p \in Resources PROVE Taken(p)' = TakenBefore(p)' + 0
  <2>1. Taken(p)' = Taken(p)
    BY <1>1 DEF Taken
  <2>2. Taken(p) = TakenBefore(p) + 0
    BY <1>2 DEF Accounted
  <2>3. QED
    BY <1>4, <2>1, <2>2
<1>6. QED
  BY <1>2, <1>5 DEF Accounted

\* A turn within a clause, or that opens one, leaves the loops where they are.
LEMMA TurnWithin ==
  ASSUME LoadTypeOK, LoadInv, WithinLoops, pc' # "stopped",
         \/ ReadName \/ ReadTerm \/ ReadOperand
         \/ Reserve \/ PredicateDone \/ NextPredicate \/ NextExpression
         \/ NextFact \/ NextRule \/ NextQuery
  PROVE  status' = status /\ WithinLoops'
<1>1. /\ UNCHANGED <<token, block, phase, msg, query>> /\ status' = status
      /\ InCheck' => InCheck
  <2>1. CASE \/ ReadName \/ ReadTerm \/ ReadOperand
             \/ Reserve \/ PredicateDone \/ NextPredicate \/ NextExpression
    <3>1. /\ UNCHANGED <<token, block, phase, msg, query>> /\ status' = status
          /\ pc \notin {"next", "query", "stopped"}
      BY <2>1 DEF ReadName, ReadTerm, ReadOperand, Reserve, PredicateDone, NextPredicate,
                  NextExpression, placeVars, Reserving
    <3>2. QED
      BY <3>1 DEF InCheck, InClause
  <2>2. CASE NextFact \/ NextRule \/ NextQuery
    <3>1. /\ UNCHANGED <<token, block, phase, msg, query>> /\ status' = status
          /\ phase = "checks" => pc = "query"
      BY <2>2 DEF NextFact, NextRule, NextQuery, Refuse, placeVars, LoadInv, OnStatement
    <3>2. QED
      BY <3>1 DEF InCheck
  <2>3. QED
    BY <2>1, <2>2
<1>2. Here' = Here
  BY <1>1 DEF Here
<1>3. QED
  BY <1>1, <1>2 DEF WithinLoops

\* While it runs, the clause at hand is read as it should be and the loops
\* are within their bounds.
LEMMA WithinStep ==
  ASSUME LoadTypeOK, LoadInv, ClauseRead, WithinLoops, LoadStep, pc' # "stopped"
  PROVE  status' = status /\ ClauseRead' /\ WithinLoops'
<1>1. CASE \/ ReadName \/ ReadTerm \/ ReadOperand
           \/ Reserve \/ PredicateDone \/ NextPredicate \/ NextExpression
  BY <1>1, TurnWithin, NameSays, TermSays, OperandSays, PredicateSays, TurnSays
<1>2. CASE NextFact \/ NextRule \/ NextQuery
  <2>1. OpenClause /\ UNCHANGED <<token, block, phase, msg, query>>
    BY <1>2 DEF NextFact, NextRule, NextQuery, Refuse, placeVars
  <2>2. QED
    BY <1>2, <2>1, TurnWithin, OpensAtStatement, OpenSays
<1>3. CASE PlaceFact \/ PlaceRule \/ PlaceQuery \/ PlaceCheck
  BY <1>3, PlacedWithin
<1>4. CASE FactsDone \/ BlockTrust \/ RulesDone \/ NextCheck \/ ChecksDone
  BY <1>4, MovedWithin
<1>5. ~(Unnamed \/ NoSymbolRoom \/ PoolFull \/ BadScope \/ UnboundRule \/ NoCheckRoom)
  BY DEF Unnamed, NoSymbolRoom, PoolFull, BadScope, UnboundRule, NoCheckRoom, Refuse
<1>6. QED
  BY <1>1, <1>2, <1>3, <1>4, <1>5 DEF LoadStep

\* And the accounts are kept.
LEMMA AccountsStep ==
  ASSUME LoadTypeOK, LoadInv, ClauseRead, WithinLoops, Accounted, LoadStep, pc' # "stopped"
  PROVE  Accounted'
<1>1. ~(Unnamed \/ NoSymbolRoom \/ PoolFull \/ BadScope \/ UnboundRule \/ NoCheckRoom)
  BY DEF Unnamed, NoSymbolRoom, PoolFull, BadScope, UnboundRule, NoCheckRoom, Refuse
<1>2. QED
  BY <1>1, AccountsTurn, AccountsOpen, FactAccounted, RuleAccounted, QueryAccounted,
     CheckAccounted, LoopsAccounted DEF LoadStep

-----------------------------------------------------------------------------
(* What is read has names, and the names have numbers.                     *)

\* What a number of the table spells as another does in its own has a name
\* there, and the table knows it.
LEMMA SpelledBack ==
  ASSUME NEW table \in Seq(Text), NEW from \in Seq(Text), NEW i \in Nat, NEW j \in Nat,
         CanName(table, j), Spelled(table, j) = Spelled(from, i)
  PROVE  CanName(from, i) /\ Known(table, TextOf(from, i))
<1>1. Spelled(table, j) = <<TextOf(table, j)>>
  BY DEF Spelled
<1>2. CanName(from, i)
  BY <1>1 DEF Spelled
<1>3. <<TextOf(table, j)>> = <<TextOf(from, i)>>
  BY <1>1, <1>2 DEF Spelled
<1>4. TextOf(table, j) = TextOf(from, i)
  BY <1>3
<1>5. Known(table, TextOf(table, j))
  <2>1. CASE j < Len(WellKnown)
    <3>1. j + 1 \in DOMAIN WellKnown /\ j < Offset /\ TextOf(table, j) = WellKnown[j + 1]
      BY <2>1, LenProperties DEF TextOf
    <3>2. QED
      BY <3>1 DEF Known, ToSet
  <2>2. CASE j >= Offset /\ j - Offset < Len(table)
    <3>1. j - Offset + 1 \in DOMAIN table /\ TextOf(table, j) = table[j - Offset + 1]
      BY <2>2, LenProperties DEF TextOf
    <3>2. QED
      BY <3>1 DEF Known, ToSet
  <2>3. QED
    BY <2>1, <2>2 DEF CanName
<1>6. QED
  BY <1>2, <1>4, <1>5

\* Every number of S has a name, and the table knows it.
NamesKnown(table, from, S) == \A i \in S : CanName(from, i) /\ Known(table, TextOf(from, i))

\* So it is with a predicate, ...
LEMMA PredicateBack ==
  ASSUME NEW table \in Seq(Text), NEW from \in Seq(Text), NEW p \in Predicate, NEW q \in Predicate,
         AllCanonical(table, NumbersOf(p)), SpelledPredicate(table, p) = SpelledPredicate(from, q)
  PROVE  NamesKnown(table, from, NumbersOf(q))
<1>1. /\ Spelled(table, p.name) = Spelled(from, q.name) /\ DOMAIN p.terms = DOMAIN q.terms
      /\ \A k \in DOMAIN q.terms : SpelledTerm(table, p.terms[k]) = SpelledTerm(from, q.terms[k])
  <2> DEFINE f == [k \in DOMAIN p.terms |-> SpelledTerm(table, p.terms[k])]
             g == [k \in DOMAIN q.terms |-> SpelledTerm(from, q.terms[k])]
  <2>1. Spelled(table, p.name) = Spelled(from, q.name) /\ f = g
    BY DEF SpelledPredicate
  <2>2. DOMAIN f = DOMAIN p.terms /\ DOMAIN g = DOMAIN q.terms
    OBVIOUS
  <2>3. DOMAIN p.terms = DOMAIN q.terms
    BY <2>1, <2>2
  <2>4. ASSUME NEW k \in DOMAIN q.terms
        PROVE  SpelledTerm(table, p.terms[k]) = SpelledTerm(from, q.terms[k])
    <3>1. f[k] = SpelledTerm(table, p.terms[k]) /\ g[k] = SpelledTerm(from, q.terms[k])
      BY <2>3, <2>4
    <3>2. QED
      BY <2>1, <3>1
  <2>5. QED
    BY <2>1, <2>3, <2>4
<1>2. ASSUME NEW k \in DOMAIN q.terms
      PROVE  Spelled(table, p.terms[k].sym) = Spelled(from, q.terms[k].sym)
  BY <1>1 DEF SpelledTerm
<1>3. NumbersOf(p) \subseteq Nat /\ NumbersOf(q) \subseteq Nat
  BY NumbersTyped
<1>4. ASSUME NEW i \in NumbersOf(q) PROVE CanName(from, i) /\ Known(table, TextOf(from, i))
  <2>1. \E j \in NumbersOf(p) : Spelled(table, j) = Spelled(from, i)
    BY <1>1, <1>2 DEF NumbersOf
  <2>2. PICK j \in NumbersOf(p) : Spelled(table, j) = Spelled(from, i)
    BY <2>1
  <2>3. CanName(table, j)
    BY DEF AllCanonical, Canonical
  <2>4. QED
    BY <1>3, <2>2, <2>3, SpelledBack
<1>5. QED
  BY <1>4 DEF NamesKnown

\* ... and with an expression.
LEMMA TestBack ==
  ASSUME NEW table \in Seq(Text), NEW from \in Seq(Text), NEW d \in Test, NEW e \in Test,
         AllCanonical(table, TestNumbers(d)), SpelledTest(table, d) = SpelledTest(from, e)
  PROVE  NamesKnown(table, from, TestNumbers(e))
<1>1. /\ Spelled(table, d.left.sym) = Spelled(from, e.left.sym)
      /\ Spelled(table, d.right.sym) = Spelled(from, e.right.sym)
  BY DEF SpelledTest, SpelledTerm
<1>2. TestNumbers(d) \subseteq Nat /\ TestNumbers(e) \subseteq Nat
  BY NumbersTyped
<1>3. CanName(table, d.left.sym) /\ CanName(table, d.right.sym)
  BY DEF AllCanonical, Canonical, TestNumbers
<1>4. QED
  BY <1>1, <1>2, <1>3, SpelledBack DEF NamesKnown, TestNumbers

\* The clause that is read whole has names, and all its names have numbers.
LEMMA WholeReadied ==
  ASSUME LoadTypeOK, LoadInv, ClauseRead, pc = "place"
  PROVE  Readied(block, CurrentClause)
<1>1. PredicatesRead /\ TestsRead /\ ReadSoFar
  BY DEF ClauseRead, InClause
<1>2. CurrentClause \in Clause
  BY ClauseTyped DEF InClause
<1>3. /\ CurrentClause.head \in Predicate
      /\ CurrentClause.body \in Seq(Predicate) /\ CurrentClause.expr \in Seq(Test)
      /\ Len(CurrentClause.body) \in Nat /\ DOMAIN CurrentClause.body = 1 .. Len(CurrentClause.body)
      /\ Len(CurrentClause.expr) \in Nat /\ DOMAIN CurrentClause.expr = 1 .. Len(CurrentClause.expr)
  BY <1>2, ClauseFields
<1>4. /\ made \in Seq(Predicate) /\ tests \in Seq(Test) /\ entries \in Seq(Text)
  BY DEF LoadTypeOK
<1>5. DOMAIN made = 1 .. Len(made) /\ DOMAIN tests = 1 .. Len(tests)
  BY <1>4, LenProperties
<1>6. Len(made) = Len(CurrentClause.body) + 1 /\ Len(tests) = Len(CurrentClause.expr)
  BY <1>1 DEF ReadSoFar
<1>7. From.symbols \in Seq(Text)
  BY TokenTyped DEF TablesOf
<1>8. ASSUME NEW n \in 1 .. Len(CurrentClause.body) + 1
      PROVE  NamesKnown(entries, From.symbols, NumbersOf(PredicateAt(n)))
  <2>1. n \in DOMAIN made
    BY <1>5, <1>6
  <2>2. made[n] \in Predicate
    BY <1>4, <2>1
  <2>3. PredicateAt(n) \in Predicate
    <3>1. n # 1 => n - 1 \in DOMAIN CurrentClause.body
      BY <1>3
    <3>2. QED
      BY <1>3, <3>1 DEF PredicateAt
  <2>4. SpelledPredicate(entries, made[n]) = SpelledPredicate(From.symbols, PredicateAt(n))
    BY <1>1, <2>1 DEF PredicatesRead
  <2>5. AllCanonical(entries, NumbersOf(made[n]))
    BY <2>1 DEF LoadInv, NumbersCanonical
  <2>6. QED
    BY <1>4, <1>7, <2>2, <2>3, <2>4, <2>5, PredicateBack
<1>9. NamesKnown(entries, From.symbols, NumbersOf(CurrentClause.head))
  <2>1. 1 \in 1 .. Len(CurrentClause.body) + 1
    BY <1>3
  <2>2. PredicateAt(1) = CurrentClause.head
    BY DEF PredicateAt
  <2>3. QED
    BY <1>8, <2>1, <2>2
<1>10. ASSUME NEW i \in DOMAIN CurrentClause.body
       PROVE  NamesKnown(entries, From.symbols, NumbersOf(CurrentClause.body[i]))
  <2>1. i + 1 \in 1 .. Len(CurrentClause.body) + 1 /\ i + 1 # 1 /\ (i + 1) - 1 = i
    BY <1>3
  <2>2. PredicateAt(i + 1) = CurrentClause.body[i]
    BY <2>1 DEF PredicateAt
  <2>3. QED
    BY <1>8, <2>1, <2>2
<1>11. ASSUME NEW e \in DOMAIN CurrentClause.expr
       PROVE  NamesKnown(entries, From.symbols, TestNumbers(CurrentClause.expr[e]))
  <2>1. e \in DOMAIN tests
    BY <1>3, <1>5, <1>6
  <2>2. tests[e] \in Test /\ CurrentClause.expr[e] \in Test
    BY <1>3, <1>4, <2>1
  <2>3. SpelledTest(entries, tests[e]) = SpelledTest(From.symbols, CurrentClause.expr[e])
    BY <1>1, <2>1 DEF TestsRead
  <2>4. AllCanonical(entries, TestNumbers(tests[e]))
    BY <2>1 DEF LoadInv, NumbersCanonical
  <2>5. QED
    BY <1>4, <1>7, <2>2, <2>3, <2>4, TestBack
<1>12. NamesKnown(entries, From.symbols, ClauseNumbers(CurrentClause))
  BY <1>9, <1>10, <1>11 DEF NamesKnown, ClauseNumbers
<1>13. QED
  BY <1>12 DEF Readied, NamesKnown, From

\* Terms that spell the same in one table are the same, if their numbers are
\* canonical.
LEMMA TermIsSpelled ==
  ASSUME NEW table \in Seq(Text), NEW u \in Texts \cup Variables, NEW v \in Texts \cup Variables,
         Canonical(table, u.sym), Canonical(table, v.sym)
  PROVE  SpelledTerm(table, u) = SpelledTerm(table, v) <=> u = v
<1>1. ASSUME SpelledTerm(table, u) = SpelledTerm(table, v) PROVE u = v
  <2>1. u.kind = v.kind /\ Spelled(table, u.sym) = Spelled(table, v.sym)
    BY <1>1 DEF SpelledTerm
  <2>2. <<TextOf(table, u.sym)>> = <<TextOf(table, v.sym)>>
    BY <2>1 DEF Spelled, Canonical
  <2>3. TextOf(table, u.sym) = TextOf(table, v.sym)
    BY <2>2
  <2>4. u.sym = v.sym
    BY <2>3 DEF Canonical
  <2>5. QED
    BY <2>1, <2>4 DEF Texts, Variables
<1>2. QED
  BY <1>1

\* A rule binds its head exactly when what it spells does.
LEMMA BoundIsSpelled ==
  ASSUME NEW table \in Seq(Text), NEW r, r.head \in Predicate, r.body \in Seq(Predicate),
         AllCanonical(table, ClauseNumbers(r))
  PROVE  HeadBound(r) <=> BindsHead(SpelledClause(table, r))
<1> DEFINE said == SpelledClause(table, r)
<1>1. /\ DOMAIN said.head.terms = DOMAIN r.head.terms /\ DOMAIN said.body = DOMAIN r.body
      /\ \A k \in DOMAIN r.head.terms : said.head.terms[k] = SpelledTerm(table, r.head.terms[k])
      /\ \A i \in DOMAIN r.body : said.body[i] = SpelledPredicate(table, r.body[i])
  BY DEF SpelledClause, SpelledPredicate
<1>2. ASSUME NEW i \in DOMAIN r.body
      PROVE  /\ DOMAIN said.body[i].terms = DOMAIN r.body[i].terms
             /\ \A k \in DOMAIN r.body[i].terms :
                  said.body[i].terms[k] = SpelledTerm(table, r.body[i].terms[k])
  <2>1. said.body[i].terms = [k \in DOMAIN r.body[i].terms |-> SpelledTerm(table, r.body[i].terms[k])]
    <3>1. SpelledPredicate(table, r.body[i]).terms
          = [k \in DOMAIN r.body[i].terms |-> SpelledTerm(table, r.body[i].terms[k])]
      BY DEF SpelledPredicate
    <3>2. said.body[i] = SpelledPredicate(table, r.body[i])
      BY <1>1, <1>2
    <3> HIDE DEF said
    <3>3. QED
      BY <3>1, <3>2
  <2> HIDE DEF said
  <2>2. QED
    BY <2>1
<1> HIDE DEF said
<1>3. ASSUME NEW k \in DOMAIN r.head.terms
      PROVE  /\ r.head.terms[k] \in Texts \cup Variables /\ Canonical(table, r.head.terms[k].sym)
             /\ said.head.terms[k].kind = r.head.terms[k].kind
             /\ (r.head.terms[k].kind = "variable" <=> r.head.terms[k] \in Variables)
  <2>1. r.head.terms[k] \in Texts \cup Variables
    BY <1>3 DEF Predicate, Term
  <2>2. r.head.terms[k].sym \in ClauseNumbers(r)
    BY <1>3 DEF ClauseNumbers, NumbersOf
  <2>3. said.head.terms[k].kind = r.head.terms[k].kind
    <3>1. SpelledTerm(table, r.head.terms[k]).kind = r.head.terms[k].kind
      BY DEF SpelledTerm
    <3>2. QED
      BY <1>1, <1>3, <3>1
  <2>4. QED
    BY <2>1, <2>2, <2>3 DEF AllCanonical, Texts, Variables
<1>4. ASSUME NEW i \in DOMAIN r.body, NEW k \in DOMAIN r.body[i].terms
      PROVE  r.body[i].terms[k] \in Texts \cup Variables /\ Canonical(table, r.body[i].terms[k].sym)
  <2>1. r.body[i] \in Predicate
    BY <1>4
  <2>2. r.body[i].terms[k] \in Texts \cup Variables
    BY <1>4, <2>1 DEF Predicate, Term
  <2>3. r.body[i].terms[k].sym \in NumbersOf(r.body[i])
    BY <1>4 DEF NumbersOf
  <2>4. r.body[i].terms[k].sym \in ClauseNumbers(r)
    BY <1>4, <2>3 DEF ClauseNumbers
  <2>5. QED
    BY <2>2, <2>4 DEF AllCanonical
<1>5. ASSUME NEW k \in DOMAIN r.head.terms, NEW i \in DOMAIN r.body
      PROVE  said.head.terms[k] \in ToSet(said.body[i].terms)
             <=> \E n \in DOMAIN r.body[i].terms : r.body[i].terms[n] = r.head.terms[k]
  <2>1. said.head.terms[k] \in ToSet(said.body[i].terms)
        <=> \E n \in DOMAIN said.body[i].terms : said.body[i].terms[n] = said.head.terms[k]
    BY DEF ToSet
  <2>2. said.head.terms[k] \in ToSet(said.body[i].terms)
        <=> \E n \in DOMAIN r.body[i].terms :
              SpelledTerm(table, r.body[i].terms[n]) = SpelledTerm(table, r.head.terms[k])
    BY <1>1, <1>2, <1>5, <2>1
  <2>3. ASSUME NEW n \in DOMAIN r.body[i].terms
        PROVE  SpelledTerm(table, r.body[i].terms[n]) = SpelledTerm(table, r.head.terms[k])
               <=> r.body[i].terms[n] = r.head.terms[k]
    BY <1>3, <1>4, <1>5, <2>3, TermIsSpelled
  <2>4. QED
    BY <2>2, <2>3
<1>6. HeadBound(r) <=> BindsHead(said)
  BY <1>1, <1>3, <1>5 DEF HeadBound, BindsHead
<1>7. QED
  BY <1>6 DEF said

\* The rule that is placed is bound exactly when what its message spells is.
LEMMA LoadedBound ==
  ASSUME LoadTypeOK, LoadInv, ClauseRead, pc = "place", phase = "rules",
         ScopesResolve(CurrentClause.scopes)
  PROVE  HeadBound(Loaded(FALSE)) <=> BindsHead(SpelledClause(From.symbols, CurrentClause))
<1>1. Loaded(FALSE) \in Rule /\ AllCanonical(entries, ClauseNumbers(Loaded(FALSE)))
  BY ClauseLoaded
<1>2. /\ Loaded(FALSE).head = made[1] /\ Loaded(FALSE).body = Tail(made) /\ Loaded(FALSE).expr = tests
  BY DEF Loaded
<1>3. Loaded(FALSE).head \in Predicate /\ Loaded(FALSE).body \in Seq(Predicate)
  BY <1>1 DEF Rule
<1>4. entries \in Seq(Text)
  BY DEF LoadTypeOK
<1>5. HeadBound(Loaded(FALSE)) <=> BindsHead(SpelledClause(entries, Loaded(FALSE)))
  BY <1>1, <1>3, <1>4, BoundIsSpelled
<1>6. SpelledClause(entries, Loaded(FALSE)) = SpelledClause(From.symbols, CurrentClause)
  <2>1. SpelledClause(entries, [head |-> made[1], body |-> Tail(made), expr |-> tests])
        = SpelledClause(From.symbols, CurrentClause)
    BY ClauseSays
  <2>2. SpelledClause(entries, Loaded(FALSE))
        = SpelledClause(entries, [head |-> made[1], body |-> Tail(made), expr |-> tests])
    BY <1>2 DEF SpelledClause
  <2>3. QED
    BY <2>1, <2>2
<1>7. QED
  BY <1>5, <1>6

-----------------------------------------------------------------------------
(* What is readied stays so.                                               *)

\* A table that goes on knows what it knew.
LEMMA KnownOn ==
  ASSUME NEW table \in Seq(Text), NEW more \in Seq(Text), IsPrefix(table, more), NEW x,
         Known(table, x)
  PROVE  Known(more, x)
<1>1. CASE x \in ToSet(WellKnown)
  BY <1>1 DEF Known
<1>2. CASE x \in ToSet(table)
  <2>1. PICK k \in DOMAIN table : table[k] = x
    BY <1>2 DEF ToSet
  <2>2. Len(table) <= Len(more) /\ Len(table) \in Nat /\ Len(more) \in Nat
        /\ \A n \in 1 .. Len(table) : table[n] = more[n]
    BY PrefixPlaces, LenProperties
  <2>3. k \in 1 .. Len(table) /\ k \in 1 .. Len(more)
    BY <2>2, LenProperties
  <2>4. more[k] = x /\ k \in DOMAIN more
    BY <2>1, <2>2, <2>3, LenProperties
  <2>5. QED
    BY <2>4 DEF Known, ToSet
<1>3. QED
  BY <1>1, <1>2 DEF Known

\* So what was readied stays so, of a clause, of a rule and of queries.
LEMMA ReadiedKept ==
  ASSUME token' = token, entries \in Seq(Text), entries' \in Seq(Text), IsPrefix(entries, entries')
  PROVE  /\ \A b, c : Readied(b, c) => Readied(b, c)'
         /\ \A b, c : ReadiedScoped(b, c) => ReadiedScoped(b, c)'
         /\ \A b, c : ReadiedRule(b, c) => ReadiedRule(b, c)'
         /\ \A b, c, n : ReadiedQueries(b, c, n) => ReadiedQueries(b, c, n)'
<1>1. ASSUME NEW b, NEW c, Readied(b, c) PROVE Readied(b, c)'
  <2>1. \A x : Known(entries, x) => Known(entries', x)
    BY KnownOn
  <2>2. QED
    BY <1>1, <2>1 DEF Readied
<1>2. ASSUME NEW b, NEW c, ReadiedScoped(b, c) PROVE ReadiedScoped(b, c)'
  <2>1. Readied(b, c)'
    BY <1>1, <1>2 DEF ReadiedScoped
  <2>2. (\A s \in ToSet(c.scopes) : Resolvable(token, b, s))'
    BY <1>2 DEF ReadiedScoped
  <2>3. QED
    BY <2>1, <2>2 DEF ReadiedScoped
<1>3. ASSUME NEW b, NEW c, ReadiedRule(b, c) PROVE ReadiedRule(b, c)'
  <2>1. ReadiedScoped(b, c)'
    BY <1>2, <1>3 DEF ReadiedRule
  <2>2. BindsHead(SpelledClause(Tables(token, b).symbols, c))'
    BY <1>3 DEF ReadiedRule
  <2>3. QED
    BY <2>1, <2>2 DEF ReadiedRule
<1>4. ASSUME NEW b, NEW c, NEW n, ReadiedQueries(b, c, n) PROVE ReadiedQueries(b, c, n)'
  <2>1. ASSUME NEW q \in DOMAIN c.queries, q < n PROVE ReadiedScoped(b, c.queries[q])'
    <3>1. ReadiedScoped(b, c.queries[q])
      BY <1>4, <2>1 DEF ReadiedQueries
    <3>2. QED
      BY <1>2, <3>1
  <2>2. QED
    BY <2>1 DEF ReadiedQueries
<1>5. QED
  BY <1>1, <1>2, <1>3, <1>4

\* Every step but a stop goes on with the table it has.
LEMMA EntriesGoOn ==
  ASSUME LoadTypeOK, LoadInv, LoadTypeOK', LoadStep
  PROVE  /\ token' = token /\ limits' = limits
         /\ entries \in Seq(Text) /\ entries' \in Seq(Text) /\ IsPrefix(entries, entries')
         /\ entries' # entries => Reading /\ Translates
<1>1. entries \in Seq(Text) /\ entries' \in Seq(Text)
  BY DEF LoadTypeOK
<1>2. token' = token /\ limits' = limits
  BY DEF LoadStep, ReadName, ReadTerm, ReadOperand, Unnamed, NoSymbolRoom, Reserve, PoolFull,
         PredicateDone, NextPredicate, NextExpression, PlaceFact, PlaceRule, PlaceQuery, PlaceCheck,
         BadScope, UnboundRule, NoCheckRoom, NextFact, FactsDone, BlockTrust, NextRule, RulesDone,
         NextCheck, NextQuery, ChecksDone
<1>3. ReadName \/ ReadTerm \/ ReadOperand \/ entries' = entries
  BY DEF LoadStep, Unnamed, NoSymbolRoom, Reserve, PoolFull,
         PredicateDone, NextPredicate, NextExpression, PlaceFact, PlaceRule, PlaceQuery, PlaceCheck,
         BadScope, UnboundRule, NoCheckRoom, NextFact, FactsDone, BlockTrust, NextRule, RulesDone,
         NextCheck, NextQuery, ChecksDone, poolVars
<1>4. CASE ReadName \/ ReadTerm \/ ReadOperand
  <2>1. Reading /\ Translates
    BY <1>4 DEF ReadName, ReadTerm, ReadOperand, Reading
  <2>2. QED
    BY <1>1, <1>2, <2>1, SpelledAsRead
<1>5. CASE entries' = entries
  BY <1>1, <1>2, <1>5, PrefixItself
<1>6. QED
  BY <1>3, <1>4, <1>5

-----------------------------------------------------------------------------
(* What the loops have gone past.                                          *)

\* Behind the loops is what was behind them, and the statement that is placed.
BehindMore(b) ==
  /\ \A n \in DOMAIN token[b + 1].facts :
       FactBehind(b, n)' => FactBehind(b, n) \/ (PlaceFact /\ b = block /\ n = msg)
  /\ ScopeBehind(b)' => ScopeBehind(b) \/ (BlockTrust /\ b = block)
  /\ \A n \in DOMAIN token[b + 1].rules :
       RuleBehind(b, n)' => RuleBehind(b, n) \/ (PlaceRule /\ b = block /\ n = msg)
  /\ \A n \in DOMAIN token[b + 1].checks :
       CheckBehind(b, n)' => CheckBehind(b, n) \/ (PlaceCheck /\ b = block /\ n = msg)

\* The statements of a block have their numbers.
LEMMA BlockNumbers ==
  ASSUME LoadTypeOK, LoadInv, NEW b \in 0 .. Len(token) - 1
  PROVE  /\ token[b + 1] \in Message
         /\ DOMAIN token[b + 1].facts = 1 .. Len(token[b + 1].facts) /\ Len(token[b + 1].facts) \in Nat
         /\ DOMAIN token[b + 1].rules = 1 .. Len(token[b + 1].rules) /\ Len(token[b + 1].rules) \in Nat
         /\ DOMAIN token[b + 1].checks = 1 .. Len(token[b + 1].checks) /\ Len(token[b + 1].checks) \in Nat
<1>1. b + 1 \in 1 .. Len(token) /\ token \in Seq(Message)
  BY AtPlace
<1>2. token[b + 1] \in Message
  BY <1>1, ElementOfSeq
<1>3. QED
  BY <1>2, MessageFields, LenProperties

\* While the loops stay where they are, nothing more is behind them.
LEMMA BehindSame ==
  ASSUME UNCHANGED <<block, phase, msg>>
  PROVE  \A b : BehindMore(b)
BY DEF BehindMore, FactBehind, ScopeBehind, RuleBehind, CheckBehind, LogicBehind

\* A statement that is placed, ...
LEMMA BehindPlaced ==
  ASSUME LoadTypeOK, LoadInv, PlaceFact \/ PlaceRule \/ PlaceCheck, NEW b \in 0 .. Len(token) - 1
  PROVE  BehindMore(b)
<1>1. UNCHANGED <<block, phase>> /\ msg' = msg + 1 /\ msg \in Nat
      /\ (phase = "facts" => PlaceFact) /\ (phase = "rules" => PlaceRule)
      /\ (phase = "checks" => PlaceCheck)
  <2>1. PlaceCheck => phase = "checks"
    BY DEF PlaceCheck, LoadInv, OnStatement
  <2>2. msg \in Nat
    BY AtPlace
  <2>3. QED
    BY <2>1, <2>2 DEF PlaceFact, PlaceRule, PlaceCheck
<1>2. DOMAIN token[b + 1].facts \subseteq Nat /\ DOMAIN token[b + 1].rules \subseteq Nat
      /\ DOMAIN token[b + 1].checks \subseteq Nat
  BY BlockNumbers
<1>3. QED
  BY <1>1, <1>2 DEF BehindMore, FactBehind, ScopeBehind, RuleBehind, CheckBehind, LogicBehind

\* ... a loop that ends, or the block's own scopes.
LEMMA BehindEnded ==
  ASSUME LoadTypeOK, LoadInv, WithinLoops, pc' # "stopped",
         FactsDone \/ BlockTrust \/ RulesDone \/ ChecksDone, NEW b \in 0 .. Len(token) - 1
  PROVE  BehindMore(b)
<1>1. /\ block \in 0 .. Len(token) - 1 /\ Len(token) \in Nat /\ msg \in Nat \ {0}
      /\ Here = token[block + 1]
  BY AtPlace
<1> DEFINE m == token[b + 1]
<1>2. /\ DOMAIN m.facts = 1 .. Len(m.facts) /\ Len(m.facts) \in Nat
      /\ DOMAIN m.rules = 1 .. Len(m.rules) /\ Len(m.rules) \in Nat
      /\ DOMAIN m.checks = 1 .. Len(m.checks) /\ Len(m.checks) \in Nat
  BY BlockNumbers
<1>3. b = block => m = Here
  BY <1>1
<1> HIDE DEF m
<1>4. CASE FactsDone
  <2>1. /\ phase = "facts" /\ msg > Len(Here.facts) /\ msg' = 1
        /\ IF block + 1 < Len(token) THEN block' = block + 1 /\ phase' = phase
           ELSE block' = 0 /\ phase' = "scope"
    BY <1>4 DEF FactsDone
  <2>2. ASSUME NEW n \in DOMAIN m.facts, FactBehind(b, n)' PROVE FactBehind(b, n)
    <3>1. b = block => n < msg
      BY <1>1, <1>2, <1>3, <2>1, <2>2
    <3>2. b < block' \/ phase' # "facts" \/ (b = block' /\ n < 1)
      BY <2>1, <2>2 DEF FactBehind
    <3>3. ~(n < 1)
      BY <1>2, <2>2
    <3>4. b < block \/ b = block
      BY <1>1, <2>1, <3>2, <3>3
    <3>5. QED
      BY <3>1, <3>4 DEF FactBehind
  <2>3. ~LogicBehind(b)' /\ ~ScopeBehind(b)'
    BY <1>1, <2>1 DEF LogicBehind, ScopeBehind
  <2>4. (\A n : ~RuleBehind(b, n)' /\ ~CheckBehind(b, n)')
    BY <2>1, <2>3 DEF RuleBehind, CheckBehind
  <2>5. QED
    BY <2>2, <2>3, <2>4 DEF BehindMore, m
<1>5. CASE BlockTrust
  <2>1. phase = "scope" /\ phase' = "rules" /\ UNCHANGED <<block, msg>> /\ msg = 1
    BY <1>5 DEF BlockTrust, Refuse, WithinLoops
  <2>2. \A n : FactBehind(b, n)
    BY <2>1 DEF FactBehind
  <2>3. ASSUME NEW n \in DOMAIN m.rules, RuleBehind(b, n)' PROVE RuleBehind(b, n)
    BY <1>2, <2>1, <2>3 DEF RuleBehind, LogicBehind
  <2>4. \A n : CheckBehind(b, n)' => CheckBehind(b, n)
    BY <2>1 DEF CheckBehind, LogicBehind
  <2>5. ScopeBehind(b)' => ScopeBehind(b) \/ b = block
    BY <2>1 DEF ScopeBehind, LogicBehind
  <2>6. QED
    BY <1>5, <2>2, <2>3, <2>4, <2>5 DEF BehindMore, m
<1>6. CASE RulesDone
  <2>1. phase = "rules" /\ phase' = "checks" /\ block' = block /\ msg > Len(Here.rules) /\ msg' = 1
    BY <1>6 DEF RulesDone
  <2>2. \A n : FactBehind(b, n)
    BY <2>1 DEF FactBehind
  <2>3. ASSUME NEW n \in DOMAIN m.rules, RuleBehind(b, n)' PROVE RuleBehind(b, n)
    <3>1. b = block => n < msg
      BY <1>1, <1>2, <1>3, <2>1, <2>3
    <3>2. QED
      BY <2>1, <2>3, <3>1 DEF RuleBehind, LogicBehind
  <2>4. ASSUME NEW n \in DOMAIN m.checks, CheckBehind(b, n)' PROVE CheckBehind(b, n)
    <3>1. ~(n < 1)
      BY <1>2, <2>4
    <3>2. QED
      BY <2>1, <2>4, <3>1 DEF CheckBehind, LogicBehind
  <2>5. ScopeBehind(b)' => ScopeBehind(b)
    BY <2>1 DEF ScopeBehind, LogicBehind
  <2>6. QED
    BY <2>2, <2>3, <2>4, <2>5 DEF BehindMore, m
<1>7. CASE ChecksDone
  <2>1. /\ phase = "checks" /\ phase' = "scope" /\ block' = block + 1 /\ msg > Len(Here.checks)
        /\ msg' = 1
    BY <1>7 DEF ChecksDone, Refuse
  <2>2. \A n : FactBehind(b, n)
    BY <2>1 DEF FactBehind
  <2>3. LogicBehind(b)' => LogicBehind(b) \/ b = block
    BY <1>1, <2>1 DEF LogicBehind
  <2>4. ScopeBehind(b)' => ScopeBehind(b)
    BY <2>1, <2>3 DEF ScopeBehind
  <2>5. \A n : RuleBehind(b, n)' => RuleBehind(b, n)
    BY <2>1, <2>3 DEF RuleBehind
  <2>6. ASSUME NEW n \in DOMAIN m.checks, CheckBehind(b, n)' PROVE CheckBehind(b, n)
    <3>1. b = block => n < msg
      BY <1>1, <1>2, <1>3, <2>1, <2>6
    <3>2. LogicBehind(b)'
      BY <2>1, <2>6 DEF CheckBehind
    <3>3. QED
      BY <2>1, <2>3, <3>1, <3>2 DEF CheckBehind
  <2>7. QED
    BY <2>2, <2>4, <2>5, <2>6 DEF BehindMore, m
<1>8. QED
  BY <1>4, <1>5, <1>6, <1>7

\* One step more, and one statement more is behind.
LEMMA BehindStep ==
  ASSUME LoadTypeOK, LoadInv, WithinLoops, LoadStep, pc' # "stopped", NEW b \in 0 .. Len(token) - 1
  PROVE  BehindMore(b)
<1>1. ~(Unnamed \/ NoSymbolRoom \/ PoolFull \/ BadScope \/ UnboundRule \/ NoCheckRoom)
  BY DEF Unnamed, NoSymbolRoom, PoolFull, BadScope, UnboundRule, NoCheckRoom, Refuse
<1>2. CASE PlaceFact \/ PlaceRule \/ PlaceCheck
  BY <1>2, BehindPlaced
<1>3. CASE FactsDone \/ BlockTrust \/ RulesDone \/ ChecksDone
  BY <1>3, BehindEnded
<1>4. CASE \/ ReadName \/ ReadTerm \/ ReadOperand
           \/ Reserve \/ PredicateDone \/ NextPredicate \/ NextExpression
           \/ PlaceQuery \/ NextFact \/ NextRule \/ NextCheck \/ NextQuery
  <2>1. UNCHANGED <<block, phase, msg>>
    BY <1>4 DEF ReadName, ReadTerm, ReadOperand, Reserve, PredicateDone, NextPredicate,
                NextExpression, PlaceQuery, NextFact, NextRule, NextCheck, NextQuery, placeVars
  <2>2. QED
    BY <2>1, BehindSame
<1>5. QED
  BY <1>1, <1>2, <1>3, <1>4 DEF LoadStep

-----------------------------------------------------------------------------
(* What is behind is as it should be.                                      *)

\* The statement that is placed is readied, the clause of a rule with its head
\* bound.
LEMMA PlacedReadied ==
  ASSUME LoadTypeOK, LoadInv, ClauseRead, QueriesReadied
  PROVE  /\ PlaceFact => Readied(block, AsClause(Here.facts[msg]))
         /\ PlaceRule => ReadiedRule(block, Here.rules[msg])
         /\ PlaceQuery => ReadiedScoped(block, Here.checks[msg].queries[query])
         /\ PlaceCheck => /\ ~Meaningless(Here.checks[msg])
                          /\ ReadiedQueries(block, Here.checks[msg], Len(Here.checks[msg].queries) + 1)
<1>1. ASSUME PlaceFact PROVE Readied(block, AsClause(Here.facts[msg]))
  <2>1. pc = "place" /\ phase = "facts"
    BY <1>1 DEF PlaceFact
  <2>2. CurrentClause = AsClause(Here.facts[msg])
    BY <2>1 DEF CurrentClause, AsClause
  <2>3. QED
    BY <2>1, <2>2, WholeReadied
<1>2. ASSUME PlaceRule PROVE ReadiedRule(block, Here.rules[msg])
  <2>1. /\ pc = "place" /\ phase = "rules" /\ ScopesResolve(CurrentClause.scopes)
        /\ HeadBound(Loaded(FALSE))
    BY <1>2 DEF PlaceRule
  <2>2. CurrentClause = Here.rules[msg]
    BY <2>1 DEF CurrentClause
  <2>3. Readied(block, CurrentClause) /\ BindsHead(SpelledClause(From.symbols, CurrentClause))
    BY <2>1, WholeReadied, LoadedBound
  <2>4. QED
    BY <2>1, <2>2, <2>3 DEF ReadiedRule, ReadiedScoped, ScopesResolve, From
<1>3. ASSUME PlaceQuery PROVE ReadiedScoped(block, Here.checks[msg].queries[query])
  <2>1. pc = "place" /\ phase = "checks" /\ ScopesResolve(CurrentClause.scopes)
    BY <1>3 DEF PlaceQuery
  <2>2. CurrentClause = Here.checks[msg].queries[query]
    BY <2>1 DEF CurrentClause
  <2>3. QED
    BY <2>1, <2>2, WholeReadied DEF ReadiedScoped, ScopesResolve
<1>4. ASSUME PlaceCheck
      PROVE  /\ ~Meaningless(Here.checks[msg])
             /\ ReadiedQueries(block, Here.checks[msg], Len(Here.checks[msg].queries) + 1)
  <2>1. pc = "query" /\ query > Len(Here.checks[msg].queries) /\ phase = "checks"
        /\ msg \in 1 .. Len(Here.checks)
    <3>1. pc = "query" /\ query > Len(Here.checks[msg].queries)
      BY <1>4 DEF PlaceCheck
    <3>2. phase = "checks" /\ msg \in DOMAIN Here.checks
      BY <3>1 DEF LoadInv, OnStatement
    <3>3. QED
      BY <3>1, <3>2, PlaceNumbers
  <2>2. ~Meaningless(Here.checks[msg]) /\ ReadiedQueries(block, Here.checks[msg], query)
    BY <2>1 DEF QueriesReadied, InCheck
  <2>3. DOMAIN Here.checks[msg].queries = 1 .. Len(Here.checks[msg].queries)
        /\ Len(Here.checks[msg].queries) \in Nat /\ query \in Nat
    BY <2>1, QueryPlaces, PlaceNumbers
  <2>4. \A q \in DOMAIN Here.checks[msg].queries : q < query
    BY <2>1, <2>3
  <2>5. QED
    BY <2>2, <2>4 DEF ReadiedQueries
<1>5. QED
  BY <1>1, <1>2, <1>3, <1>4

\* Every step leaves behind what is as it should be.
LEMMA ReadiedStep ==
  ASSUME LoadTypeOK, LoadInv, ClauseRead, WithinLoops, ReadiedBehind, QueriesReadied,
         LoadTypeOK', LoadStep, pc' # "stopped"
  PROVE  ReadiedBehind'
<1>1. token' = token /\ entries \in Seq(Text) /\ entries' \in Seq(Text) /\ IsPrefix(entries, entries')
  BY EntriesGoOn
<1>2. /\ \A b, c : Readied(b, c) => Readied(b, c)'
      /\ \A b, c : ReadiedRule(b, c) => ReadiedRule(b, c)'
      /\ \A b, c, n : ReadiedQueries(b, c, n) => ReadiedQueries(b, c, n)'
  BY <1>1, ReadiedKept
<1>3. ASSUME NEW b \in 0 .. Len(token) - 1
      PROVE  LET m == token[b + 1]
             IN  /\ \A n \in DOMAIN m.facts : FactBehind(b, n)' => Readied(b, AsClause(m.facts[n]))'
                 /\ ScopeBehind(b)' => \A s \in ToSet(m.scopes) : Resolvable(token, b, s)
                 /\ \A n \in DOMAIN m.rules : RuleBehind(b, n)' => ReadiedRule(b, m.rules[n])'
                 /\ \A n \in DOMAIN m.checks : CheckBehind(b, n)' =>
                      ~Meaningless(m.checks[n])
                      /\ ReadiedQueries(b, m.checks[n], Len(m.checks[n].queries) + 1)'
  <2> DEFINE m == token[b + 1]
  <2>1. BehindMore(b)
    BY BehindStep
  <2>2. b = block => m = Here
    BY DEF Here
  <2>3. /\ \A n \in DOMAIN m.facts : FactBehind(b, n) => Readied(b, AsClause(m.facts[n]))
        /\ ScopeBehind(b) => \A s \in ToSet(m.scopes) : Resolvable(token, b, s)
        /\ \A n \in DOMAIN m.rules : RuleBehind(b, n) => ReadiedRule(b, m.rules[n])
        /\ \A n \in DOMAIN m.checks : CheckBehind(b, n) =>
             ~Meaningless(m.checks[n])
             /\ ReadiedQueries(b, m.checks[n], Len(m.checks[n].queries) + 1)
    BY DEF ReadiedBehind
  <2> HIDE DEF m
  <2>4. ASSUME NEW n \in DOMAIN m.facts, FactBehind(b, n)' PROVE Readied(b, AsClause(m.facts[n]))'
    <3>1. FactBehind(b, n) \/ (PlaceFact /\ b = block /\ n = msg)
      BY <2>1, <2>4 DEF BehindMore, m
    <3>2. Readied(b, AsClause(m.facts[n]))
      BY <2>2, <2>3, <3>1, PlacedReadied
    <3> DEFINE c == AsClause(m.facts[n])
    <3>3. Readied(b, c)
      BY <3>2
    <3>4. c' = c
      BY <1>1 DEF m
    <3> HIDE DEF c
    <3>5. \E d : d = c /\ Readied(b, d)'
      BY <1>2, <3>3
    <3>6. QED
      BY <3>4, <3>5 DEF c
  <2>5. ScopeBehind(b)' => \A s \in ToSet(m.scopes) : Resolvable(token, b, s)
    <3>1. BlockTrust => ScopesResolve(Here.scopes)
      BY DEF BlockTrust, Refuse
    <3>2. QED
      BY <2>1, <2>2, <2>3, <3>1 DEF BehindMore, ScopesResolve
  <2>6. ASSUME NEW n \in DOMAIN m.rules, RuleBehind(b, n)' PROVE ReadiedRule(b, m.rules[n])'
    <3>1. RuleBehind(b, n) \/ (PlaceRule /\ b = block /\ n = msg)
      BY <2>1, <2>6 DEF BehindMore, m
    <3>2. ReadiedRule(b, m.rules[n])
      BY <2>2, <2>3, <3>1, PlacedReadied
    <3> DEFINE c == m.rules[n]
    <3>3. ReadiedRule(b, c)
      BY <3>2
    <3>4. c' = c
      BY <1>1 DEF m
    <3> HIDE DEF c
    <3>5. \E d : d = c /\ ReadiedRule(b, d)'
      BY <1>2, <3>3
    <3>6. QED
      BY <3>4, <3>5 DEF c
  <2>7. ASSUME NEW n \in DOMAIN m.checks, CheckBehind(b, n)'
        PROVE  /\ ~Meaningless(m.checks[n])
               /\ ReadiedQueries(b, m.checks[n], Len(m.checks[n].queries) + 1)'
    <3>1. CheckBehind(b, n) \/ (PlaceCheck /\ b = block /\ n = msg)
      BY <2>1, <2>7 DEF BehindMore, m
    <3>2. /\ ~Meaningless(m.checks[n])
          /\ ReadiedQueries(b, m.checks[n], Len(m.checks[n].queries) + 1)
      BY <2>2, <2>3, <3>1, PlacedReadied
    <3> DEFINE c == m.checks[n]
               l == Len(m.checks[n].queries) + 1
    <3>3. ReadiedQueries(b, c, l)
      BY <3>2
    <3>4. c' = c /\ l' = l
      BY <1>1 DEF m
    <3> HIDE DEF c, l
    <3>5. \E d, k : d = c /\ k = l /\ ReadiedQueries(b, d, k)'
      BY <1>2, <3>3
    <3>6. QED
      BY <3>2, <3>4, <3>5 DEF c, l
  <2>8. QED
    BY <2>4, <2>5, <2>6, <2>7 DEF m
<1>4. QED
  BY <1>1, <1>3 DEF ReadiedBehind

\* So are the queries of the check at hand that have been placed.
LEMMA QueriesStep ==
  ASSUME LoadTypeOK, LoadInv, ClauseRead, WithinLoops, QueriesReadied,
         LoadTypeOK', LoadStep, pc' # "stopped"
  PROVE  QueriesReadied'
<1>1. token' = token /\ entries \in Seq(Text) /\ entries' \in Seq(Text) /\ IsPrefix(entries, entries')
  BY EntriesGoOn
<1>2. \A b, c, n : ReadiedQueries(b, c, n) => ReadiedQueries(b, c, n)'
  BY <1>1, ReadiedKept
<1> DEFINE c == Here.checks[msg]
<1>3. ASSUME UNCHANGED <<block, phase, msg>>, ~Meaningless(c), ReadiedQueries(block, c, query')
      PROVE  QueriesReadied'
  <2>1. c' = c /\ block' = block
    BY <1>1, <1>3 DEF Here
  <2>2. ~Meaningless(c)'
    BY <1>3, <2>1 DEF Meaningless
  <2> HIDE DEF c
  <2>3. \E b, d, k : b = block /\ d = c /\ k = query' /\ ReadiedQueries(b, d, k)'
    BY <1>2, <1>3
  <2>4. PICK b, d, k : b = block /\ d = c /\ k = query' /\ ReadiedQueries(b, d, k)'
    BY <2>3
  <2>5. \A q \in DOMAIN d.queries : q < k => ReadiedScoped(b, d.queries[q])'
    BY <2>4 DEF ReadiedQueries
  <2>6. ReadiedQueries(block, c, query)'
    BY <2>1, <2>4, <2>5 DEF ReadiedQueries
  <2>7. QED
    BY <2>2, <2>6 DEF QueriesReadied, c
<1>4. CASE \/ ReadName \/ ReadTerm \/ ReadOperand
           \/ Reserve \/ PredicateDone \/ NextPredicate \/ NextExpression
  <2>1. UNCHANGED <<block, phase, msg, query>> /\ InClause
    BY <1>4 DEF ReadName, ReadTerm, ReadOperand, Reserve, PredicateDone, NextPredicate,
                NextExpression, placeVars, Reserving, InClause
  <2>2. InCheck' => InCheck
    BY <2>1 DEF InCheck
  <2>3. QED
    BY <1>3, <2>1, <2>2 DEF QueriesReadied
<1>5. CASE NextFact \/ NextRule \/ NextQuery
  <2>1. UNCHANGED <<block, phase, msg, query>> /\ (phase = "checks" => pc = "query")
    BY <1>5 DEF NextFact, NextRule, NextQuery, placeVars, LoadInv, OnStatement
  <2>2. InCheck' => InCheck
    BY <2>1 DEF InCheck
  <2>3. QED
    BY <1>3, <2>1, <2>2 DEF QueriesReadied
<1>6. CASE PlaceFact \/ PlaceRule \/ PlaceCheck \/ FactsDone \/ BlockTrust \/ RulesDone \/ ChecksDone
  <2>1. pc' = "next"
    BY <1>6 DEF PlaceFact, PlaceRule, PlaceCheck, FactsDone, BlockTrust, RulesDone, ChecksDone, Refuse
  <2>2. ~InCheck'
    BY <2>1 DEF InCheck, InClause
  <2>3. QED
    BY <2>2 DEF QueriesReadied
<1>7. CASE NextCheck
  <2>1. UNCHANGED <<block, phase, msg>> /\ ~Meaningless(c) /\ query' = 1 /\ msg \in 1 .. Len(Here.checks)
    BY <1>7, PlaceNumbers DEF NextCheck, Refuse
  <2>2. ReadiedQueries(block, c, 1)
    <3>1. DOMAIN c.queries = 1 .. Len(c.queries)
      BY <2>1, QueryPlaces
    <3>2. \A q \in DOMAIN c.queries : ~(q < 1)
      BY <3>1
    <3>3. QED
      BY <3>2 DEF ReadiedQueries
  <2>3. QED
    BY <1>3, <2>1, <2>2
<1>8. CASE PlaceQuery
  <2>1. UNCHANGED <<block, phase, msg>> /\ query' = query + 1 /\ phase = "checks" /\ pc = "place"
    BY <1>8 DEF PlaceQuery
  <2>2. InCheck
    BY <2>1 DEF InCheck, InClause
  <2>3. ~Meaningless(c) /\ ReadiedQueries(block, c, query)
    BY <2>2 DEF QueriesReadied
  <2>4. ReadiedScoped(block, c.queries[query])
    BY <1>8, PlacedReadied
  <2>5. DOMAIN c.queries = 1 .. Len(c.queries) /\ query \in Nat
    BY <2>2, CheckAtHand, QueryPlaces, PlaceNumbers
  <2>6. \A q \in DOMAIN c.queries : q < query + 1 => q < query \/ q = query
    BY <2>5
  <2>7. ReadiedQueries(block, c, query + 1)
    BY <2>3, <2>4, <2>6 DEF ReadiedQueries
  <2>8. QED
    BY <1>3, <2>1, <2>3, <2>7
<1>9. ~(Unnamed \/ NoSymbolRoom \/ PoolFull \/ BadScope \/ UnboundRule \/ NoCheckRoom)
  BY DEF Unnamed, NoSymbolRoom, PoolFull, BadScope, UnboundRule, NoCheckRoom, Refuse
<1>10. QED
  BY <1>4, <1>5, <1>6, <1>7, <1>8, <1>9 DEF LoadStep

-----------------------------------------------------------------------------
(* The texts that are added.                                               *)

\* The number that is read is one of the clause at hand, ...
LEMMA IncomingOfClause ==
  ASSUME LoadTypeOK, LoadInv, ClauseRead, Reading
  PROVE  Incoming \in ClauseNumbers(CurrentClause)
<1>1. InClause /\ CurrentClause \in Clause
  BY ClauseTyped DEF Reading, InClause
<1>2. /\ Len(CurrentClause.body) \in Nat /\ DOMAIN CurrentClause.body = 1 .. Len(CurrentClause.body)
      /\ Len(CurrentClause.expr) \in Nat /\ DOMAIN CurrentClause.expr = 1 .. Len(CurrentClause.expr)
  BY <1>1, ClauseFields
<1>3. Len(made) \in Nat /\ (made = <<>> <=> Len(made) = 0) /\ Len(tests) \in Nat
  BY <1>1, HereTyped
<1>4. CASE pc \in {"name", "terms"}
  <2>1. Len(made) <= Len(CurrentClause.body)
    BY <1>4 DEF LoadInv, InOrder
  <2>2. Wanted = CurrentClause.head \/ \E i \in DOMAIN CurrentClause.body : Wanted = CurrentClause.body[i]
    BY <1>2, <1>3, <2>1 DEF Wanted
  <2>3. NumbersOf(Wanted) \subseteq ClauseNumbers(CurrentClause)
    BY <2>2 DEF ClauseNumbers
  <2>4. Incoming \in NumbersOf(Wanted)
    <3>1. CASE pc = "name"
      BY <3>1 DEF Incoming, NumbersOf
    <3>2. CASE pc = "terms"
      <4>1. Wanted \in Predicate /\ cur \in Predicate
        BY <3>2, WantedTyped DEF LoadTypeOK
      <4>2. /\ Len(Wanted.terms) \in Nat /\ DOMAIN Wanted.terms = 1 .. Len(Wanted.terms)
            /\ Len(cur.terms) \in Nat
        BY <4>1, LenProperties DEF Predicate
      <4>3. Len(cur.terms) + 1 \in DOMAIN Wanted.terms
        BY <3>2, <4>2 DEF Reading
      <4>4. QED
        BY <3>2, <4>3 DEF Incoming, NumbersOf
    <3>3. QED
      BY <1>4, <3>1, <3>2
  <2>5. QED
    BY <2>3, <2>4
<1>5. CASE pc = "operand"
  <2>1. Len(tests) < Len(CurrentClause.expr)
    BY <1>5 DEF LoadInv, InOrder
  <2>2. Len(tests) + 1 \in DOMAIN CurrentClause.expr
    BY <1>2, <1>3, <2>1
  <2>3. Incoming \in TestNumbers(NextTest)
    BY <1>5 DEF Incoming, TestNumbers
  <2>4. QED
    BY <2>2, <2>3 DEF NextTest, ClauseNumbers
<1>6. QED
  BY <1>4, <1>5 DEF Reading

\* ... and that is a statement of the token.
LEMMA AtHandIsStated ==
  ASSUME LoadTypeOK, LoadInv, InClause
  PROVE  CurrentClause \in ToSet(Statements(token, block))
<1>1. CASE phase = "facts"
  <2>1. msg \in DOMAIN token[block + 1].facts
    BY <1>1 DEF LoadInv, OnStatement, AtStatement, Here
  <2>2. AsClause(token[block + 1].facts[msg]) \in ToSet(Statements(token, block))
    BY <2>1, AtPlace, StatementsHold
  <2>3. CurrentClause = AsClause(token[block + 1].facts[msg])
    BY <1>1 DEF CurrentClause, AsClause, Here
  <2>4. QED
    BY <2>2, <2>3
<1>2. CASE phase # "facts"
  BY <1>2, ClauseIsStated
<1>3. QED
  BY <1>1, <1>2

\* The texts of a token, seed or not.
TextsOf(t, b) == {Spelled(Tables(t, b).symbols, i) :
                    i \in UNION {ClauseNumbers(c) : c \in ToSet(Statements(t, b))}}

\* What a token needs beyond its seed is a text its statements spell.
LEMMA NewTextIs ==
  ASSUME NEW t, NEW x
  PROVE  <<x>> \in NewTexts(t)
         <=> /\ \E b \in 0 .. Len(t) - 1 : <<x>> \in TextsOf(t, b)
             /\ x \notin ToSet(WellKnown) /\ x \notin ToSet(Seed(t))
<1>1. <<x>> \in NewTexts(t)
      <=> /\ <<x>> \in UNION {TextsOf(t, b) : b \in 0 .. Len(t) - 1}
          /\ <<x>> \notin {<<>>} \cup {<<s>> : s \in ToSet(WellKnown) \cup ToSet(Seed(t))}
  <2>1. NewTexts(t) = (UNION {TextsOf(t, b) : b \in 0 .. Len(t) - 1})
                      \ ({<<>>} \cup {<<s>> : s \in ToSet(WellKnown) \cup ToSet(Seed(t))})
    BY DEF NewTexts, TextsOf
  <2> DEFINE A == UNION {TextsOf(t, b) : b \in 0 .. Len(t) - 1}
             B == {<<>>} \cup {<<s>> : s \in ToSet(WellKnown) \cup ToSet(Seed(t))}
  <2> HIDE DEF A, B
  <2>2. NewTexts(t) = A \ B
    BY <2>1 DEF A, B
  <2>3. <<x>> \in NewTexts(t) <=> <<x>> \in A /\ <<x>> \notin B
    BY <2>2
  <2>4. QED
    BY <2>3 DEF A, B
<1>2. <<x>> # <<>>
  OBVIOUS
<1>3. \A s : <<x>> = <<s>> => x = s
  OBVIOUS
<1>4. <<x>> \in {<<s>> : s \in ToSet(WellKnown) \cup ToSet(Seed(t))}
      <=> x \in ToSet(WellKnown) \cup ToSet(Seed(t))
  BY <1>3
<1>5. <<x>> \in UNION {TextsOf(t, b) : b \in 0 .. Len(t) - 1}
      <=> \E b \in 0 .. Len(t) - 1 : <<x>> \in TextsOf(t, b)
  OBVIOUS
<1>6. QED
  BY <1>1, <1>2, <1>4, <1>5

\* The text that is read is one its token spells.
LEMMA SpellingIsStated ==
  ASSUME LoadTypeOK, LoadInv, ClauseRead, Reading, Nameable
  PROVE  <<Spelling>> \in TextsOf(token, block)
<1>1. Incoming \in ClauseNumbers(CurrentClause)
  BY IncomingOfClause
<1>2. CurrentClause \in ToSet(Statements(token, block))
  BY AtHandIsStated DEF Reading, InClause
<1>3. Spelled(From.symbols, Incoming) = <<Spelling>>
  BY DEF Spelled, Spelling, Nameable
<1>4. From = Tables(token, block)
  BY DEF From
<1>5. QED
  BY <1>1, <1>2, <1>3, <1>4 DEF TextsOf

\* So a text the table does not know yet is one the token needs.
LEMMA SpellingIsNew ==
  ASSUME LoadTypeOK, LoadInv, ClauseRead, EntriesNeeded, Reading, Nameable, ~Known(entries, Spelling)
  PROVE  <<Spelling>> \in NewTexts(token)
<1>1. <<Spelling>> \in TextsOf(token, block) /\ block \in 0 .. Len(token) - 1
  BY SpellingIsStated, AtPlace
<1>2. Spelling \notin ToSet(WellKnown) /\ Spelling \notin ToSet(entries)
  BY DEF Known
<1>3. Spelling \notin ToSet(Seed(token))
  <2>1. entries \in Seq(Text) /\ Seed(token) \in Seq(Text) /\ IsPrefix(Seed(token), entries)
    BY TokenTyped DEF LoadTypeOK, EntriesNeeded
  <2>2. /\ Len(Seed(token)) <= Len(entries) /\ Len(entries) \in Nat /\ Len(Seed(token)) \in Nat
        /\ DOMAIN entries = 1 .. Len(entries) /\ DOMAIN Seed(token) = 1 .. Len(Seed(token))
        /\ \A k \in 1 .. Len(Seed(token)) : Seed(token)[k] = entries[k]
    BY <2>1, PrefixPlaces, LenProperties
  <2>3. \A k \in DOMAIN Seed(token) : k \in DOMAIN entries /\ Seed(token)[k] = entries[k]
    BY <2>2
  <2>4. QED
    BY <1>2, <2>3 DEF ToSet
<1>4. QED
  BY <1>1, <1>2, <1>3, NewTextIs

\* The table goes on by what the token needs.
LEMMA EntriesStep ==
  ASSUME LoadTypeOK, LoadInv, ClauseRead, EntriesNeeded, LoadTypeOK', LoadStep
  PROVE  EntriesNeeded'
<1>1. /\ token' = token /\ entries \in Seq(Text) /\ entries' \in Seq(Text)
      /\ IsPrefix(entries, entries') /\ (entries' # entries => Reading /\ Translates)
  BY EntriesGoOn
<1>2. CASE entries' = entries
  BY <1>1, <1>2 DEF EntriesNeeded
<1>3. CASE entries' # entries
  <2>1. Reading /\ Nameable /\ entries' = Interned(entries, Spelling)
    BY <1>1, <1>3 DEF Translates
  <2>2. ~Known(entries, Spelling) /\ entries' = Append(entries, Spelling)
    BY <1>3, <2>1 DEF Interned
  <2>3. Spelling \in Text
    BY <2>1, IncomingTyped
  <2> DEFINE l == Len(entries)
             s == Len(Seed(token))
  <2>4. /\ l \in Nat /\ Len(entries') = l + 1 /\ entries'[l + 1] = Spelling
        /\ \A j \in 1 .. l : entries'[j] = entries[j]
    BY <1>1, <2>2, <2>3, Appended, LenProperties
  <2>5. Seed(token) \in Seq(Text) /\ s \in Nat
    BY TokenTyped, LenProperties
  <2>6. <<Spelling>> \in NewTexts(token)
    BY <2>1, <2>2, SpellingIsNew
  <2>7. \A j \in 1 .. l : entries[j] # Spelling
    <3>1. Spelling \notin ToSet(entries) /\ DOMAIN entries = 1 .. l
      BY <1>1, <2>2, LenProperties DEF Known
    <3>2. QED
      BY <3>1 DEF ToSet
  <2>8. IsPrefix(Seed(token), entries')
    BY <1>1, <2>5, PrefixOn DEF EntriesNeeded
  <2>9. \A j \in s + 1 .. l : /\ <<entries[j]>> \in NewTexts(token)
                              /\ \A k \in 1 .. l : entries[j] = entries[k] => j = k
    BY DEF EntriesNeeded
  <2> HIDE DEF l, s
  <2>10. ASSUME NEW j \in s + 1 .. l + 1
         PROVE  /\ <<entries'[j]>> \in NewTexts(token)
                /\ \A k \in 1 .. l + 1 : entries'[j] = entries'[k] => j = k
    <3>1. j \in 1 .. l \/ j = l + 1
      BY <2>4, <2>5
    <3>2. j \in 1 .. l => j \in s + 1 .. l
      BY <2>5
    <3>3. <<entries'[j]>> \in NewTexts(token)
      BY <2>4, <2>6, <2>9, <3>1, <3>2
    <3>4. ASSUME NEW k \in 1 .. l + 1, entries'[j] = entries'[k] PROVE j = k
      <4>1. k \in 1 .. l \/ k = l + 1
        BY <2>4
      <4>2. QED
        BY <2>4, <2>7, <2>9, <3>1, <3>2, <3>4, <4>1
    <3>5. QED
      BY <3>3, <3>4
  <2>11. \A j \in Len(Seed(token')) + 1 .. Len(entries') :
           /\ <<entries'[j]>> \in NewTexts(token')
           /\ \A k \in 1 .. Len(entries') : entries'[j] = entries'[k] => j = k
    BY <1>1, <2>4, <2>10 DEF s
  <2>12. QED
    BY <1>1, <2>8, <2>11 DEF EntriesNeeded
<1>4. QED
  BY <1>2, <1>3

\* While it runs, the loader keeps everything a refusal rests on.
LEMMA CauseStep ==
  ASSUME LoadTypeOK, LoadInv, CauseInv, LoadTypeOK', LoadStep, pc' # "stopped"
  PROVE  CauseInv'
<1>1. pc # "stopped"
  BY DEF LoadStep, ReadName, ReadTerm, ReadOperand, Unnamed, NoSymbolRoom, Reserve, PoolFull,
         PredicateDone, NextPredicate, NextExpression, PlaceFact, PlaceRule, PlaceQuery, PlaceCheck,
         BadScope, UnboundRule, NoCheckRoom, NextFact, FactsDone, BlockTrust, NextRule, RulesDone,
         NextCheck, NextQuery, ChecksDone, Reading, Reserving
<1>2. /\ status = "none" /\ ClauseRead /\ WithinLoops
      /\ Accounted /\ ReadiedBehind /\ QueriesReadied /\ EntriesNeeded
  BY <1>1 DEF CauseInv
<1>3. status' = "none" /\ ClauseRead' /\ WithinLoops'
  BY <1>2, WithinStep
<1>4. Accounted' /\ ReadiedBehind' /\ QueriesReadied' /\ EntriesNeeded'
  BY <1>2, AccountsStep, ReadiedStep, QueriesStep, EntriesStep
<1>5. QED
  BY <1>3, <1>4 DEF CauseInv

-----------------------------------------------------------------------------
(* What stops a load.                                                      *)

\* A clause of the token with a symbol that names nothing, or a scope that
\* means nothing, is not well formed.
LEMMA IllFormed ==
  ASSUME NEW t, NEW b \in 0 .. Len(t) - 1, NEW c \in ToSet(Statements(t, b)),
         \/ \E i \in ClauseNumbers(c) : ~CanName(Tables(t, b).symbols, i)
         \/ \E s \in ToSet(c.scopes) : ~Resolvable(t, b, s)
  PROVE  ~WellFormed(t)
<1>1. ~Readable(t, b, Tables(t, b))
  BY DEF Readable, Resolvable
<1>2. QED
  BY <1>1 DEF WellFormed

\* A load that stops as malformed stops at something that is.
LEMMA MalformedForCause ==
  ASSUME LoadTypeOK, LoadInv, ClauseRead,
         \/ Unnamed \/ BadScope
         \/ BlockTrust /\ ~ScopesResolve(Here.scopes)
         \/ NextCheck /\ Meaningless(Here.checks[msg])
  PROVE  ~WellFormed(token)
<1>1. block \in 0 .. Len(token) - 1 /\ Here = token[block + 1]
  BY AtPlace
<1>2. CASE Unnamed
  <2>1. Reading /\ ~CanName(Tables(token, block).symbols, Incoming)
    BY <1>2 DEF Unnamed, Nameable, From
  <2>2. Incoming \in ClauseNumbers(CurrentClause)
    BY <2>1, IncomingOfClause
  <2>3. CurrentClause \in ToSet(Statements(token, block))
    BY <2>1, AtHandIsStated DEF Reading, InClause
  <2>4. QED
    BY <1>1, <2>1, <2>2, <2>3, IllFormed
<1>3. CASE BadScope
  <2>1. InClause /\ ~ScopesResolve(CurrentClause.scopes)
    BY <1>3 DEF BadScope, InClause
  <2>2. CurrentClause \in ToSet(Statements(token, block))
    BY <2>1, AtHandIsStated
  <2>3. QED
    BY <1>1, <2>1, <2>2, IllFormed DEF ScopesResolve
<1>4. CASE BlockTrust /\ ~ScopesResolve(Here.scopes)
  <2>1. ~Readable(token, block, Tables(token, block))
    BY <1>1, <1>4 DEF ScopesResolve, Readable, Resolvable
  <2>2. QED
    BY <1>1, <2>1 DEF WellFormed
<1>5. CASE NextCheck /\ Meaningless(Here.checks[msg])
  <2>1. msg \in DOMAIN Here.checks
    BY <1>5, PlaceNumbers DEF NextCheck
  <2>2. Here.checks[msg] \in ToSet(Here.checks)
    BY <2>1 DEF ToSet
  <2>3. ~Readable(token, block, Tables(token, block))
    BY <1>1, <1>5, <2>2 DEF Meaningless, Readable
  <2>4. QED
    BY <1>1, <2>3 DEF WellFormed
<1>6. QED
  BY <1>2, <1>3, <1>4, <1>5

\* A rule that is refused is one whose body does not bind its head.
LEMMA UnboundForCause ==
  ASSUME LoadTypeOK, LoadInv, ClauseRead, UnboundRule
  PROVE  ~AllBound(token)
<1>1. pc = "place" /\ phase = "rules" /\ ScopesResolve(CurrentClause.scopes)
      /\ ~HeadBound(Loaded(FALSE))
  BY DEF UnboundRule
<1>2. ~BindsHead(SpelledClause(From.symbols, CurrentClause))
  BY <1>1, LoadedBound
<1>3. CurrentClause = Here.rules[msg] /\ msg \in DOMAIN Here.rules
  BY <1>1 DEF CurrentClause, LoadInv, OnStatement, AtStatement, InClause
<1>4. block \in 0 .. Len(token) - 1 /\ Here = token[block + 1] /\ From = Tables(token, block)
  BY AtPlace DEF From
<1>5. QED
  BY <1>2, <1>3, <1>4 DEF AllBound

\* What is more than the room there is does not fit.
LEMMA NoRoom ==
  ASSUME LoadTypeOK, LoadInv, WithinLoops, NEW p \in Resources, NEW n \in Nat,
         n <= Needs(p, token), n > limits[p]
  PROVE  ~Suffices(token, limits)
<1>1. Needs(p, token) \in Nat
  BY BeforeNumber
<1>2. limits[p] \in Nat
  <2>1. limits \in Limit
    BY TokenTyped
  <2>2. QED
    BY <2>1 DEF Limit, Resources, Pools
<1>3. ~(Needs(p, token) <= limits[p])
  BY <1>1, <1>2
<1>4. QED
  BY <1>3 DEF Suffices

\* The clause at hand with what came before it is within what the token needs.
LEMMA HereNeeded ==
  ASSUME LoadTypeOK, LoadInv, WithinLoops, InClause, NEW p \in Pools
  PROVE  TakenBefore(p) \in Nat /\ TakenBefore(p) + PoolTake(p, CurrentClause) <= Needs(p, token)
<1>1. p \in Resources
  BY DEF Resources
<1>2. AtStatement
  BY DEF LoadInv, OnStatement
<1>3. CASE phase = "facts"
  <2>1. msg \in DOMAIN Here.facts
    BY <1>2, <1>3 DEF AtStatement
  <2>2. FactTake(p, Here.facts[msg]) = PoolTake(p, CurrentClause)
    BY <1>3 DEF FactTake, CurrentClause, AsClause
  <2>3. QED
    BY <1>1, <1>3, <2>1, <2>2, FactsNeeded
<1>4. CASE phase = "rules"
  <2>1. msg \in DOMAIN Here.rules
    BY <1>2, <1>4 DEF AtStatement
  <2>2. ClauseTake(p, Here.rules[msg]) = PoolTake(p, CurrentClause)
    BY <1>4 DEF ClauseTake, CurrentClause
  <2>3. QED
    BY <1>1, <1>4, <2>1, <2>2, RulesNeeded
<1>5. CASE phase = "checks"
  <2>1. query \in DOMAIN Here.checks[msg].queries /\ InCheck
    BY <1>2, <1>5 DEF AtStatement, InCheck
  <2>2. ClauseTake(p, Here.checks[msg].queries[query]) = PoolTake(p, CurrentClause)
    BY <1>5 DEF ClauseTake, CurrentClause
  <2>3. QED
    BY <1>1, <2>1, <2>2, QueriesNeeded
<1>6. QED
  BY <1>2, <1>3, <1>4, <1>5 DEF AtStatement

\* A pool that is full is too small for the token.
LEMMA PoolFullForCause ==
  ASSUME LoadTypeOK, LoadInv, ClauseRead, WithinLoops, Accounted, PoolFull
  PROVE  ~Suffices(token, limits)
<1>1. Reserving /\ ~(used[Demand.pool] + Demand.n <= limits[Demand.pool]) /\ InClause
  BY DEF PoolFull, Fits, Reserving, InClause
<1> DEFINE p == Demand.pool
           n == Demand.n
<1>2. /\ p \in Pools /\ n \in Nat /\ TakenHere(p) \in Nat
      /\ TakenHere(p) + n <= PoolTake(p, CurrentClause)
  BY <1>1, DemandNeeded
<1>3. ~(used[p] + n <= limits[p])
  BY <1>1
<1> HIDE DEF p, n
<1>4. TakenBefore(p) \in Nat /\ TakenBefore(p) + PoolTake(p, CurrentClause) <= Needs(p, token)
  BY <1>1, <1>2, HereNeeded
<1>5. PoolTake(p, CurrentClause) \in Nat /\ Needs(p, token) \in Nat
  <2>1. CurrentClause \in Clause /\ p \in Resources
    BY <1>1, <1>2, ClauseTyped DEF Resources
  <2>2. QED
    BY <1>2, <2>1, PoolTakeTyped, BeforeNumber
<1>6. used[p] = TakenBefore(p) + TakenHere(p)
  <2>1. p \in Resources /\ Taken(p) = used[p]
    BY <1>2 DEF Resources, Taken
  <2>2. QED
    BY <1>1, <1>2, <2>1 DEF Accounted
<1> DEFINE k == TakenBefore(p) + TakenHere(p) + n
<1>7. k \in Nat /\ k <= Needs(p, token)
  BY <1>2, <1>4, <1>5
<1>8. k > limits[p]
  <2>1. limits[p] \in Nat
    <3>1. limits \in Limit
      BY TokenTyped
    <3>2. QED
      BY <1>2, <3>1 DEF Limit, Pools
  <2>2. QED
    BY <1>2, <1>3, <1>4, <1>6, <2>1
<1>9. p \in Resources
  BY <1>2 DEF Resources
<1> HIDE DEF k
<1>10. QED
  BY <1>7, <1>8, <1>9, NoRoom

\* So is a run of statements that is full.
LEMMA RunFullForCause ==
  ASSUME LoadTypeOK, LoadInv, WithinLoops, Accounted,
         \/ NextFact /\ ~(Len(facts) < limits.facts)
         \/ NextRule /\ ~(Len(rules) < limits.rules)
         \/ NextCheck /\ Len(rules) + Len(Here.checks[msg].queries) > limits.rules
         \/ NoCheckRoom
  PROVE  ~Suffices(token, limits)
<1>1. /\ "facts" \in Resources /\ "rules" \in Resources /\ "checks" \in Resources
      /\ "facts" \notin Pools /\ "rules" \notin Pools /\ "checks" \notin Pools
  BY DEF Resources, Pools
<1>2. /\ Len(facts) \in Nat /\ Len(rules) \in Nat /\ Len(checks) \in Nat
  BY WorldTyped
<1>3. limits.facts \in Nat /\ limits.rules \in Nat /\ limits.checks \in Nat
      /\ limits["facts"] = limits.facts /\ limits["rules"] = limits.rules
      /\ limits["checks"] = limits.checks
  <2>1. limits \in Limit
    BY TokenTyped
  <2>2. QED
    BY <2>1 DEF Limit
<1>4. /\ TakenBefore("facts") = Len(facts) /\ TakenBefore("rules") = Len(rules)
      /\ TakenBefore("checks") = Len(checks)
  <2>1. ASSUME NEW p \in {"facts", "rules", "checks"} PROVE Taken(p) = TakenBefore(p)
    <3>1. p \in Resources /\ p \notin Pools
      BY <1>1, <2>1
    <3>2. TakenBefore(p) \in Nat
      BY <3>1, BeforeNumber
    <3>3. Taken(p) = TakenBefore(p) + 0
      BY <3>1 DEF Accounted
    <3>4. QED
      BY <3>2, <3>3
  <2>2. Taken("facts") = Len(facts) /\ Taken("rules") = Len(rules) /\ Taken("checks") = Len(checks)
    BY <1>1 DEF Taken
  <2>3. QED
    BY <2>1, <2>2
<1>5. CASE NextFact /\ ~(Len(facts) < limits.facts)
  <2>1. phase = "facts" /\ msg \in DOMAIN Here.facts
    BY <1>5, PlaceNumbers DEF NextFact
  <2>2. FactTake("facts", Here.facts[msg]) = 1
    BY <1>1 DEF FactTake
  <2>3. Len(facts) + 1 <= Needs("facts", token)
    BY <1>1, <1>4, <2>1, <2>2, FactsNeeded
  <2>4. QED
    BY <1>1, <1>2, <1>3, <1>5, <2>3, NoRoom
<1>6. CASE NextRule /\ ~(Len(rules) < limits.rules)
  <2>1. phase = "rules" /\ msg \in DOMAIN Here.rules
    BY <1>6, PlaceNumbers DEF NextRule
  <2>2. ClauseTake("rules", Here.rules[msg]) = 1
    BY <1>1 DEF ClauseTake
  <2>3. Len(rules) + 1 <= Needs("rules", token)
    BY <1>1, <1>4, <2>1, <2>2, RulesNeeded
  <2>4. QED
    BY <1>1, <1>2, <1>3, <1>6, <2>3, NoRoom
<1>7. CASE NextCheck /\ Len(rules) + Len(Here.checks[msg].queries) > limits.rules
  <2>1. phase = "checks" /\ msg \in DOMAIN Here.checks /\ ~InCheck
    BY <1>7, PlaceNumbers DEF NextCheck, InCheck, InClause
  <2>2. Here.checks[msg] \in CheckMessage
    BY <2>1, AtPlace, ElementOfSeq
  <2>3. CheckTake("rules", Here.checks[msg]) = Len(Here.checks[msg].queries)
        /\ Len(Here.checks[msg].queries) \in Nat
    <3>1. SumOf(QueryTakes("rules", Here.checks[msg])) = Len(Here.checks[msg].queries)
          /\ Len(Here.checks[msg].queries) \in Nat
      BY <1>1, <2>2, QueryTakesTyped
    <3>2. QED
      BY <3>1 DEF CheckTake
  <2>4. Len(rules) + Len(Here.checks[msg].queries) <= Needs("rules", token)
    BY <1>1, <1>4, <2>1, <2>3, ChecksNeeded
  <2> DEFINE l == Len(Here.checks[msg].queries)
  <2>5. Len(rules) + l \in Nat /\ Len(rules) + l > limits["rules"]
        /\ Len(rules) + l <= Needs("rules", token)
    BY <1>2, <1>3, <1>7, <2>3, <2>4
  <2> HIDE DEF l
  <2>6. QED
    BY <1>1, <2>5, NoRoom
<1>8. CASE NoCheckRoom
  <2>1. pc = "query" /\ query > Len(Here.checks[msg].queries) /\ Len(checks) >= limits.checks
    BY <1>8 DEF NoCheckRoom
  <2>2. InCheck
    BY <2>1 DEF LoadInv, OnStatement, InCheck
  <2>3. Len(checks) + 1 <= Needs("checks", token)
    BY <1>1, <1>4, <2>1, <2>2, QueriesNeeded
  <2>4. Len(checks) + 1 \in Nat /\ Len(checks) + 1 > limits["checks"]
    BY <1>2, <1>3, <2>1
  <2>5. QED
    BY <1>1, <2>3, <2>4, NoRoom
<1>9. QED
  BY <1>5, <1>6, <1>7, <1>8

-----------------------------------------------------------------------------
(* There are so many texts.                                                *)

\* The values of a function over a finite set.
LEMMA ImageFinite ==
  ASSUME NEW S, IsFiniteSet(S), NEW f, NEW T, T = {f[x] : x \in S}
  PROVE  IsFiniteSet(T) /\ Cardinality(T) <= Cardinality(S)
<1> DEFINE g == [x \in S |-> f[x]]
<1>1. g \in [S -> T] /\ \A y \in T : \E x \in S : g[x] = y
  OBVIOUS
<1> HIDE DEF g
<1>2. g \in Surjection(S, T)
  BY <1>1 DEF Surjection
<1>3. QED
  BY <1>2, FS_Surjection

\* The elements of a sequence are finitely many.
LEMMA RunFinite ==
  ASSUME NEW S, NEW s \in Seq(S)
  PROVE  IsFiniteSet(ToSet(s)) /\ IsFiniteSet(DOMAIN s)
<1>1. Len(s) \in Nat /\ DOMAIN s = 1 .. Len(s)
  BY LenProperties
<1>2. IsFiniteSet(DOMAIN s)
  BY <1>1, FS_Interval
<1>3. ToSet(s) = {s[k] : k \in DOMAIN s}
  BY DEF ToSet
<1>4. QED
  BY <1>2, <1>3, ImageFinite

\* So are the numbers of a clause.
LEMMA NumbersFinite ==
  ASSUME NEW c \in Clause
  PROVE  IsFiniteSet(ClauseNumbers(c))
<1>1. /\ c.head \in Predicate /\ c.body \in Seq(Predicate) /\ c.expr \in Seq(Test)
  BY ClauseFields
<1>2. ASSUME NEW p \in Predicate PROVE IsFiniteSet(NumbersOf(p))
  <2> DEFINE f == [k \in DOMAIN p.terms |-> p.terms[k].sym]
             T == {p.terms[k].sym : k \in DOMAIN p.terms}
             O == {p.name}
  <2>1. IsFiniteSet(DOMAIN p.terms)
    <3>1. p.terms \in Seq(Term)
      BY DEF Predicate
    <3>2. QED
      BY <3>1, RunFinite
  <2>2. T = {f[k] : k \in DOMAIN p.terms}
    OBVIOUS
  <2>3. NumbersOf(p) = O \cup T
    BY DEF NumbersOf
  <2> HIDE DEF f, T
  <2>4. IsFiniteSet(T)
    BY <2>1, <2>2, ImageFinite
  <2>5. IsFiniteSet(O)
    BY FS_Singleton
  <2> HIDE DEF O
  <2>6. QED
    BY <2>3, <2>4, <2>5, FS_Union
<1>3. ASSUME NEW e \in Test PROVE IsFiniteSet(TestNumbers(e))
  <2> DEFINE L == {e.left.sym}
             R == {e.right.sym}
  <2>1. TestNumbers(e) = L \cup R
    BY DEF TestNumbers
  <2>2. IsFiniteSet(L) /\ IsFiniteSet(R)
    BY FS_Singleton
  <2> HIDE DEF L, R
  <2>3. QED
    BY <2>1, <2>2, FS_Union
<1> DEFINE B == {NumbersOf(c.body[i]) : i \in DOMAIN c.body}
           E == {TestNumbers(c.expr[e]) : e \in DOMAIN c.expr}
<1>4. IsFiniteSet(UNION B)
  <2> DEFINE f == [i \in DOMAIN c.body |-> NumbersOf(c.body[i])]
  <2>1. B = {f[i] : i \in DOMAIN c.body}
    OBVIOUS
  <2>2. \A T \in B : IsFiniteSet(T)
    BY <1>1, <1>2
  <2> HIDE DEF f, B
  <2>3. IsFiniteSet(DOMAIN c.body)
    BY <1>1, RunFinite
  <2>4. IsFiniteSet(B)
    BY <2>1, <2>3, ImageFinite
  <2>5. QED
    BY <2>2, <2>4, FS_UNION
<1>5. IsFiniteSet(UNION E)
  <2> DEFINE f == [e \in DOMAIN c.expr |-> TestNumbers(c.expr[e])]
  <2>1. E = {f[e] : e \in DOMAIN c.expr}
    OBVIOUS
  <2>2. \A T \in E : IsFiniteSet(T)
    BY <1>1, <1>3
  <2> HIDE DEF f, E
  <2>3. IsFiniteSet(DOMAIN c.expr)
    BY <1>1, RunFinite
  <2>4. IsFiniteSet(E)
    BY <2>1, <2>3, ImageFinite
  <2>5. QED
    BY <2>2, <2>4, FS_UNION
<1> DEFINE H == NumbersOf(c.head)
           P == UNION B
           Q == UNION E
<1>6. ClauseNumbers(c) = (H \cup P) \cup Q
  BY DEF ClauseNumbers
<1>7. IsFiniteSet(H) /\ IsFiniteSet(P) /\ IsFiniteSet(Q)
  BY <1>1, <1>2, <1>4, <1>5
<1> HIDE DEF H, P, Q
<1>8. IsFiniteSet(H \cup P)
  BY <1>7, FS_Union
<1>9. QED
  BY <1>6, <1>7, <1>8, FS_Union

\* What is in parts one after the other is in one of them.
LEMMA FromOnePart ==
  ASSUME NEW S, NEW parts \in Seq(Seq(S)), NEW x \in ToSet(FlattenSeq(parts))
  PROVE  \E i \in 1 .. Len(parts) : x \in ToSet(parts[i])
<1> DEFINE In == {n \in Nat : n <= Len(parts) /\ x \in ToSet(FirstParts(parts, n))}
<1>1. Len(parts) \in Nat
  BY LenProperties
<1>2. Len(parts) \in In
  BY <1>1, AllBefore
<1>3. PICK n \in In : \A k \in In : n <= k
  <2>1. In \in SUBSET Nat /\ In # {}
    BY <1>2
  <2> HIDE DEF In
  <2>2. QED
    BY <2>1, LeastNumber
<1>4. n \in Nat /\ n <= Len(parts) /\ x \in ToSet(FirstParts(parts, n))
  BY <1>3
<1>5. n # 0
  <2>1. ToSet(<<>>) = {}
    BY DEF ToSet
  <2>2. FirstParts(parts, 0) = <<>>
    BY NoneBefore
  <2>3. QED
    BY <1>4, <2>1, <2>2
<1>6. n - 1 \in Nat /\ n - 1 < Len(parts) /\ (n - 1) + 1 = n /\ n \in 1 .. Len(parts)
  BY <1>1, <1>4, <1>5
<1>7. n - 1 \notin In
  BY <1>3, <1>4, <1>6
<1>8. x \notin ToSet(FirstParts(parts, n - 1))
  BY <1>1, <1>6, <1>7
<1> HIDE DEF In
<1>9. /\ FirstParts(parts, n) = FirstParts(parts, n - 1) \o parts[n]
      /\ FirstParts(parts, n - 1) \in Seq(S) /\ parts[n] \in Seq(S)
  <2>1. \A k \in Nat : k < Len(parts) =>
          /\ FirstParts(parts, k + 1) = FirstParts(parts, k) \o parts[k + 1]
          /\ FirstParts(parts, k) \in Seq(S) /\ parts[k + 1] \in Seq(S)
    BY OneMore
  <2>2. QED
    BY <1>6, <2>1
<1>10. ToSet(FirstParts(parts, n)) = ToSet(FirstParts(parts, n - 1)) \cup ToSet(parts[n])
  BY <1>9, SetOfJoin
<1>11. QED
  BY <1>4, <1>6, <1>8, <1>10

\* Statements are these and nothing else.
LEMMA StatementIs ==
  ASSUME NEW t \in Seq(Message), NEW b \in 0 .. Len(t) - 1, NEW c \in ToSet(Statements(t, b))
  PROVE  /\ c \in Clause
         /\ \/ \E n \in DOMAIN t[b + 1].facts : c = AsClause(t[b + 1].facts[n])
            \/ \E n \in DOMAIN t[b + 1].rules : c = t[b + 1].rules[n]
            \/ \E m \in DOMAIN t[b + 1].checks : \E n \in DOMAIN t[b + 1].checks[m].queries :
                 c = t[b + 1].checks[m].queries[n]
<1> DEFINE M == t[b + 1]
           fs == FactClauses(M)
           qs == QueryRuns(M)
<1>1. /\ DOMAIN fs = DOMAIN M.facts
      /\ qs \in Seq(Seq(Clause)) /\ DOMAIN qs = 1 .. Len(qs) /\ DOMAIN qs = DOMAIN M.checks
      /\ Statements(t, b) \in Seq(Clause)
      /\ ToSet(Statements(t, b)) = ToSet(fs) \cup (ToSet(M.rules) \cup ToSet(FlattenSeq(qs)))
  BY StatementsAre
<1>2. c \in Clause
  BY <1>1, ElementOfSeq, LenProperties DEF ToSet
<1>3. CASE c \in ToSet(fs)
  BY <1>2, <1>3 DEF ToSet, FactClauses
<1>4. CASE c \in ToSet(M.rules)
  BY <1>2, <1>4 DEF ToSet
<1>5. CASE c \in ToSet(FlattenSeq(qs))
  <2> HIDE DEF qs
  <2>1. PICK m \in 1 .. Len(qs) : c \in ToSet(qs[m])
    BY <1>1, <1>5, FromOnePart
  <2>2. m \in DOMAIN M.checks /\ qs[m] = M.checks[m].queries
    BY <1>1 DEF qs, QueryRuns
  <2>3. \E n \in DOMAIN M.checks[m].queries : c = M.checks[m].queries[n]
    BY <2>1, <2>2 DEF ToSet
  <2>4. QED
    BY <1>2, <2>2, <2>3
<1>6. QED
  BY <1>1, <1>2, <1>3, <1>4, <1>5

\* Of each block there are finitely many.
LEMMA StatementsFinite ==
  ASSUME NEW t \in Seq(Message), NEW b \in 0 .. Len(t) - 1
  PROVE  Statements(t, b) \in Seq(Clause) /\ IsFiniteSet(ToSet(Statements(t, b)))
<1>1. Statements(t, b) \in Seq(Clause)
  BY StatementsAre
<1>2. QED
  BY <1>1, RunFinite

\* The texts a token needs are finitely many.
LEMMA NewTextsFinite ==
  ASSUME NEW t \in Seq(Message)
  PROVE  IsFiniteSet(NewTexts(t))
<1>1. ASSUME NEW b \in 0 .. Len(t) - 1 PROVE IsFiniteSet(TextsOf(t, b))
  <2> DEFINE C == ToSet(Statements(t, b))
             N == {ClauseNumbers(c) : c \in C}
             f == [c \in C |-> ClauseNumbers(c)]
             g == [i \in UNION N |-> Spelled(Tables(t, b).symbols, i)]
  <2>1. IsFiniteSet(C) /\ \A c \in C : c \in Clause
    BY StatementsFinite, StatementIs
  <2>2. N = {f[c] : c \in C}
    OBVIOUS
  <2>3. \A T \in N : IsFiniteSet(T)
    BY <2>1, NumbersFinite
  <2>4. TextsOf(t, b) = {Spelled(Tables(t, b).symbols, i) : i \in UNION N}
    BY DEF TextsOf
  <2> HIDE DEF C, f, N
  <2>5. IsFiniteSet(N)
    BY <2>1, <2>2, ImageFinite
  <2>6. IsFiniteSet(UNION N)
    BY <2>3, <2>5, FS_UNION
  <2>7. TextsOf(t, b) = {g[i] : i \in UNION N}
    BY <2>4
  <2> HIDE DEF g
  <2>8. QED
    BY <2>6, <2>7, ImageFinite
<1> DEFINE B == 0 .. Len(t) - 1
           U == {TextsOf(t, b) : b \in B}
           f == [b \in B |-> TextsOf(t, b)]
           X == {<<>>} \cup {<<s>> : s \in ToSet(WellKnown) \cup ToSet(Seed(t))}
<1>2. IsFiniteSet(B)
  <2>1. 0 \in Int /\ Len(t) - 1 \in Int
    BY LenProperties
  <2>2. QED
    BY <2>1, FS_Interval
<1>3. U = {f[b] : b \in B}
  OBVIOUS
<1>4. \A T \in U : IsFiniteSet(T)
  BY <1>1
<1>5. NewTexts(t) = (UNION U) \ X
  BY DEF NewTexts, TextsOf
<1> HIDE DEF B, U, f, X
<1>6. IsFiniteSet(U)
  BY <1>2, <1>3, ImageFinite
<1>7. IsFiniteSet(UNION U)
  BY <1>4, <1>6, FS_UNION
<1>8. NewTexts(t) \in SUBSET UNION U
  BY <1>5
<1>9. QED
  BY <1>7, <1>8, FS_Subset

\* What is in the table beyond its seed, and one text more, is less than the
\* token needs.
LEMMA NoSymbolForCause ==
  ASSUME LoadTypeOK, LoadInv, ClauseRead, EntriesNeeded, NoSymbolRoom
  PROVE  ~Suffices(token, limits)
<1> DEFINE s == Len(Seed(token))
           l == Len(entries)
           N == NewTexts(token)
           x == <<Spelling>>
           f == [j \in s + 1 .. l |-> <<entries[j]>>]
<1>1. /\ Reading /\ Nameable /\ ~Known(entries, Spelling) /\ ~(l < s + limits.extra)
  BY DEF NoSymbolRoom, SymbolRoom
<1>2. /\ s \in Nat /\ l \in Nat /\ limits.extra \in Nat /\ token \in Seq(Message)
      /\ entries \in Seq(Text) /\ DOMAIN entries = 1 .. l
  <2>1. limits \in Limit /\ token \in Seq(Message) /\ Seed(token) \in Seq(Text)
    BY TokenTyped
  <2>2. entries \in Seq(Text)
    BY DEF LoadTypeOK
  <2>3. QED
    BY <2>1, <2>2, LenProperties DEF Limit
<1>3. x \in N
  BY <1>1, SpellingIsNew
<1>4. \A j \in 1 .. l : entries[j] # Spelling
  <2>1. Spelling \notin ToSet(entries)
    BY <1>1 DEF Known
  <2>2. QED
    BY <1>2, <2>1 DEF ToSet
<1>5. \A j \in s + 1 .. l : /\ <<entries[j]>> \in N
                            /\ \A k \in 1 .. l : entries[j] = entries[k] => j = k
  BY DEF EntriesNeeded
<1>6. IsFiniteSet(N)
  BY <1>2, NewTextsFinite
<1> HIDE DEF s, l, N
<1>7. f \in Injection(s + 1 .. l, N \ {x})
  <2>1. ASSUME NEW j \in s + 1 .. l PROVE j \in 1 .. l /\ <<entries[j]>> \in N \ {x}
    <3>1. j \in 1 .. l
      BY <1>2
    <3>2. entries[j] # Spelling
      BY <1>4, <3>1
    <3>3. <<entries[j]>> # x
      BY <3>2
    <3> HIDE DEF x
    <3>4. QED
      BY <1>5, <3>1, <3>3
  <2>2. f \in [s + 1 .. l -> N \ {x}]
    BY <2>1
  <2>3. ASSUME NEW j \in s + 1 .. l, NEW k \in s + 1 .. l, f[j] = f[k] PROVE j = k
    <3>1. <<entries[j]>> = <<entries[k]>>
      BY <2>3
    <3>2. entries[j] = entries[k]
      BY <3>1
    <3>3. QED
      BY <1>5, <2>1, <3>2
  <2> HIDE DEF f, x
  <2>4. QED
    BY <2>2, <2>3 DEF Injection, IsInjective
<1> HIDE DEF f, x
<1>8. IsFiniteSet(N \ {x}) /\ Cardinality(N \ {x}) = Cardinality(N) - 1
  BY <1>3, <1>6, FS_RemoveElement
<1>9. Cardinality(s + 1 .. l) <= Cardinality(N \ {x})
  BY <1>7, <1>8, FS_Injection
<1>10. Cardinality(s + 1 .. l) = IF s + 1 > l THEN 0 ELSE l - (s + 1) + 1
  <2>1. s + 1 \in Int /\ l \in Int
    BY <1>2
  <2>2. QED
    BY <2>1, FS_Interval
<1>11. Cardinality(N) \in Nat
  BY <1>6, FS_CardinalityType
<1>12. Cardinality(N \ {x}) \in Nat
  BY <1>8, FS_CardinalityType
<1>13. l - s <= Cardinality(N) - 1
  BY <1>2, <1>8, <1>9, <1>10, <1>11, <1>12
<1>14. ~(Cardinality(N) <= limits.extra)
  BY <1>1, <1>2, <1>11, <1>13
<1>15. QED
  BY <1>14 DEF Suffices, N

-----------------------------------------------------------------------------
(* What a load that succeeds has seen.                                     *)

\* The last loop of the last block is over.
AtTheEnd == /\ pc = "next" /\ phase = "checks" /\ msg > Len(Here.checks)
            /\ ~(block + 1 < Len(token))

\* Everything is behind it.
LEMMA AllBehind ==
  ASSUME LoadTypeOK, LoadInv, ReadiedBehind, AtTheEnd, NEW b \in 0 .. Len(token) - 1
  PROVE  LET m == token[b + 1]
         IN  /\ \A n \in DOMAIN m.facts : Readied(b, AsClause(m.facts[n]))
             /\ \A s \in ToSet(m.scopes) : Resolvable(token, b, s)
             /\ \A n \in DOMAIN m.rules : ReadiedRule(b, m.rules[n])
             /\ \A n \in DOMAIN m.checks :
                  /\ ~Meaningless(m.checks[n])
                  /\ ReadiedQueries(b, m.checks[n], Len(m.checks[n].queries) + 1)
<1>1. /\ block \in 0 .. Len(token) - 1 /\ Len(token) \in Nat /\ msg \in Nat \ {0}
      /\ Here = token[block + 1]
  BY AtPlace
<1> DEFINE m == token[b + 1]
<1>2. DOMAIN m.checks = 1 .. Len(m.checks) /\ Len(m.checks) \in Nat
  BY BlockNumbers
<1>3. phase = "checks" /\ (b < block \/ b = block)
  BY <1>1 DEF AtTheEnd
<1>4. ScopeBehind(b) /\ \A n : FactBehind(b, n) /\ RuleBehind(b, n)
  BY <1>3 DEF FactBehind, ScopeBehind, RuleBehind, LogicBehind
<1>5. ASSUME NEW n \in DOMAIN m.checks PROVE CheckBehind(b, n)
  <2>1. b = block => n < msg
    BY <1>1, <1>2 DEF AtTheEnd
  <2>2. QED
    BY <1>3, <2>1 DEF CheckBehind, LogicBehind
<1>6. QED
  BY <1>4, <1>5 DEF ReadiedBehind

\* So every statement is one the table can spell, and its scopes mean
\* something.
LEMMA StatementsReadied ==
  ASSUME LoadTypeOK, LoadInv, ReadiedBehind, AtTheEnd, NEW b \in 0 .. Len(token) - 1,
         NEW c \in ToSet(Statements(token, b))
  PROVE  ReadiedScoped(b, c)
<1> DEFINE m == token[b + 1]
<1>1. /\ \A n \in DOMAIN m.facts : Readied(b, AsClause(m.facts[n]))
      /\ \A n \in DOMAIN m.rules : ReadiedScoped(b, m.rules[n])
      /\ \A n \in DOMAIN m.checks : ReadiedQueries(b, m.checks[n], Len(m.checks[n].queries) + 1)
  BY AllBehind DEF ReadiedRule
<1>2. token \in Seq(Message) /\ m \in Message
  BY TokenTyped, BlockNumbers
<1>3. \/ \E n \in DOMAIN m.facts : c = AsClause(m.facts[n])
      \/ \E n \in DOMAIN m.rules : c = m.rules[n]
      \/ \E k \in DOMAIN m.checks : \E n \in DOMAIN m.checks[k].queries : c = m.checks[k].queries[n]
  BY <1>2, StatementIs
<1>4. CASE \E n \in DOMAIN m.facts : c = AsClause(m.facts[n])
  <2>1. PICK n \in DOMAIN m.facts : c = AsClause(m.facts[n])
    BY <1>4
  <2>2. Readied(b, c) /\ c.scopes = <<>>
    BY <1>1, <2>1 DEF AsClause
  <2>3. ToSet(c.scopes) = {}
    BY <2>2 DEF ToSet
  <2>4. QED
    BY <2>2, <2>3 DEF ReadiedScoped
<1>5. CASE \E n \in DOMAIN m.rules : c = m.rules[n]
  BY <1>1, <1>5
<1>6. CASE \E k \in DOMAIN m.checks : \E n \in DOMAIN m.checks[k].queries : c = m.checks[k].queries[n]
  <2>0. PICK k \in DOMAIN m.checks : \E n \in DOMAIN m.checks[k].queries : c = m.checks[k].queries[n]
    BY <1>6
  <2>1. PICK n \in DOMAIN m.checks[k].queries : c = m.checks[k].queries[n]
    BY <2>0
  <2>2. m.checks[k] \in CheckMessage
    BY <1>2, <2>1, MessageFields, ElementOfSeq, LenProperties
  <2>3. m.checks[k].queries \in Seq(Clause)
    BY <2>2 DEF CheckMessage
  <2>4. n < Len(m.checks[k].queries) + 1
    BY <2>1, <2>3, LenProperties
  <2>5. ReadiedScoped(b, m.checks[k].queries[n])
    BY <1>1, <2>1, <2>4 DEF ReadiedQueries
  <2>6. QED
    BY <2>1, <2>5
<1>7. QED
  BY <1>3, <1>4, <1>5, <1>6

\* The token is well formed.
LEMMA WellFormedEnd ==
  ASSUME LoadTypeOK, LoadInv, ReadiedBehind, AtTheEnd
  PROVE  WellFormed(token)
<1>1. SUFFICES ASSUME NEW b \in 0 .. Len(token) - 1
               PROVE  Readable(token, b, Tables(token, b))
  BY DEF WellFormed
<1> DEFINE m == token[b + 1]
<1>2. /\ \A s \in ToSet(m.scopes) : Resolvable(token, b, s)
      /\ \A n \in DOMAIN m.checks : ~Meaningless(m.checks[n])
  BY AllBehind
<1>3. \A c \in ToSet(m.checks) : c.kind # "unknown" /\ c.queries # <<>>
  BY <1>2 DEF ToSet, Meaningless
<1>4. ASSUME NEW c \in ToSet(Statements(token, b))
      PROVE  /\ \A i \in ClauseNumbers(c) : CanName(Tables(token, b).symbols, i)
             /\ \A s \in ToSet(c.scopes) : Resolvable(token, b, s)
  BY StatementsReadied DEF ReadiedScoped, Readied
<1>5. \A s : Resolvable(token, b, s) =>
         /\ s.kind # "unknown"
         /\ s.kind = "key" => s.key < Len(Tables(token, b).keys)
  BY DEF Resolvable
<1> HIDE DEF m
<1>6. \A c \in ToSet(Statements(token, b)) : \A s \in ToSet(c.scopes) \cup ToSet(m.scopes) :
         Resolvable(token, b, s)
  BY <1>2, <1>4
<1>7. QED
  BY <1>2, <1>3, <1>4, <1>5, <1>6 DEF Readable, m

\* Every rule binds its head.
LEMMA BoundEnd ==
  ASSUME LoadTypeOK, LoadInv, ReadiedBehind, AtTheEnd
  PROVE  AllBound(token)
<1>1. \A b \in 0 .. Len(token) - 1 : \A n \in DOMAIN token[b + 1].rules :
        ReadiedRule(b, token[b + 1].rules[n])
  BY AllBehind
<1>2. QED
  BY <1>1 DEF AllBound, ReadiedRule

\* All of it is taken.
LEMMA TakenEnd ==
  ASSUME LoadTypeOK, LoadInv, Accounted, AtTheEnd, WithinLoops, NEW p \in Resources
  PROVE  Taken(p) = Needs(p, token)
<1>1. /\ block \in Nat /\ Len(token) \in Nat /\ block < Len(token) /\ Here \in Message
      /\ msg \in Nat \ {0} /\ Len(Here.checks) \in Nat
  BY AtPlace
<1>2. block + 1 = Len(token) /\ phase = "checks" /\ pc = "next" /\ msg - 1 = Len(Here.checks)
  BY <1>1 DEF AtTheEnd, WithinLoops
<1>3. ~InClause /\ ~InCheck
  BY <1>2 DEF InClause, InCheck
<1>4. Taken(p) = TakenBefore(p) + 0
  BY <1>3 DEF Accounted
<1> DEFINE R == SumOf(RuleTakes(p, Here))
           C == SumOf(CheckTakes(p, Here))
           F == SumOf(FactsTake(p, token))
           B == SumTo(LogicTake(p, token), block)
           L == SumOf(LogicTake(p, token))
<1>5. RuledSoFar(p) = R + C + 0
  <2>1. SumTo(CheckTakes(p, Here), msg - 1) = C
    BY <1>1, <1>2, MessageAlong
  <2> HIDE DEF R, C
  <2>2. RuledSoFar(p) = R + SumTo(CheckTakes(p, Here), msg - 1) + 0
    BY <1>2, <1>3 DEF RuledSoFar, R
  <2>3. QED
    BY <2>1, <2>2
<1>6. TakenBefore(p) = F + B + RuledSoFar(p)
  BY <1>2 DEF TakenBefore
<1>7. R \in Nat /\ C \in Nat /\ F \in Nat /\ B \in Nat /\ L \in Nat /\ B + (R + C) = L
  BY <1>2, BlockAlong
<1>8. Needs(p, token) = F + L
  BY DEF Needs
<1> HIDE DEF R, C, F, B, L
<1>9. QED
  BY <1>4, <1>5, <1>6, <1>7, <1>8

\* What the token needs of texts is in the table, beyond its seed.
LEMMA TextsEnd ==
  ASSUME LoadTypeOK, LoadInv, ReadiedBehind, EntriesNeeded, AtTheEnd, NEW x \in NewTexts(token)
  PROVE  \E j \in Len(Seed(token)) + 1 .. Len(entries) : x = <<entries[j]>>
<1>1. PICK b \in 0 .. Len(token) - 1 : x \in TextsOf(token, b)
  <2> DEFINE A == UNION {TextsOf(token, b) : b \in 0 .. Len(token) - 1}
             B == {<<>>} \cup {<<s>> : s \in ToSet(WellKnown) \cup ToSet(Seed(token))}
  <2>1. NewTexts(token) = A \ B
    BY DEF NewTexts, TextsOf
  <2> HIDE DEF B
  <2>2. QED
    BY <2>1
<1>2. PICK c \in ToSet(Statements(token, b)) :
         \E i \in ClauseNumbers(c) : x = Spelled(Tables(token, b).symbols, i)
  BY <1>1 DEF TextsOf
<1>20. PICK i \in ClauseNumbers(c) : x = Spelled(Tables(token, b).symbols, i)
  BY <1>2
<1> DEFINE s == TextOf(Tables(token, b).symbols, i)
<1>3. CanName(Tables(token, b).symbols, i) /\ Known(entries, s)
  BY StatementsReadied DEF ReadiedScoped, Readied
<1>4. x = <<s>>
  BY <1>20, <1>3 DEF Spelled
<1> HIDE DEF s
<1>5. s \notin ToSet(WellKnown) /\ s \notin ToSet(Seed(token))
  BY <1>4, NewTextIs
<1>6. s \in ToSet(entries)
  BY <1>3, <1>5 DEF Known
<1>7. PICK j \in DOMAIN entries : entries[j] = s
  BY <1>6 DEF ToSet
<1>8. /\ entries \in Seq(Text) /\ Seed(token) \in Seq(Text) /\ IsPrefix(Seed(token), entries)
  BY TokenTyped DEF LoadTypeOK, EntriesNeeded
<1>9. /\ Len(entries) \in Nat /\ Len(Seed(token)) \in Nat
      /\ DOMAIN entries = 1 .. Len(entries) /\ DOMAIN Seed(token) = 1 .. Len(Seed(token))
      /\ \A k \in 1 .. Len(Seed(token)) : Seed(token)[k] = entries[k]
  BY <1>8, PrefixPlaces, LenProperties
<1>10. j \notin DOMAIN Seed(token)
  BY <1>5, <1>7, <1>9 DEF ToSet
<1>11. j \in Len(Seed(token)) + 1 .. Len(entries)
  BY <1>7, <1>9, <1>10
<1>12. QED
  BY <1>4, <1>7, <1>11

\* So there was room for all of it.
LEMMA RoomEnd ==
  ASSUME LoadTypeOK, LoadInv, CauseInv, AtTheEnd
  PROVE  Suffices(token, limits)
<1>1. WithinLoops /\ Accounted /\ ReadiedBehind /\ EntriesNeeded
  BY DEF CauseInv, AtTheEnd
<1>2. \A p \in Resources : Needs(p, token) <= limits[p]
  <2>1. \A p \in Pools : used[p] <= limits[p]
    BY DEF LoadTypeOK
  <2>2. /\ Len(facts) <= limits["facts"] /\ Len(rules) <= limits["rules"]
        /\ Len(checks) <= limits["checks"]
    <3>1. limits \in Limit
      BY TokenTyped
    <3>2. QED
      BY <3>1 DEF LoadTypeOK, Limit
  <2>3. ASSUME NEW p \in Resources PROVE Taken(p) <= limits[p]
    BY <2>1, <2>2 DEF Taken, Resources, Pools
  <2>4. QED
    BY <1>1, <2>3, TakenEnd
<1> DEFINE s == Len(Seed(token))
           l == Len(entries)
           J == s + 1 .. l
           f == [j \in J |-> <<entries[j]>>]
           T == {f[j] : j \in J}
           N == NewTexts(token)
<1>3. s \in Nat /\ l \in Nat /\ limits.extra \in Nat /\ l <= s + limits.extra
  <2>1. limits \in Limit /\ Seed(token) \in Seq(Text)
    BY TokenTyped
  <2>2. entries \in Seq(Text) /\ l <= s + limits.extra
    BY DEF LoadTypeOK
  <2>3. QED
    BY <2>1, <2>2, LenProperties DEF Limit
<1>4. N \in SUBSET T
  <2>1. \A x \in N : \E j \in J : x = <<entries[j]>>
    BY <1>1, TextsEnd
  <2> HIDE DEF J, N
  <2>2. QED
    BY <2>1
<1> HIDE DEF s, l, N
<1>5. IsFiniteSet(J) /\ Cardinality(J) = IF s + 1 > l THEN 0 ELSE l - (s + 1) + 1
  <2>1. s + 1 \in Int /\ l \in Int
    BY <1>3
  <2>2. QED
    BY <2>1, FS_Interval
<1>6. Cardinality(J) <= limits.extra
  BY <1>3, <1>5
<1> HIDE DEF f, J
<1>7. IsFiniteSet(T) /\ Cardinality(T) <= Cardinality(J)
  BY <1>5, ImageFinite
<1> HIDE DEF T
<1>8. IsFiniteSet(N) /\ Cardinality(N) <= Cardinality(T)
  BY <1>4, <1>7, FS_Subset
<1>9. Cardinality(N) \in Nat /\ Cardinality(T) \in Nat /\ Cardinality(J) \in Nat
  BY <1>5, <1>7, <1>8, FS_CardinalityType
<1>10. Cardinality(N) <= limits.extra
  BY <1>3, <1>6, <1>7, <1>8, <1>9
<1>11. QED
  BY <1>2, <1>10 DEF Suffices, N

-----------------------------------------------------------------------------
(* Every stop is for its cause.                                            *)

\* A load that stops says why.
LEMMA StopIsForCause ==
  ASSUME LoadTypeOK, LoadInv, CauseInv, LoadStep, pc' = "stopped"
  PROVE  RefusesForCause'
<1>1. CauseInv /\ pc # "stopped" /\ token' = token /\ limits' = limits
  BY DEF LoadStep, ReadName, ReadTerm, ReadOperand, Unnamed, NoSymbolRoom, Reserve, PoolFull,
         PredicateDone, NextPredicate, NextExpression, PlaceFact, PlaceRule, PlaceQuery, PlaceCheck,
         BadScope, UnboundRule, NoCheckRoom, NextFact, FactsDone, BlockTrust, NextRule, RulesDone,
         NextCheck, NextQuery, ChecksDone, Reading, Reserving
<1>2. ClauseRead /\ WithinLoops /\ Accounted /\ ReadiedBehind /\ EntriesNeeded
  BY <1>1 DEF CauseInv
<1> DEFINE Malformed == \/ Unnamed \/ BadScope
                        \/ BlockTrust /\ ~ScopesResolve(Here.scopes)
                        \/ NextCheck /\ Meaningless(Here.checks[msg])
           Full == \/ NextFact /\ ~(Len(facts) < limits.facts)
                   \/ NextRule /\ ~(Len(rules) < limits.rules)
                   \/ NextCheck /\ Len(rules) + Len(Here.checks[msg].queries) > limits.rules
                   \/ NoCheckRoom
<1>3. \/ Malformed /\ status' = "MALFORMED"
      \/ UnboundRule /\ status' = "UNBOUND"
      \/ (Full \/ PoolFull \/ NoSymbolRoom) /\ status' = "NOMEM"
      \/ AtTheEnd /\ status' = "OK"
  <2>1. CASE Unnamed \/ BadScope
    BY <2>1 DEF Unnamed, BadScope, Refuse
  <2>2. CASE UnboundRule
    BY <2>2 DEF UnboundRule, Refuse
  <2>3. CASE PoolFull \/ NoSymbolRoom \/ NoCheckRoom
    BY <2>3 DEF PoolFull, NoSymbolRoom, NoCheckRoom, Refuse
  <2>4. CASE NextFact
    BY <2>4 DEF NextFact, OpenClause, Refuse
  <2>5. CASE NextRule
    BY <2>5 DEF NextRule, OpenClause, Refuse
  <2>6. CASE BlockTrust
    BY <1>1, <2>6 DEF BlockTrust, Refuse
  <2>7. CASE NextCheck
    BY <2>7 DEF NextCheck, Refuse
  <2>8. CASE ChecksDone
    BY <1>1, <2>8 DEF ChecksDone, Refuse, AtTheEnd
  <2>9. CASE ReadName \/ ReadTerm \/ ReadOperand
    BY <1>1, <2>9 DEF ReadName, ReadTerm, ReadOperand
  <2>10. CASE Reserve
    BY <1>1, <2>10 DEF Reserve, Reserving, Demand
  <2>11. CASE PredicateDone \/ NextPredicate \/ NextExpression \/ NextQuery
    BY <1>1, <2>11 DEF PredicateDone, NextPredicate, NextExpression, NextQuery, OpenClause
  <2>12. CASE PlaceFact \/ PlaceRule \/ PlaceQuery \/ PlaceCheck
    BY <1>1, <2>12 DEF PlaceFact, PlaceRule, PlaceQuery, PlaceCheck
  <2>13. CASE FactsDone \/ RulesDone
    BY <1>1, <2>13 DEF FactsDone, RulesDone
  <2> HIDE DEF Malformed, Full
  <2>14. QED
    BY <2>1, <2>2, <2>3, <2>4, <2>5, <2>6, <2>7, <2>8, <2>9, <2>10, <2>11, <2>12, <2>13
       DEF LoadStep
<1>4. Malformed => ~WellFormed(token)
  BY <1>2, MalformedForCause
<1>5. UnboundRule => ~AllBound(token)
  BY <1>2, UnboundForCause
<1>6. Full \/ PoolFull \/ NoSymbolRoom => ~Suffices(token, limits)
  BY <1>2, RunFullForCause, PoolFullForCause, NoSymbolForCause
<1>7. AtTheEnd => WellFormed(token) /\ AllBound(token) /\ Suffices(token, limits)
  BY <1>2, WellFormedEnd, BoundEnd, RoomEnd
<1> HIDE DEF Malformed, Full
<1>8. QED
  BY <1>1, <1>3, <1>4, <1>5, <1>6, <1>7 DEF RefusesForCause

\* While it runs, there is no refusal yet.
LEMMA NotRefused ==
  ASSUME status = "none"
  PROVE  RefusesForCause
BY DEF RefusesForCause

\* At the start nothing is taken and nothing is behind.
LEMMA CauseInit ==
  ASSUME LoadInit
  PROVE  CauseInv
<1>1. LoadTypeOK /\ LoadInv
  BY LoadInvInit
<1>2. ReadInv
  BY ReadInit
<1>3. /\ block = 0 /\ phase = "facts" /\ msg = 1 /\ pc = "next" /\ status = "none"
      /\ facts = <<>> /\ rules = <<>> /\ checks = <<>> /\ used = [p \in Pools |-> 0]
      /\ entries = Seed(token)
  BY DEF LoadInit
<1>4. ClauseRead /\ WithinLoops
  BY <1>2, <1>3 DEF ReadInv
<1>5. ~InClause /\ ~InCheck
  BY <1>3 DEF InClause, InCheck
<1>6. Accounted
  <2>1. SUFFICES ASSUME NEW p \in Resources PROVE Taken(p) = TakenBefore(p) + 0
    BY <1>5 DEF Accounted
  <2>2. Taken(p) = 0
    BY <1>3, EmptySeq DEF Taken, Resources, Pools
  <2>3. SumTo(FactsTake(p, token), 0) = 0
    BY <1>1, BlockAlong
  <2>4. SumTo(FactTakes(p, Here), 0) = 0
    BY <1>1, AtPlace, MessageAlong
  <2>5. TakenBefore(p) = SumTo(FactsTake(p, token), 0) + SumTo(FactTakes(p, Here), 0)
    BY <1>3 DEF TakenBefore
  <2>6. QED
    BY <2>2, <2>3, <2>4, <2>5
<1>7. ReadiedBehind
  <2>1. ASSUME NEW b \in 0 .. Len(token) - 1
        PROVE  /\ ~ScopeBehind(b)
               /\ \A n \in DOMAIN token[b + 1].facts : ~FactBehind(b, n)
               /\ \A n \in DOMAIN token[b + 1].rules : ~RuleBehind(b, n)
               /\ \A n \in DOMAIN token[b + 1].checks : ~CheckBehind(b, n)
    <3>1. b \in Nat /\ Len(token) \in Nat
      BY <1>1, AtPlace
    <3>2. DOMAIN token[b + 1].facts = 1 .. Len(token[b + 1].facts) /\ Len(token[b + 1].facts) \in Nat
      BY <1>1, BlockNumbers
    <3>3. \A n \in DOMAIN token[b + 1].facts : ~FactBehind(b, n)
      BY <1>3, <3>1, <3>2 DEF FactBehind
    <3>4. ~ScopeBehind(b) /\ \A n : ~RuleBehind(b, n) /\ ~CheckBehind(b, n)
      BY <1>3 DEF LogicBehind, ScopeBehind, RuleBehind, CheckBehind
    <3>5. QED
      BY <3>3, <3>4
  <2>2. QED
    BY <2>1 DEF ReadiedBehind
<1>8. QueriesReadied
  BY <1>5 DEF QueriesReadied
<1>9. EntriesNeeded
  <2>1. Seed(token) \in Seq(Text) /\ Len(Seed(token)) \in Nat
    BY <1>1, TokenTyped, LenProperties
  <2>2. IsPrefix(Seed(token), entries)
    BY <1>3, <2>1, PrefixItself
  <2>3. Len(Seed(token)) + 1 .. Len(entries) = {}
    BY <1>3, <2>1
  <2>4. QED
    BY <2>2, <2>3 DEF EntriesNeeded
<1>10. QED
  BY <1>3, <1>4, <1>6, <1>7, <1>8, <1>9 DEF CauseInv

\* It rests on the loader's variables only.
LEMMA CauseSame ==
  ASSUME CauseInv, RefusesForCause, UNCHANGED loadVars
  PROVE  CauseInv' /\ RefusesForCause'
<1>1. UNCHANGED <<token, limits, entries, facts, rules, checks, used, block, phase, msg, query,
                  at, trust, made, cur, tests, given, pc, status>>
  BY DEF loadVars, poolVars, placeVars, clauseVars
<1>2. RefusesForCause'
  BY <1>1 DEF RefusesForCause
<1>3. SUFFICES ASSUME pc # "stopped" PROVE CauseInv'
  BY <1>1, <1>2 DEF CauseInv
<1>4. Here' = Here /\ From' = From /\ CurrentClause' = CurrentClause
      /\ \A n : PredicateAt(n)' = PredicateAt(n)
  BY <1>1, SameClause
<1>5. Wanted' = Wanted /\ NextTest' = NextTest
  BY <1>1, <1>4 DEF Wanted, NextTest
<1>6. (InCheck' <=> InCheck) /\ (InClause' <=> InClause)
  BY <1>1 DEF InCheck, InClause
<1>7. ClauseRead'
  <2>1. ClauseRead
    BY <1>3 DEF CauseInv
  <2>2. QED
    BY <1>1, <1>4, <1>5, <2>1 DEF ClauseRead, InClause, PredicatesRead, TestsRead, ReadSoFar
<1>8. WithinLoops'
  BY <1>1, <1>3, <1>4, <1>6 DEF CauseInv, WithinLoops
<1>9. Accounted'
  <2>1. ASSUME NEW p \in Resources
        PROVE  /\ Taken(p)' = Taken(p) /\ TakenBefore(p)' = TakenBefore(p)
               /\ TakenHere(p)' = TakenHere(p)
    <3>1. Taken(p)' = Taken(p)
      BY <1>1 DEF Taken
    <3>2. RuledSoFar(p)' = RuledSoFar(p)
      BY <1>1, <1>4, <1>6 DEF RuledSoFar
    <3>3. TakenBefore(p)' = TakenBefore(p)
      BY <1>1, <1>4, <3>2 DEF TakenBefore
    <3>4. TakenHere(p)' = TakenHere(p)
      BY <1>1, <1>4, <1>5 DEF TakenHere
    <3>5. QED
      BY <3>1, <3>3, <3>4
  <2>2. Accounted
    BY <1>3 DEF CauseInv
  <2>3. QED
    BY <1>6, <2>1, <2>2 DEF Accounted
<1>10. ReadiedBehind'
  <2>1. /\ \A b, c : (Readied(b, c)' <=> Readied(b, c)) /\ (ReadiedScoped(b, c)' <=> ReadiedScoped(b, c))
                     /\ (ReadiedRule(b, c)' <=> ReadiedRule(b, c))
        /\ \A b, c, n : ReadiedQueries(b, c, n)' <=> ReadiedQueries(b, c, n)
    BY <1>1 DEF Readied, ReadiedScoped, ReadiedRule, ReadiedQueries
  <2>2. \A b : /\ ScopeBehind(b)' <=> ScopeBehind(b)
               /\ \A n : /\ FactBehind(b, n)' <=> FactBehind(b, n)
                         /\ RuleBehind(b, n)' <=> RuleBehind(b, n)
                         /\ CheckBehind(b, n)' <=> CheckBehind(b, n)
    BY <1>1 DEF FactBehind, LogicBehind, ScopeBehind, RuleBehind, CheckBehind
  <2>3. ReadiedBehind
    BY <1>3 DEF CauseInv
  <2>4. QED
    BY <1>1, <2>1, <2>2, <2>3 DEF ReadiedBehind
<1>11. QueriesReadied'
  BY <1>1, <1>3, <1>4, <1>6 DEF CauseInv, QueriesReadied, Readied, ReadiedScoped, ReadiedQueries
<1>12. EntriesNeeded'
  BY <1>1, <1>3 DEF CauseInv, EntriesNeeded
<1>13. QED
  BY <1>1, <1>3, <1>7, <1>8, <1>9, <1>10, <1>11, <1>12 DEF CauseInv

\* Every step keeps both.
LEMMA CauseKept ==
  ASSUME LoadTypeOK, LoadInv, CauseInv, RefusesForCause, LoadTypeOK', LoadInv',
         [LoadNext]_loadVars
  PROVE  CauseInv' /\ RefusesForCause'
<1>1. CASE UNCHANGED loadVars
  BY <1>1, CauseSame
<1>2. CASE LoadStep /\ pc' = "stopped"
  BY <1>2, StopIsForCause DEF CauseInv
<1>3. CASE LoadStep /\ pc' # "stopped"
  <2>1. CauseInv'
    BY <1>3, CauseStep
  <2>2. status' = "none"
    BY <1>3, <2>1 DEF CauseInv
  <2>3. QED
    BY <2>1, <2>2 DEF RefusesForCause
<1>4. QED
  BY <1>1, <1>2, <1>3 DEF LoadNext, Stopped

\* A load fails for the reason it gives, and a token that gives it no reason
\* is loaded: whatever the tokens, the tables they are read against and the
\* room there is.
THEOREM LoadRefusesForCause == LoadSpec => []RefusesForCause
<1>1. LoadInit => LoadTypeOK /\ LoadInv /\ CauseInv /\ RefusesForCause
  BY LoadInvInit, CauseInit, NotRefused DEF LoadInit
<1>2. /\ LoadTypeOK /\ LoadInv /\ CauseInv /\ RefusesForCause
      /\ LoadTypeOK' /\ LoadInv' /\ [LoadNext]_loadVars
      => CauseInv' /\ RefusesForCause'
  BY CauseKept
<1>3. LoadTypeOK /\ LoadInv /\ [LoadNext]_loadVars => (LoadTypeOK /\ LoadInv)'
  BY LoadInvStep
<1>4. QED
  BY <1>1, <1>2, <1>3, PTL DEF LoadSpec
=============================================================================
