----------------------------- MODULE BsMessage -----------------------------
(***************************************************************************)
(* Symbols, and a block as its message says it.                            *)
(*                                                                         *)
(* Symbols are the well-known ones, the tables a token carries, and the    *)
(* interning table of an evaluation (75_symbols.inc, 105_symtab.inc);      *)
(* their numbers count from 0, as on the wire: those below Offset are the  *)
(* well-known symbols, the others the entries of a table.                  *)
(*                                                                         *)
(* A message (85_block.inc, 95_datalog.inc) is a record of its fields,     *)
(* every symbol a number of the block's own tables.  Of an expression only *)
(* `left op right` is kept, and of a term a string or a variable: the two  *)
(* kinds that carry a symbol.                                              *)
(***************************************************************************)
EXTENDS Naturals, Sequences, SequencesExt

CONSTANTS Text,       \* what a symbol can spell
          WellKnown,  \* BS_DEFAULT_SYMBOLS
          Offset,     \* BS_SYMBOL_OFFSET
          Key,        \* public keys
          NoKey,      \* no external signature
          MaxBlocks   \* BS_MAX_BLOCKS

ASSUME SymbolAssumption == /\ WellKnown \in Seq(Text)
                           /\ Offset \in Nat
                           /\ Len(WellKnown) <= Offset

ASSUME MessageAssumption == NoKey \notin Key /\ MaxBlocks \in Nat \ {0}

-----------------------------------------------------------------------------
(* Symbols.                                                                *)

Symbol == Nat

\* The first place of t in seq, counting from 0.
PlaceOf(t, seq) ==
  CHOOSE k \in 0 .. Len(seq) - 1 : seq[k + 1] = t /\ \A j \in 1 .. k : seq[j] # t

\* bs_symbol_get: the numbers between the well-known symbols and the offset
\* name nothing, nor do those past the table.
CanName(table, i) == \/ i < Len(WellKnown)
                     \/ i >= Offset /\ i - Offset < Len(table)

TextOf(table, i) == IF i < Offset THEN WellKnown[i + 1]
                                  ELSE table[i - Offset + 1]

Known(table, t) == t \in ToSet(WellKnown) \/ t \in ToSet(table)

\* bs_symtab_intern: the number of a text, and the table that has it.
NumberOf(table, t) ==
  IF t \in ToSet(WellKnown) THEN PlaceOf(t, WellKnown)
  ELSE IF t \in ToSet(table) THEN Offset + PlaceOf(t, table)
  ELSE Offset + Len(table)

Interned(table, t) == IF Known(table, t) THEN table ELSE Append(table, t)

-----------------------------------------------------------------------------
(* Messages.                                                               *)

Texts == [kind : {"string"}, sym : Symbol]
Variables == [kind : {"variable"}, sym : Symbol]

INSTANCE BsDatalog WITH Name <- Symbol, Value <- Texts, Var <- Variables

Scope == [kind : {"authority", "previous", "unknown"}] \cup [kind : {"key"}, key : Nat]
Clause == [head : Predicate, body : Seq(Predicate), expr : Seq(Test), scopes : Seq(Scope)]
CheckMessage == [kind : {"one", "all", "reject", "unknown"}, queries : Seq(Clause)]

Message == [external : Key \cup {NoKey},   \* who signed it, if a third party did
            symbols : Seq(Text), keys : Seq(Key),
            scopes : Seq(Scope), facts : Seq(Predicate),
            rules : Seq(Clause), checks : Seq(CheckMessage)]

TablesOf == [symbols : Seq(Text), keys : Seq(Key)]

-----------------------------------------------------------------------------
(* The tables a token's blocks are read against (85_block.inc), and which  *)
(* of them a host passes for a block.                                      *)

\* A key keeps its first place.
Distinct(keys) ==
  LET first[n \in 0 .. Len(keys)] ==
        IF n = 0 THEN <<>>
        ELSE IF keys[n] \in ToSet(first[n - 1]) THEN first[n - 1]
        ELSE Append(first[n - 1], keys[n])
  IN  first[Len(keys)]

\* bs_tables_collect: what the blocks carry, in order; of a third party's,
\* nothing, if those are to be skipped.
Carried(blocks, skip_external, Field(_)) ==
  FlattenSeq([i \in DOMAIN blocks |->
                IF skip_external /\ blocks[i].external # NoKey THEN <<>> ELSE Field(blocks[i])])

Collect(blocks, skip_external) ==
  [symbols |-> Carried(blocks, skip_external, LAMBDA m : m.symbols),
   keys |-> Distinct(Carried(blocks, skip_external, LAMBDA m : m.keys))]

\* bs_tables_build.
TokenTables(t) == Collect(t, TRUE)

\* A slip: every block is read against the token's tables.
TablesShared(t, b) == TokenTables(t)

\* Block b of t is read against the token's tables, or, when a third party
\* signed it, its own (bs_tables_build_block).
BlockTables(t, b) == IF t[b + 1].external = NoKey THEN TokenTables(t)
                                                  ELSE Collect(<<t[b + 1]>>, FALSE)

\* The symbol table starts as the token's own symbols, in their order.
TokenSeed(t) == TokenTables(t).symbols
=============================================================================
