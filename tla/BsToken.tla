------------------------------ MODULE BsToken ------------------------------
(***************************************************************************)
(* The container of a token (60_token.inc).  A message is the sequence of  *)
(* its fields as they come, in any order and any number: what a field is,  *)
(* the wire type it has, and its value, a sequence of fields again where   *)
(* it is a message.  A "broken" field is one bs_pb_next cannot read.       *)
(***************************************************************************)
EXTENDS Integers, FiniteSets, SequencesExt

CONSTANTS Key,       \* bytes as wide as an Ed25519 public key
          Secret,    \* and a private key,
          IsSig(_),  \* as an Ed25519 signature,
          OtherKey,  \* what a secp256r1 public key looks like
          Word,      \* 2^32 - 1
          MaxBlocks  \* BS_MAX_BLOCKS

ASSUME TokenAssumption == Word \in Nat /\ MaxBlocks \in Nat \ {0}

-----------------------------------------------------------------------------
(* What a host may be given.                                               *)

\* A message is a sequence of fields, of those names that its schema gives a
\* meaning, besides the unknown and the broken; where the schema has a message
\* again, the bytes of a field are read as one.
Holds(m, names) ==
  /\ m \in Seq(ToSet(m))
  /\ \A f \in ToSet(m) : f.is \in names \cup {"unknown", "broken"}

Nested(m, is) == {f.value : f \in {g \in ToSet(m) : g.is = is /\ g.wire = "bytes"}}

KeyMessage(m) == Holds(m, {"algorithm", "key"})
ExternalMessage(m) == /\ Holds(m, {"signature", "public_key"})
                      /\ \A k \in Nested(m, "public_key") : KeyMessage(k)
BlockMessage(m) == /\ Holds(m, {"block", "next_key", "signature", "external", "version"})
                   /\ \A k \in Nested(m, "next_key") : KeyMessage(k)
                   /\ \A e \in Nested(m, "external") : ExternalMessage(e)
ProofMessage(m) == Holds(m, {"next_secret", "final_signature"})
TokenMessage(m) == /\ Holds(m, {"root_key_id", "authority", "blocks", "proof"})
                   /\ \A b \in Nested(m, "authority") \cup Nested(m, "blocks") : BlockMessage(b)
                   /\ \A p \in Nested(m, "proof") : ProofMessage(p)

-----------------------------------------------------------------------------

Refused(code) == [st |-> code]

\* What is optional is a sequence of none or one.
Absent == <<>>

(* A public key (bs_pb_pubkey).  The last of each field counts.            *)

KeyStep(s, f) ==
  IF s.st # "OK" THEN s
  ELSE CASE f.is = "broken" -> Refused("MALFORMED")
         [] f.is = "algorithm" /\ f.wire = "varint" -> [s EXCEPT !.alg = <<f.value>>]
         [] f.is = "key" /\ f.wire = "bytes" -> [s EXCEPT !.key = <<f.value>>]
         [] OTHER -> s

NoKey == [st |-> "OK", alg |-> Absent, key |-> Absent]

KeyScan(m) == LET at[n \in 0 .. Len(m)] == IF n = 0 THEN NoKey ELSE KeyStep(at[n - 1], m[n])
              IN  at[Len(m)]

KeyOf(s) ==
  CASE s.st # "OK" -> s
    [] s.st = "OK" /\ s.alg = <<0>> /\ s.key # Absent /\ s.key[1] \in Key -> s
    [] s.st = "OK" /\ s.alg = <<1>> /\ s.key # Absent /\ s.key[1] \in OtherKey ->
         Refused("UNSUPPORTED")
    [] OTHER -> Refused("MALFORMED")

DecodeKey(m) == KeyOf(KeyScan(m))

(* The signature of a third party (bs_pb_external_sig).                    *)

WithKey(s, k) == IF k.st = "OK" THEN [s EXCEPT !.key = k.key] ELSE k

ExternalStep(s, f) ==
  IF s.st # "OK" THEN s
  ELSE CASE f.is = "broken" -> Refused("MALFORMED")
         [] f.is = "signature" /\ f.wire = "bytes" -> [s EXCEPT !.signature = <<f.value>>]
         [] f.is = "public_key" /\ f.wire = "bytes" -> WithKey(s, DecodeKey(f.value))
         [] OTHER -> s

NoExternal == [st |-> "OK", signature |-> Absent, key |-> Absent]

ExternalScan(m) ==
  LET at[n \in 0 .. Len(m)] == IF n = 0 THEN NoExternal ELSE ExternalStep(at[n - 1], m[n])
  IN  at[Len(m)]

ExternalOf(s) == IF s.st = "OK" /\ (s.signature = Absent \/ s.key = Absent)
                 THEN Refused("MALFORMED") ELSE s

DecodeExternal(m) == ExternalOf(ExternalScan(m))

-----------------------------------------------------------------------------
(* A signed block (bs_pb_signed_block).                                    *)

\* The authority's own signature would not cover it.
ExternalAllowed(first) == ~first

WithNext(s, k) == IF k.st = "OK" THEN [s EXCEPT !.next_key = k.key] ELSE k
WithExternal(s, e) ==
  IF e.st = "OK" THEN [s EXCEPT !.external = <<[signature |-> e.signature[1], key |-> e.key[1]]>>]
                 ELSE e

BlockStep(first, s, f) ==
  IF s.st # "OK" THEN s
  ELSE CASE f.is = "block" /\ f.wire = "bytes" -> [s EXCEPT !.block = <<f.value>>]
         [] f.is = "next_key" /\ f.wire = "bytes" -> WithNext(s, DecodeKey(f.value))
         [] f.is = "signature" /\ f.wire = "bytes" -> [s EXCEPT !.signature = <<f.value>>]
         [] f.is = "external" /\ f.wire = "bytes" /\ ExternalAllowed(first) ->
              WithExternal(s, DecodeExternal(f.value))
         [] f.is = "version" /\ f.wire = "varint" /\ f.value <= Word -> [s EXCEPT !.version = f.value]
         [] f.is = "unknown" -> s
         [] OTHER -> Refused("MALFORMED")

NoBlock == [st |-> "OK", block |-> Absent, next_key |-> Absent,
            signature |-> Absent, external |-> Absent, version |-> 0]

BlockScan(m, first) ==
  LET at[n \in 0 .. Len(m)] == IF n = 0 THEN NoBlock
                               ELSE BlockStep(first, at[n - 1], m[n])
  IN  at[Len(m)]

\* What a third party signs has version 1.
ExternalFits(s) ==
  s.external # Absent => IsSig(s.external[1].signature) /\ s.version = 1

BlockOf(s) ==
  CASE s.st # "OK" -> s
    [] s.st = "OK" /\ s.block # Absent /\ s.next_key # Absent /\ s.signature # Absent
         /\ IsSig(s.signature[1]) /\ ExternalFits(s) ->
         [st |-> "OK", block |-> s.block[1], next_key |-> s.next_key[1],
          signature |-> s.signature[1], external |-> s.external, version |-> s.version]
    [] OTHER -> Refused("MALFORMED")

DecodeBlock(m, first) == BlockOf(BlockScan(m, first))

\* The struct that holds it.
SignedBlock(b) == [block |-> b.block, next_key |-> b.next_key, signature |-> b.signature,
                   external |-> b.external, version |-> b.version]

-----------------------------------------------------------------------------
(* The proof (bs_pb_proof): the last of either kind, but not of both.      *)

ProofStep(s, f) ==
  IF s.st # "OK" THEN s
  ELSE CASE f.is = "broken" -> Refused("MALFORMED")
         [] f.is = "next_secret" /\ f.wire = "bytes" ->
              [s EXCEPT !.secret = TRUE, !.sealed = FALSE, !.proof = <<f.value>>]
         [] f.is = "final_signature" /\ f.wire = "bytes" ->
              [s EXCEPT !.final = TRUE, !.sealed = TRUE, !.proof = <<f.value>>]
         [] OTHER -> s

NoProof == [st |-> "OK", secret |-> FALSE, final |-> FALSE, sealed |-> FALSE, proof |-> Absent]

ProofScan(m) == LET at[n \in 0 .. Len(m)] == IF n = 0 THEN NoProof ELSE ProofStep(at[n - 1], m[n])
                IN  at[Len(m)]

\* A slip: the last one counts, of whichever kind.
OneKindOrBoth(s) == s.secret \/ s.final

OneKind(s) == s.secret # s.final

ProofFits(sealed, p) == IF sealed THEN IsSig(p) ELSE p \in Secret

ProofOf(s) ==
  CASE s.st # "OK" -> s
    [] s.st = "OK" /\ OneKind(s) /\ ProofFits(s.sealed, s.proof[1]) ->
         [st |-> "OK", sealed |-> s.sealed, proof |-> s.proof[1]]
    [] OTHER -> Refused("MALFORMED")

DecodeProof(m) == ProofOf(ProofScan(m))

-----------------------------------------------------------------------------
(* The token (bs_token_parse).                                             *)

VARIABLES
  input,       \* the bytes received, as fields
  cursor,      \* the field the pass at hand is at
  root_key_id, \* what the first pass found: tok.root_key_id,
  authority,   \* the span of the authority block,
  proof,       \* that of the proof,
  appended,    \* and how many blocks follow
  blocks,      \* the blocks the second has decoded
  token,       \* *out, none before bs_token_parse returns
  pc,          \* what comes next
  status       \* what was returned, "none" while the call goes on

foundVars == <<root_key_id, authority, proof, appended>>
tokenVars == <<input, cursor, foundVars, blocks, token, pc, status>>

Field == input[cursor]
FieldsLeft == cursor <= Len(input)

Fail(code) == pc' = "stopped" /\ status' = code

-----------------------------------------------------------------------------
(* The first pass finds the parts and counts the blocks.                   *)

AtField == pc = "locate" /\ FieldsLeft
GoOn == cursor' = cursor + 1 /\ UNCHANGED <<input, blocks, token, pc, status>>

IsRootKeyId == Field.is = "root_key_id" /\ Field.wire = "varint" /\ Field.value <= Word
IsAuthority == Field.is = "authority" /\ Field.wire = "bytes" /\ authority = Absent
IsBlock(f) == f.is = "blocks" /\ f.wire = "bytes"
IsAppended == IsBlock(Field)
IsProof == Field.is = "proof" /\ Field.wire = "bytes" /\ proof = Absent
IsUnknown == Field.is = "unknown"

LocateRootKeyId == /\ AtField /\ IsRootKeyId
                   /\ root_key_id' = <<Field.value>>
                   /\ GoOn /\ UNCHANGED <<authority, proof, appended>>

LocateAuthority == /\ AtField /\ IsAuthority
                   /\ authority' = <<Field.value>>
                   /\ GoOn /\ UNCHANGED <<root_key_id, proof, appended>>

CountBlock == /\ AtField /\ IsAppended
              /\ appended' = appended + 1
              /\ GoOn /\ UNCHANGED <<root_key_id, authority, proof>>

LocateProof == /\ AtField /\ IsProof
               /\ proof' = <<Field.value>>
               /\ GoOn /\ UNCHANGED <<root_key_id, authority, appended>>

PassUnknown == AtField /\ IsUnknown /\ GoOn /\ UNCHANGED foundVars

\* A field that cannot be read, of the wrong wire type, or given twice.
RefuseField ==
  /\ AtField
  /\ ~(IsRootKeyId \/ IsAuthority \/ IsAppended \/ IsProof \/ IsUnknown)
  /\ Fail("MALFORMED")
  /\ UNCHANGED <<input, cursor, foundVars, blocks, token>>

\* A slip: one block more than there is room for.
TooManyByOne == appended > MaxBlocks

TooMany == appended + 1 > MaxBlocks
Missing == authority = Absent \/ proof = Absent

\* The arena has room for the blocks counted, or not.
Located ==
  /\ pc = "locate" /\ ~FieldsLeft /\ ~Missing /\ ~TooMany
  /\ \/ pc' = "authority" /\ UNCHANGED status
     \/ Fail("NOMEM")
  /\ UNCHANGED <<input, cursor, foundVars, blocks, token>>

NotLocated ==
  /\ pc = "locate" /\ ~FieldsLeft
  /\ \/ Missing /\ Fail("MALFORMED")
     \/ ~Missing /\ TooMany /\ Fail("LIMIT")
  /\ UNCHANGED <<input, cursor, foundVars, blocks, token>>

-----------------------------------------------------------------------------
(* The second pass decodes the blocks in the order they come.  It meets no  *)
(* field the first could not read and no block it did not count, so the     *)
(* tests for these are left out (ParseInv).                                 *)

\* One more block is decoded, and the pass goes on at the field c.
Take(b, c) == IF b.st = "OK" THEN /\ blocks' = Append(blocks, SignedBlock(b))
                                  /\ cursor' = c /\ pc' = "decode"
                                  /\ UNCHANGED status
                             ELSE Fail(b.st) /\ UNCHANGED <<blocks, cursor>>

DecodeAuthority ==
  /\ pc = "authority"
  /\ Take(DecodeBlock(authority[1], TRUE), 1)
  /\ UNCHANGED <<input, foundVars, token>>

SkipField ==
  /\ pc = "decode" /\ FieldsLeft /\ ~IsAppended
  /\ GoOn /\ UNCHANGED foundVars

DecodeNext ==
  /\ pc = "decode" /\ FieldsLeft /\ IsAppended
  /\ Take(DecodeBlock(Field.value, FALSE), cursor + 1)
  /\ UNCHANGED <<input, foundVars, token>>

\* The proof is decoded last, and nothing is handed out before it is.
HandOut(p) == IF p.st = "OK"
              THEN /\ token' = <<[root_key_id |-> root_key_id, blocks |-> blocks,
                                  sealed |-> p.sealed, proof |-> p.proof]>>
                   /\ pc' = "parsed" /\ UNCHANGED status
              ELSE Fail(p.st) /\ UNCHANGED token

Finish ==
  /\ pc = "decode" /\ ~FieldsLeft
  /\ HandOut(DecodeProof(proof[1]))
  /\ UNCHANGED <<input, cursor, foundVars, blocks>>

ParseStart == /\ cursor = 1 /\ blocks = <<>>
              /\ root_key_id = Absent /\ authority = Absent
              /\ proof = Absent /\ appended = 0
              /\ token = Absent /\ pc = "locate" /\ status = "none"

ParseStep == \/ LocateRootKeyId \/ LocateAuthority \/ CountBlock \/ LocateProof
             \/ PassUnknown \/ RefuseField \/ Located \/ NotLocated \/ DecodeAuthority
             \/ SkipField \/ DecodeNext \/ Finish

-----------------------------------------------------------------------------

\* How many appended blocks stand among the first n fields.
Appended(n) == Cardinality({k \in 1 .. n : IsBlock(input[k])})

Readable(n) == \A k \in 1 .. n : input[k].is # "broken"

\* What the second pass and the verifier take for granted of a block.
Fits(b) == /\ IsSig(b.signature)
           /\ b.external # Absent => b.version = 1 /\ IsSig(b.external[1].signature)

\* The inductive invariant of bs_token_parse: the second pass can read what
\* it meets and finds the blocks the first counted, no more and no less, so
\* it never writes past the array that was allocated for that many; what it
\* has decoded has the widths and the version the verifier relies on; and
\* nothing is handed out but a whole token of at most MaxBlocks blocks
\* (60_token.inc:340-375).
ParseInv ==
  /\ cursor \in 1 .. Len(input) + 1
  /\ pc = "locate" => appended = Appended(cursor - 1) /\ Readable(cursor - 1)
  /\ pc \in {"authority", "decode"} =>
       /\ appended = Appended(Len(input)) /\ Readable(Len(input))
       /\ ~Missing /\ ~TooMany
  /\ pc \in {"locate", "authority", "decode"} => token = Absent
  /\ pc \in {"locate", "authority"} => blocks = <<>>
  /\ pc = "decode" => Len(blocks) = Appended(cursor - 1) + 1
  /\ blocks \in Seq(ToSet(blocks)) /\ \A b \in ToSet(blocks) : Fits(b)
  /\ token # Absent =>
       /\ token[1].blocks = blocks
       /\ Len(blocks) = Appended(Len(input)) + 1 /\ Len(blocks) <= MaxBlocks
       /\ ProofFits(token[1].sealed, token[1].proof)
=============================================================================
