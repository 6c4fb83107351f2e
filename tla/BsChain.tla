------------------------------ MODULE BsChain ------------------------------
(***************************************************************************)
(* The signature chain (47_chain.inc): bs_token_verify walks the blocks    *)
(* from the root key outwards, each signed with the key the one before     *)
(* names, and ends with the proof.  A host parses what it received and     *)
(* then verifies it.                                                       *)
(*                                                                         *)
(* Signatures are Ed25519's and stand outside: whether one verifies over   *)
(* the parts that are hashed, and which key is a secret's.                 *)
(***************************************************************************)
EXTENDS BsToken

CONSTANTS Verifies(_, _, _),  \* bs_ed25519_verify_parts
          PublicOf(_),        \* bs_ed25519_public_from_secret
          Inputs,             \* what a host may receive,
          Roots               \* and the root keys it may hold it against

ASSUME ChainAssumption == \A m \in Inputs : TokenMessage(m)

-----------------------------------------------------------------------------
(* What is signed.  A payload is its parts in the order they are hashed.   *)

Mark(text) == [mark |-> text]
Le32(n) == [le32 |-> n]

\* The only algorithm a parsed key has.
Ed25519 == 0

\* bs_block_payload, for the versions it knows.  Version 0 has no place in
\* the chain, and a parsed block of version 0 no external signature.
BlockPayload(b, prev_sig, is_authority) ==
  IF b.version = 0 THEN <<b.block, Le32(Ed25519), b.next_key>>
  ELSE <<Mark("BLOCK"), Le32(b.version), Mark("PAYLOAD"), b.block,
         Mark("ALGORITHM"), Le32(Ed25519), Mark("NEXTKEY"), b.next_key>>
       \o (IF is_authority THEN <<>> ELSE <<Mark("PREVSIG")>> \o prev_sig)
       \o (IF is_authority \/ b.external = Absent THEN <<>>
           ELSE <<Mark("EXTERNALSIG"), b.external[1].signature>>)

\* bs_external_payload: the block and the place it was made for, and nothing
\* of what comes after.
ExternalPayload(b, prev_sig) ==
  <<Mark("EXTERNAL"), Le32(b.version), Mark("PAYLOAD"), b.block,
    Mark("PREVSIG")>> \o prev_sig

\* The last key signs the last block once more.
SealPayload(last) == <<last.block, Le32(Ed25519), last.next_key, last.signature>>

-----------------------------------------------------------------------------

VARIABLES
  root,      \* the key the host holds the token against
  place,     \* bs_token_verify's i, counting from 1
  current,   \* the key the next signature is of
  prev_sig   \* the signature of the block before, none for the authority

verifyVars == <<root, place, current, prev_sig>>
chainVars == <<tokenVars, verifyVars>>

Token == token[1]
Here == Token.blocks[place]

Stop(code) == Fail(code) /\ UNCHANGED <<input, cursor, foundVars, blocks, token, verifyVars>>

ChainInit == /\ input \in Inputs /\ root \in Roots
             /\ ParseStart
             /\ place = 1 /\ current = root /\ prev_sig = Absent

ParseOn == ParseStep /\ UNCHANGED verifyVars

\* A root key of any other width is of no algorithm this build has.
RootUnsupported == pc = "parsed" /\ root \notin Key /\ Stop("UNSUPPORTED")

RootTaken == /\ pc = "parsed" /\ root \in Key
             /\ pc' = "block"
             /\ UNCHANGED <<input, cursor, foundVars, blocks, token, verifyVars, status>>

-----------------------------------------------------------------------------
(* One block.                                                              *)

AtBlock == pc = "block" /\ place <= Len(Token.blocks)

SignedHere == Verifies(current, Here.signature, BlockPayload(Here, prev_sig, place = 1))
ExternalHere == Verifies(Here.external[1].key, Here.external[1].signature,
                         ExternalPayload(Here, prev_sig))

\* A version this build does not know how to check.
Newer(b) == b.version > 1

VersionUnsupported == AtBlock /\ Newer(Here) /\ Stop("UNSUPPORTED")

NotSigned == AtBlock /\ ~Newer(Here) /\ ~SignedHere /\ Stop("SIGNATURE")

\* A slip: the signature of the authority stays the one before.
AdvanceOnce == /\ place' = place + 1
               /\ current' = Here.next_key
               /\ prev_sig' = IF place = 1 THEN <<Here.signature>> ELSE prev_sig
               /\ pc' = "block"

Advance == /\ place' = place + 1
           /\ current' = Here.next_key /\ prev_sig' = <<Here.signature>>
           /\ pc' = "block"

Signed == /\ AtBlock /\ ~Newer(Here) /\ SignedHere
          /\ IF Here.external = Absent THEN Advance
             ELSE pc' = "external" /\ UNCHANGED <<place, current, prev_sig>>
          /\ UNCHANGED <<input, cursor, foundVars, blocks, token, root, status>>

\* The block of a third party; the parser let none through that is not of
\* version 1.
NotExternal == pc = "external" /\ ~ExternalHere /\ Stop("SIGNATURE")

External == /\ pc = "external" /\ ExternalHere
            /\ Advance
            /\ UNCHANGED <<input, cursor, foundVars, blocks, token, root, status>>

-----------------------------------------------------------------------------
(* The proof.                                                              *)

\* A slip: the proof of an open token is not held against the chain.
ProvesNothing == Token.sealed => Verifies(current, Token.proof, SealPayload(Last(Token.blocks)))

\* A sealed token is signed once more; an open one carries the secret of the
\* last key, or blocks were cut off.
Proves == IF Token.sealed
          THEN Verifies(current, Token.proof, SealPayload(Last(Token.blocks)))
          ELSE PublicOf(Token.proof) = current

AtProof == pc = "block" /\ place > Len(Token.blocks)

Proven == AtProof /\ Proves /\ Stop("OK")
NotProven == AtProof /\ ~Proves /\ Stop("SIGNATURE")

Stopped == pc = "stopped" /\ UNCHANGED chainVars

ChainNext == \/ ParseOn \/ RootUnsupported \/ RootTaken
             \/ VersionUnsupported \/ NotSigned \/ Signed
             \/ NotExternal \/ External \/ Proven \/ NotProven \/ Stopped

ChainSpec == ChainInit /\ [][ChainNext]_chainVars

-----------------------------------------------------------------------------

DecodedBlock(b) ==
  /\ b.next_key \in Key /\ IsSig(b.signature)
  /\ b.version \in 0 .. Word
  /\ b.external # Absent => Len(b.external) = 1 /\ b.external[1].key \in Key

\* Every variable has its type, and no authority block is a third party's.
ChainTypeOK ==
  /\ pc \in {"locate", "authority", "decode", "parsed", "block", "external", "stopped"}
  /\ status \in {"none", "OK", "MALFORMED", "UNSUPPORTED", "LIMIT", "NOMEM", "SIGNATURE"}
  /\ cursor \in Nat \ {0} /\ place \in 1 .. MaxBlocks + 1
  /\ appended \in Nat
  /\ \A n \in DOMAIN blocks : DecodedBlock(blocks[n])
  /\ blocks # <<>> => blocks[1].external = Absent
  /\ Len(token) <= 1

\* Where a block stands: the key it is signed with and the signature before.
KeyBefore(n) == IF n = 1 THEN root ELSE Token.blocks[n - 1].next_key
SigBefore(n) == IF n = 1 THEN Absent ELSE <<Token.blocks[n - 1].signature>>

BlockStands(n) ==
  LET b == Token.blocks[n]
  IN  /\ ~Newer(b)
      /\ Verifies(KeyBefore(n), b.signature, BlockPayload(b, SigBefore(n), n = 1))
      /\ b.external # Absent =>
           Verifies(b.external[1].key, b.external[1].signature,
                    ExternalPayload(b, SigBefore(n)))

Authentic ==
  /\ root \in Key
  /\ \A n \in DOMAIN Token.blocks : BlockStands(n)
  /\ LET last == Last(Token.blocks)
     IN  IF Token.sealed THEN Verifies(last.next_key, Token.proof, SealPayload(last))
         ELSE PublicOf(Token.proof) = last.next_key

\* The inductive invariant of a verification: every block passed over stands
\* where it is, the key and the signature at hand are those of the block
\* before, and a token is found good exactly when it is authentic from end
\* to end (47_chain.inc:140-148).
ChainInv ==
  /\ pc \in {"locate", "authority", "decode", "parsed"} =>
       place = 1 /\ current = root /\ prev_sig = Absent
  /\ pc \in {"parsed", "block", "external"} => token # Absent
  /\ pc \in {"block", "external"} =>
       /\ root \in Key
       /\ place \in 1 .. Len(Token.blocks) + 1
       /\ current = KeyBefore(place) /\ prev_sig = SigBefore(place)
       /\ \A n \in 1 .. place - 1 : BlockStands(n)
  /\ pc = "external" =>
       /\ place <= Len(Token.blocks) /\ ~Newer(Here) /\ SignedHere
       /\ Here.external # Absent
  /\ pc # "stopped" => status = "none"
  /\ pc = "stopped" => (status = "OK" <=> token # Absent /\ Authentic)
=============================================================================
