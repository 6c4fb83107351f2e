------------------------------ MODULE BsIssue ------------------------------
(***************************************************************************)
(* The other side of the chain: those who issue tokens, append to them,    *)
(* sign blocks of their own for them and seal them, as the specification   *)
(* that 47_chain.inc quotes has it.  What a verifier accepts is compared   *)
(* with what they made.                                                    *)
(***************************************************************************)
EXTENDS BsChain

CONSTANT Sign(_, _)   \* the signature of a secret's holder over a payload

-----------------------------------------------------------------------------
(* Making tokens.                                                          *)

Text(words) == [n \in DOMAIN words |-> [mark |-> words[n]]]

\* "BLOCK VERSION v PAYLOAD data ALGORITHM a NEXTKEY k", then the signature
\* before and that of a third party where there is one.
Covered(v, data, key, before, external) ==
  LET m == Text(<<"BLOCK", "PAYLOAD", "ALGORITHM", "NEXTKEY", "PREVSIG", "EXTERNALSIG">>)
      old == <<data, [le32 |-> 0], key>>
      new == <<m[1], [le32 |-> v], m[2], data, m[3], [le32 |-> 0], m[4], key>>
      after == IF before = <<>> THEN <<>> ELSE <<m[5], before[1]>>
      third == IF external = <<>> THEN <<>> ELSE <<m[6], external[1].signature>>
  IN  IF v = 0 THEN old ELSE new \o after \o third

\* A block of version v that the holder of secret signs for next.
MadeBlock(v, secret, data, next, before, external) ==
  [block |-> data, next_key |-> PublicOf(next),
   signature |-> Sign(secret, Covered(v, data, PublicOf(next), before, external)),
   external |-> external, version |-> v]

\* What a third party hands over: its signature of data for one place.
Statement(party, data, before) ==
  LET m == Text(<<"EXTERNAL", "PAYLOAD", "PREVSIG">>)
  IN  <<[signature |-> Sign(party, <<m[1], [le32 |-> 1], m[2], data, m[3]>> \o before),
         key |-> PublicOf(party)]>>

Issue(v, secret, data, next) ==
  [root_key_id |-> Absent, blocks |-> <<MadeBlock(v, secret, data, next, <<>>, <<>>)>>,
   sealed |-> FALSE, proof |-> next]

LastSignature(t) == <<Last(t.blocks).signature>>

\* Whoever holds an open token may append to it, with or without a third
\* party, and close it for good.
AppendAs(v, t, data, next, external) ==
  [t EXCEPT !.blocks = Append(@, MadeBlock(v, t.proof, data, next, LastSignature(t), external)),
            !.proof = next]

AppendOwn(v, t, data, next) == AppendAs(v, t, data, next, <<>>)
AppendThird(t, party, data, next) ==
  AppendAs(1, t, data, next, Statement(party, data, LastSignature(t)))

Seal(t) ==
  LET b == Last(t.blocks)
  IN  [t EXCEPT !.sealed = TRUE,
                !.proof = Sign(t.proof, <<b.block, [le32 |-> 0], b.next_key, b.signature>>)]

-----------------------------------------------------------------------------
(* The container as a writer lays it out.                                  *)

Bytes(is, value) == [is |-> is, wire |-> "bytes", value |-> value]
Varint(is, value) == [is |-> is, wire |-> "varint", value |-> value]

KeyFields(k) == <<Varint("algorithm", 0), Bytes("key", k)>>

BlockFields(b) ==
  <<Bytes("block", b.block), Bytes("next_key", KeyFields(b.next_key)),
    Bytes("signature", b.signature)>>
  \o (IF b.external = <<>> THEN <<>>
      ELSE <<Bytes("external", <<Bytes("signature", b.external[1].signature),
                                 Bytes("public_key", KeyFields(b.external[1].key))>>)>>)
  \o (IF b.version = 0 THEN <<>> ELSE <<Varint("version", b.version)>>)

ProofFields(t) == <<Bytes(IF t.sealed THEN "final_signature" ELSE "next_secret", t.proof)>>

Written(t) ==
  (IF t.root_key_id = <<>> THEN <<>> ELSE <<Varint("root_key_id", t.root_key_id[1])>>)
  \o [n \in DOMAIN t.blocks |-> Bytes(IF n = 1 THEN "authority" ELSE "blocks",
                                      BlockFields(t.blocks[n]))]
  \o <<Bytes("proof", ProofFields(t))>>

-----------------------------------------------------------------------------
(* The container of a token as its schema reads it (the comments of        *)
(* 60_token.inc, which quote it): which fields there must be, which may    *)
(* be, and that the last of a repeated one counts.  No passes and no order *)
(* of decoding; the parser is compared with it.                            *)

Given(m, is) == {n \in DOMAIN m : m[n].is = is}
OfWire(m, is, wire) == {n \in Given(m, is) : m[n].wire = wire}
LastValue(m, ns) == m[CHOOSE n \in ns : \A k \in ns : k <= n].value

Whole(m) == Given(m, "broken") = {}
Strictly(m, is, wire) == Given(m, is) = OfWire(m, is, wire)
Fits32(m, is) == Strictly(m, is, "varint") /\ \A n \in Given(m, is) : m[n].value <= Word

KeyReads(m) ==
  LET algs == OfWire(m, "algorithm", "varint")
      keys == OfWire(m, "key", "bytes")
  IN  /\ Whole(m) /\ algs # {} /\ keys # {}
      /\ LastValue(m, algs) = 0 /\ LastValue(m, keys) \in Key

KeyRead(m) == LastValue(m, OfWire(m, "key", "bytes"))

ExternalReads(m) ==
  LET sigs == OfWire(m, "signature", "bytes")
      keys == OfWire(m, "public_key", "bytes")
  IN  /\ Whole(m) /\ sigs # {} /\ keys # {}
      /\ \A n \in keys : KeyReads(m[n].value)

ExternalRead(m) ==
  [signature |-> LastValue(m, OfWire(m, "signature", "bytes")),
   key |-> KeyRead(LastValue(m, OfWire(m, "public_key", "bytes")))]

BlockRead(m) ==
  [block |-> LastValue(m, Given(m, "block")),
   next_key |-> KeyRead(LastValue(m, Given(m, "next_key"))),
   signature |-> LastValue(m, Given(m, "signature")),
   external |-> IF Given(m, "external") = {} THEN <<>>
                ELSE <<ExternalRead(LastValue(m, Given(m, "external")))>>,
   version |-> IF Given(m, "version") = {} THEN 0 ELSE LastValue(m, Given(m, "version"))]

BlockReads(m, first) ==
  /\ Whole(m)
  /\ \A is \in {"block", "next_key", "signature"} :
       Given(m, is) # {} /\ Strictly(m, is, "bytes")
  /\ \A n \in Given(m, "next_key") : KeyReads(m[n].value)
  /\ Fits32(m, "version")
  /\ IsSig(LastValue(m, Given(m, "signature")))
  /\ Given(m, "external") # {} =>
       /\ ~first /\ Strictly(m, "external", "bytes")
       /\ \A n \in Given(m, "external") : ExternalReads(m[n].value)
       /\ LET b == BlockRead(m) IN IsSig(b.external[1].signature) /\ b.version = 1

ProofReads(m) ==
  LET secrets == OfWire(m, "next_secret", "bytes")
      finals == OfWire(m, "final_signature", "bytes")
  IN  /\ Whole(m)
      /\ \/ secrets # {} /\ finals = {} /\ LastValue(m, secrets) \in Secret
         \/ finals # {} /\ secrets = {} /\ IsSig(LastValue(m, finals))

\* The n-th of a set of places.
Nth(ns, n) == CHOOSE k \in ns : Cardinality({j \in ns : j < k}) = n - 1

Reads(m) ==
  /\ Whole(m) /\ Fits32(m, "root_key_id")
  /\ \A is \in {"authority", "proof"} : Cardinality(Given(m, is)) = 1 /\ Strictly(m, is, "bytes")
  /\ Strictly(m, "blocks", "bytes")
  /\ BlockReads(LastValue(m, Given(m, "authority")), TRUE)
  /\ \A n \in Given(m, "blocks") : BlockReads(m[n].value, FALSE)
  /\ ProofReads(LastValue(m, Given(m, "proof")))

Read(m) ==
  LET end == LastValue(m, Given(m, "proof"))
      sealed == OfWire(end, "final_signature", "bytes") # {}
      rest == Given(m, "blocks")
  IN  [root_key_id |-> IF Given(m, "root_key_id") = {} THEN <<>>
                       ELSE <<LastValue(m, Given(m, "root_key_id"))>>,
       blocks |-> <<BlockRead(LastValue(m, Given(m, "authority")))>>
                  \o [n \in 1 .. Cardinality(rest) |-> BlockRead(m[Nth(rest, n)].value)],
       sealed |-> sealed,
       proof |-> LastValue(end, OfWire(end, IF sealed THEN "final_signature"
                                                ELSE "next_secret", "bytes"))]

-----------------------------------------------------------------------------

SpeaksNewer == \E n \in DOMAIN Token.blocks : Newer(Token.blocks[n])

\* A container is read as its schema says, whole or not at all, and refused
\* for the reason that is given: in whatever order its fields come, one
\* message has one reading (60_token.inc:30-395).
ReadsWhatIsWritten ==
  /\ token # Absent => Reads(input) /\ token = <<Read(input)>>
  /\ status = "MALFORMED" => ~Reads(input)
  /\ status = "LIMIT" => Cardinality(Given(input, "blocks")) >= MaxBlocks
  /\ status = "UNSUPPORTED" => IF token = Absent THEN ~Reads(input)
                               ELSE root \notin Key \/ SpeaksNewer
  /\ status = "SIGNATURE" => token # Absent
=============================================================================
