------------------------------ MODULE MCToken ------------------------------
(***************************************************************************)
(* Verifying small tokens: those a handful of issuers made, everything     *)
(* that can be put together from their blocks and proofs, and every        *)
(* one-field alteration of what is written on the wire.                    *)
(***************************************************************************)
EXTENDS BsIssue, TLC

CONSTANTS r0, r9, s1, s2, s3, s4, s5, s6, s7, s8, s9, e,  \* secrets; e a third party's
          d0, d1, d2, p256, short, forged

MCSecret == {r0, r9, s1, s2, s3, s4, s5, s6, s7, s8, s9, e}
MCPublicOf(secret) == [public |-> secret]
MCKey == {MCPublicOf(s) : s \in MCSecret}
MCOtherKey == {p256}

MCSign(secret, payload) == [by |-> MCPublicOf(secret), over |-> payload]
MCVerifies(key, signature, payload) == signature = [by |-> key, over |-> payload]

-----------------------------------------------------------------------------
(* What was made.  Every appended key is fresh.                            *)

One == Issue(1, r0, d0, s1)
Two == AppendOwn(1, One, d1, s2)
Three == AppendOwn(1, Two, d2, s3)
Third == AppendThird(One, e, d1, s4)
Later == AppendOwn(1, Third, d2, s5)
Other == [Issue(1, r0, d2, s6) EXCEPT !.root_key_id = <<7>>]
OtherThird == AppendThird(Other, e, d1, s7)
Old == AppendOwn(0, Issue(0, r0, d0, s8), d1, s9)

Open == {One, Two, Three, Third, Later, Other, OtherThird, Old}
Made == Open \cup {Seal(t) : t \in Open}

-----------------------------------------------------------------------------
(* What can be put together from it.                                       *)

Blocks == UNION {ToSet(t.blocks) : t \in Made}
Proofs == {[sealed |-> t.sealed, proof |-> t.proof] : t \in Made}

Token_(bs, p) == [root_key_id |-> Absent, blocks |-> bs,
                  sealed |-> p.sealed, proof |-> p.proof]

Rearranged == {Token_(bs, p) : bs \in UNION {[1 .. n -> Blocks] : n \in 1 .. 3}, p \in Proofs}

\* A holder appends what a third party signed for another place, or for none;
\* an issuer puts one at the head.
Misplaced ==
  LET elsewhere == OtherThird.blocks[2].external
  IN  {AppendAs(1, t, d1, s3, x) : t \in {One, Two}, x \in {elsewhere, Statement(e, d1, <<>>)}}
      \cup {[One EXCEPT !.blocks[1].external = Statement(e, d0, <<>>)]}

-----------------------------------------------------------------------------
(* What is on the wire: one field dropped, repeated, of another wire type  *)
(* or another value, a field in front of it, at every depth.               *)

Broken == [is |-> "broken", wire |-> "none", value |-> 0]
Strange == [is |-> "unknown", wire |-> "fixed", value |-> 0]

IsMessage(f) == f.is \in {"authority", "blocks", "next_key", "external", "public_key", "proof"}

Instead(f) ==
  CASE f.is = "root_key_id" -> {Word, Word + 1}
    [] f.is = "block" -> {d0}
    [] f.is = "version" -> {0, 1, 2, Word + 1}
    [] f.is = "algorithm" -> {1, 2}
    [] f.is = "key" -> {MCPublicOf(r9), p256, short}
    [] f.is \in {"signature", "final_signature"} -> {forged, short}
    [] f.is = "next_secret" -> {s1, short}
    [] f.is \in {"next_key", "public_key"} -> {<<Varint("algorithm", 1), Bytes("key", p256)>>}
    [] f.is = "proof" -> {<<Bytes("next_secret", s5), Bytes("final_signature", forged)>>}
    [] OTHER -> {}

RECURSIVE Edits(_)
Values(f) == Instead(f) \cup IF IsMessage(f) THEN Edits(f.value) ELSE {}
Edits(m) ==
  {Reverse(m)} \cup UNION {
    {RemoveAt(m, n), InsertAt(m, n, m[n]), [m EXCEPT ![n].wire = "fixed"],
     InsertAt(m, n, Broken), InsertAt(m, n, Strange)}
    \cup {[m EXCEPT ![n].value = v] : v \in Values(m[n])}
    \cup {InsertAt(m, n, [m[n] EXCEPT !.value = v]) : v \in Instead(m[n])} : n \in DOMAIN m}

Edited == UNION {Edits(Written([t EXCEPT !.root_key_id = <<7>>])) : t \in {Later, Seal(Third), Old}}

-----------------------------------------------------------------------------

RootKey == MCPublicOf(r0)
MCRoots == {RootKey, MCPublicOf(r9), p256}

MadeInputs == {Written(t) : t \in Made}
OtherInputs == {Written(t) : t \in Rearranged \cup Misplaced} \cup Edited
MCInputs == MadeInputs \cup OtherInputs

\* What passes for a signature: 64 bytes of any kind.
MCIsSig(v) == v # short

\* Other roots are tried on what was made.
MCTokenInit == ChainInit /\ (root = RootKey \/ input \in MadeInputs)
MCTokenSpec == MCTokenInit /\ [][ChainNext]_chainVars

-----------------------------------------------------------------------------

\* The number of the root key is a hint to the host, and covered by nothing.
Covered_(t) == [t EXCEPT !.root_key_id = Absent]
Genuine == {Covered_(t) : t \in Made}

\* A verifier accepts what the issuers made under its root key and nothing
\* that is put together from it: no block at another place, left out, taken
\* from another token or changed, no statement of a third party at a place it
\* was not made for, no proof of another token -- and everything they made,
\* of either version, open or sealed (47_chain.inc:1-22, 140-148).
AcceptsExactlyTheMade ==
  pc = "stopped" =>
    /\ status = "OK" <=> token # Absent /\ Covered_(Token) \in Genuine /\ root = RootKey
    /\ input \in MadeInputs /\ root = RootKey => status \in {"OK", "NOMEM"}
=============================================================================
