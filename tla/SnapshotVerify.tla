--------------------------- MODULE SnapshotVerify ---------------------------
(***************************************************************************)
(* The signature over a snapshot: signSnapshotWithRoots and                *)
(* ComputeSnapshotMerkleRoot (src/pkg/snapshot/signing.go), the loop that  *)
(* folds block signature roots into one Merkle root, and the verification  *)
(* of src/pkg/snapshot/verify.go, which reads the roots back from a file,  *)
(* folds them again and compares.                                          *)
(*                                                                         *)
(* SHA-256 is a free constructor: a leaf hashes a root, a node hashes the  *)
(* hashes of its two children, and equal hashes have equal contents.       *)
(***************************************************************************)
EXTENDS Integers, SequencesExt

CONSTANTS
  Roots,      \* the Merkle roots of block signatures
  MaxBlocks,  \* bound: blocks of a snapshot
  MaxLines    \* bound: lines of a file handed to the verification

VerifyAssumption == MaxBlocks \in Nat \ {0} /\ MaxLines \in Nat

VARIABLES
  roots,    \* the roots queried for the snapshot's range, ascending
  key,      \* the type of the identity's key, "none" without an identity
  pc,
  hashes,   \* the level of the tree the fold is at
  sig,      \* the signature document
  sidecar,  \* whether a .sig.json lies beside the snapshot
  lines,    \* the file that is verified
  verdict

vars == <<roots, key, pc, hashes, sig, sidecar, lines, verdict>>

NoSig == [root |-> <<"none">>, type |-> "none", by |-> "none", over |-> <<"none">>]

Leaf(root) == <<"leaf", root>>
Node(l, r) == <<"node", l, r>>

Init ==
  /\ roots \in BoundedSeq(Roots, MaxBlocks)
  /\ key \in {"none", "secp256k1", "ed25519", "secp256r1"}
  /\ pc = "sign" /\ hashes = <<>> /\ sig = NoSig /\ sidecar = FALSE
  /\ lines = <<>> /\ verdict = "none"

-----------------------------------------------------------------------------
\* ComputeSnapshotMerkleRoot: the leaves, then level after level.
Leaves(rs) == [i \in DOMAIN rs |-> Leaf(rs[i])]

\* Mutant: an odd last hash is dropped.
LevelUpMutant(hs) == [i \in 1 .. Len(hs) \div 2 |-> Node(hs[2 * i - 1], hs[2 * i])]

\* Pairs are hashed together; an odd last hash goes up as it is.
LevelUp(hs) ==
  [i \in 1 .. (Len(hs) + 1) \div 2 |->
     IF 2 * i <= Len(hs) THEN Node(hs[2 * i - 1], hs[2 * i]) ELSE hs[2 * i - 1]]

Fold(start, input) ==
  /\ pc = start /\ hashes = <<>> /\ input # <<>> /\ hashes' = Leaves(input)
  /\ UNCHANGED <<roots, key, pc, sig, sidecar, lines, verdict>>

Level ==
  /\ Len(hashes) > 1 /\ hashes' = LevelUp(hashes)
  /\ UNCHANGED <<roots, key, pc, sig, sidecar, lines, verdict>>

-----------------------------------------------------------------------------
\* signMerkleRoot's names for the key types it supports.
SigType == [secp256k1 |-> "ES256K", ed25519 |-> "Ed25519"]

Unsigned ==
  /\ pc' = "file" /\ hashes' = <<>>
  /\ UNCHANGED <<roots, key, sig, sidecar, lines, verdict>>

\* Without roots there is nothing to sign.
SkipSigning == pc = "sign" /\ roots = <<>> /\ Unsigned

\* The root is signed and the signature stored as a document; a failing document is logged.
Sign ==
  /\ pc = "sign" /\ Len(hashes) = 1
  /\ \/ key \notin DOMAIN SigType /\ Unsigned
     \/ Unsigned
     \/ /\ key \in DOMAIN SigType
        /\ sig' = [root |-> hashes[1], type |-> SigType[key], by |-> key, over |-> hashes[1]]
        /\ pc' = "file" /\ hashes' = <<>>
        /\ UNCHANGED <<roots, key, sidecar, lines, verdict>>

-----------------------------------------------------------------------------
\* A line that is not a block signature with a hexadecimal root is skipped.
Junk == "junk"
Extract(ls) == SelectSeq(ls, LAMBDA l : l # Junk)

\* A file in the format extractBlockSigMerkleRoots reads, the signature beside it.
HandFile ==
  /\ pc = "file" /\ sig # NoSig
  /\ lines' \in BoundedSeq(Roots \cup {Junk}, MaxLines)
  /\ sidecar' = TRUE /\ pc' = "read"
  /\ UNCHANGED <<roots, key, hashes, sig, verdict>>

\* The file the snapshotter wrote: key-value pairs, no line of which is a signature, and
\* nothing beside it.
HandProduced ==
  /\ pc = "file" /\ sig # NoSig
  /\ lines' = <<Junk>> /\ pc' = "read"
  /\ UNCHANGED <<roots, key, hashes, sig, sidecar, verdict>>

Result(v) == verdict' = v /\ pc' = "done" /\ UNCHANGED <<roots, key, hashes, sig, sidecar, lines>>

\* VerifySnapshot starts from the sidecar.
VerifySnapshot ==
  /\ pc = "read"
  /\ IF sidecar THEN pc' = "verify" /\ UNCHANGED <<roots, key, hashes, sig, sidecar, lines, verdict>>
     ELSE Result("unreadable")

NoRoots == pc = "verify" /\ Extract(lines) = <<>> /\ Result("no signatures")


RootMatches == hashes[1] = sig.root

ResolveKeyType(t) ==
  CASE t \in {"ES256K", "ecdsa-256k"} -> "secp256k1"
    [] t \in {"Ed25519", "ed25519"} -> "ed25519"
    [] OTHER -> "unsupported"

\* The key type by its name, then the signature over the root.
VerifyCryptoSignature ==
  IF ResolveKeyType(sig.type) # sig.by THEN "unsupported"
  ELSE IF sig.over = sig.root THEN "valid" ELSE "invalid"

Compare ==
  /\ pc = "verify" /\ Len(hashes) = 1
  /\ Result(IF RootMatches THEN VerifyCryptoSignature ELSE "mismatch")

Done == (pc = "done" \/ (pc = "file" /\ sig = NoSig)) /\ UNCHANGED vars

Next ==
  \/ Fold("sign", roots) \/ Fold("verify", Extract(lines)) \/ Level
  \/ SkipSigning \/ Sign
  \/ HandFile \/ HandProduced \/ VerifySnapshot \/ NoRoots \/ Compare \/ Done

Spec == Init /\ [][Next]_vars

-----------------------------------------------------------------------------
\* The Merkle tree over a sequence: a node over the tree of the largest power of
\* two below its length and the tree of the rest.
RECURSIVE Tree(_)
Tree(hs) ==
  IF Len(hs) = 1 THEN hs[1]
  ELSE LET k == CHOOSE p \in {1, 2, 4, 8} : p < Len(hs) /\ 2 * p >= Len(hs)
       IN  Node(Tree(SubSeq(hs, 1, k)), Tree(SubSeq(hs, k + 1, Len(hs))))

\* What is being folded: the snapshot's roots, then the roots of the file.
Input == IF pc = "sign" THEN roots ELSE Extract(lines)

\* The loop of ComputeSnapshotMerkleRoot keeps, at every level, the tree over
\* its input, for every number of blocks, odd ones included.
FoldKeepsTree == hashes # <<>> => Tree(hashes) = Tree(Leaves(Input))

\* A file verifies exactly when the roots it contains are, in number and order,
\* the roots that were signed, with every key type signing supports
\* (signMerkleRoot and resolveKeyType agree on the names).
ValidMeansSameRoots ==
  pc = "done" /\ sidecar => (verdict = "valid" <=> Extract(lines) = roots)

\* "VerifySnapshot verifies a snapshot file against its sidecar signature"
\* (verify.go:35) and "sidecar was written successfully" (signing.go:360): a
\* snapshot that was produced and signed verifies.
ProducedVerifies == pc = "done" /\ ~sidecar => verdict = "valid"
=============================================================================
