------------------------------- MODULE Merkle -------------------------------
(***************************************************************************)
(* The Merkle trees of the audit log (qw-crypto merkle.rs): the root of a  *)
(* batch of leaf hashes, inclusion proofs and their check.                 *)
(*                                                                         *)
(* A hash is the pair of what was hashed: SHA3 has no collisions, and a    *)
(* leaf, itself a hash of something else, is never an inner node.          *)
(***************************************************************************)
EXTENDS Naturals, Sequences, SequencesExt

sha3_256(a, b) == <<a, b>>

Halved(n) == (n + 1) \div 2

\* Mutant: chunks_exact, which leaves the odd node out.
MutParents(level) ==
    IF Len(level) <= 1 THEN level
    ELSE [i \in 1..(Len(level) \div 2) |-> sha3_256(level[2 * i - 1], level[2 * i])]

\* The next level: nodes in pairs, an odd one paired with itself.
Parents(level) ==
    IF Len(level) <= 1 THEN level
    ELSE [i \in 1..Halved(Len(level)) |->
             sha3_256(level[2 * i - 1], level[IF 2 * i <= Len(level) THEN 2 * i ELSE 2 * i - 1])]

\* The levels from the leaves up; from some level on there is only the root.
Levels(leaves) ==
    LET level[n \in 0..Len(leaves)] == IF n = 0 THEN leaves ELSE Parents(level[n - 1])
    IN  level

compute_root(leaves) == IF leaves = << >> THEN "zero" ELSE Head(Levels(leaves)[Len(leaves)])

\* The level's node beside the one at idx (counted from 0).
Sibling(level, idx) ==
    IF idx % 2 = 1 THEN idx - 1 ELSE IF idx + 1 < Len(level) THEN idx + 1 ELSE idx

\* The leaf and, for every level below the root, the sibling and its side.
compute_proof(leaves, index) ==
    LET levels == Levels(leaves)
        step(n) == LET idx == index \div 2 ^ n
                   IN  [hash |-> levels[n][Sibling(levels[n], idx) + 1], is_left |-> idx % 2 = 1]
        height == CHOOSE n \in 0..Len(leaves) : Len(levels[n]) = 1 /\ \A m \in 0..(n - 1) : Len(levels[m]) > 1
    IN  [leaf |-> leaves[index + 1], proof |-> [n \in 1..height |-> step(n - 1)], root |-> Head(levels[height])]

verify_proof(p) ==
    p.root = FoldLeft(LAMBDA current, node : IF node.is_left THEN sha3_256(node.hash, current)
                                             ELSE sha3_256(current, node.hash),
                      p.leaf, p.proof)
=============================================================================
