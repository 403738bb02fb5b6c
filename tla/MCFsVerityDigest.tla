-------------------------- MODULE MCFsVerityDigest --------------------------
(* FsVerityDigest against the definition of the fs-verity Merkle tree. *)
EXTENDS FsVerityDigest

(* The blocks of a sequence, the last one padded with zeroes. *)
Blocks(s) ==
    [ i \in 1..((Len(s) + block_size - 1) \div block_size) |->
        Pad(SubSeq(s, (i - 1) * block_size + 1, Smaller(i * block_size, Len(s)))) ]

(* Hash every block; the hashes, laid end to end, are the next level, until *)
(* one hash is left. The root of an empty file is zero.                     *)
RECURSIVE Concat(_)
Concat(ss) == IF ss = <<>> THEN <<>> ELSE Head(ss) \o Concat(Tail(ss))

RECURSIVE MerkleRoot(_)
MerkleRoot(s) ==
    LET hashes == [ i \in 1..Len(Blocks(s)) |-> Digest(Blocks(s)[i]) ]
    IN  CASE Len(hashes) = 0 -> Zeros(DigestSize)
          [] Len(hashes) = 1 -> hashes[1]
          [] OTHER -> MerkleRoot(Concat(hashes))

(* However the file is cut into update calls, the descriptor's root hash   *)
(* is the root of its Merkle tree.                                         *)
RootIsMerkleRoot ==
    phase \in {"tree", "done"} => result.root = MerkleRoot(written)

=============================================================================
