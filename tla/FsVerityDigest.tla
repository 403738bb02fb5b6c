--------------------------- MODULE FsVerityDigest ---------------------------
(***************************************************************************)
(* The streaming fs-verity hasher of verity-core (digest.rs, tree.rs),     *)
(* which verity-go (digest.go, tree.go) repeats: data goes into the block  *)
(* at level 1, the hash of a full block goes into the block one level up,  *)
(* and the final flush hashes the partly filled blocks from the bottom to  *)
(* the top. Each step is one turn of a loop of update or finalize.         *)
(*                                                                         *)
(* A digest is symbolic and injective: the hashed block, spread over       *)
(* DigestSize symbols. Levels are numbered from 1 (levels[0] in the code). *)
(***************************************************************************)
EXTENDS Naturals, Sequences

CONSTANTS
    DigestSize,     \* symbols in a digest
    Compression,    \* digests that fit in one block
    MaxLevels,      \* MAX_LEVELS
    MaxWrite,       \* bound: bytes in one call of update
    MaxBytes        \* bound: bytes in the file

(* block_size is a power of two and at least two digests long; the digest  *)
(* sizes in use are powers of two as well.                                 *)
ASSUME BlockAssumption ==
    /\ DigestSize \in Nat \ {0}
    /\ Compression \in Nat \ {0, 1}
    /\ MaxLevels \in Nat \ {0}
    /\ MaxWrite \in Nat \ {0}
    /\ MaxBytes \in Nat

block_size == DigestSize * Compression

VARIABLES
    phase,      \* what is going on, see Phases
    pending,    \* what the current update call has not looked at yet
    overflow,   \* what has to go into the next level
    idx,        \* level the loop is at; 0 between chunks
    levels,     \* contents of the blocks, bottom first
    level1,     \* MerkleTree: the hashes of the data blocks
    scale, size, root,  \* of the final flush
    written,    \* the file: everything update was given
    feed,       \* rebuild_root_hash: updates still to come
    result,     \* the descriptor and tree of the file
    panicked    \* an assert or a checked_sub failed

stream == <<pending, overflow, idx, levels, level1>>
flush == <<scale, size, root>>
vars == <<phase, stream, flush, written, feed, result, panicked>>

(* "write": update calls; "flush": finalize; "tree": the file is hashed;   *)
(* "refeed"/"reflush": rebuild_root_hash hashes the tree's level-1 hashes. *)
Phases == {"write", "flush", "tree", "refeed", "reflush", "done"}

Zeros(n) == [i \in 1..n |-> <<0>>]
Byte(n) == <<n>>
Pad(s) == s \o Zeros(block_size - Len(s))
Digest(s) == [i \in 1..DigestSize |-> <<s, i>>]
Smaller(a, b) == IF a < b THEN a ELSE b
Take(s, n) == SubSeq(s, 1, n)
Drop(s, n) == SubSeq(s, n + 1, Len(s))

NoResult == [root |-> <<>>, size |-> 0, tree |-> <<>>, rebuilt |-> <<>>]

Fresh ==
    /\ pending' = <<>> /\ overflow' = <<>> /\ idx' = 0
    /\ levels' = <<>> /\ level1' = <<>>

Init ==
    /\ phase = "write"
    /\ pending = <<>> /\ overflow = <<>> /\ idx = 0
    /\ levels = <<>> /\ level1 = <<>>
    /\ scale = 1 /\ size = 0 /\ root = Zeros(DigestSize)
    /\ written = <<>> /\ feed = <<>>
    /\ result = NoResult
    /\ panicked = FALSE

AtRest == idx = 0 /\ pending = <<>> /\ ~panicked

-----------------------------------------------------------------------------
(* update *)

UpdateCall(n) ==
    /\ phase = "write" /\ AtRest
    /\ Len(written) + n <= MaxBytes
    /\ pending' = [i \in 1..n |-> Byte(Len(written) + i)]
    /\ written' = written \o pending'
    /\ UNCHANGED <<phase, overflow, idx, levels, level1, flush, feed, result, panicked>>

Chunk ==
    /\ idx = 0 /\ pending # <<>> /\ ~panicked
    /\ overflow' = Take(pending, Smaller(block_size, Len(pending)))
    /\ pending' = Drop(pending, Smaller(block_size, Len(pending)))
    /\ idx' = 1
    /\ UNCHANGED <<phase, levels, level1, flush, written, feed, result, panicked>>

Room(i) == block_size - Len(levels[i])
Fits(i) == Smaller(Room(i), Len(overflow))
Filled(i) == levels[i] \o Take(overflow, Fits(i))
Rest(i) == Drop(overflow, Fits(i))

(* Mutant: the levels above are filled to the brim, like level 1. *)
LevelDone_NoSpaceKept(i) == Rest(i) = <<>>

(* Level 1 is done when everything fitted, even if it is now full; the     *)
(* levels above keep room for one more digest.                             *)
LevelDone(i) ==
    IF i = 1 THEN Rest(i) = <<>>
    ELSE block_size - Len(Filled(i)) >= DigestSize

UpdateStops ==
    /\ phase \in {"write", "refeed"} /\ idx \in 1..Len(levels) /\ ~panicked
    /\ LevelDone(idx)
    /\ levels' = [levels EXCEPT ![idx] = Filled(idx)]
    /\ panicked' = (Rest(idx) # <<>>)
    /\ overflow' = <<>>
    /\ idx' = 0
    /\ UNCHANGED <<phase, pending, level1, flush, written, feed, result>>

(* Mutant: what did not fit into the block is dropped. *)
UpdateCarries_LosesRest ==
    /\ phase \in {"write", "refeed"} /\ idx \in 1..Len(levels) /\ ~panicked
    /\ ~LevelDone(idx)
    /\ LET h == Digest(Pad(Filled(idx)))
       IN  /\ level1' = IF idx = 1 THEN Append(level1, h) ELSE level1
           /\ overflow' = h
    /\ levels' = [levels EXCEPT ![idx] = <<>>]
    /\ panicked' = FALSE
    /\ idx' = idx + 1
    /\ UNCHANGED <<phase, pending, flush, written, feed, result>>

UpdateCarries ==
    /\ phase \in {"write", "refeed"} /\ idx \in 1..Len(levels) /\ ~panicked
    /\ ~LevelDone(idx)
    /\ LET h == Digest(Pad(Filled(idx)))
       IN  /\ level1' = IF idx = 1 THEN Append(level1, h) ELSE level1
           /\ overflow' = h
    /\ levels' = [levels EXCEPT ![idx] = Rest(idx)]
    /\ panicked' = (Len(Rest(idx)) > block_size)
    /\ idx' = idx + 1
    /\ UNCHANGED <<phase, pending, flush, written, feed, result>>

NewLevel ==
    /\ phase \in {"write", "refeed"} /\ idx = Len(levels) + 1 /\ ~panicked
    /\ panicked' = (Len(levels) >= MaxLevels \/ Len(overflow) > block_size)
    /\ levels' = Append(levels, overflow)
    /\ overflow' = <<>>
    /\ idx' = 0
    /\ UNCHANGED <<phase, pending, level1, flush, written, feed, result>>

-----------------------------------------------------------------------------
(* finalize_into_fs_verity_stuffs *)

Finalize ==
    /\ phase \in {"write", "refeed"} /\ AtRest /\ feed = <<>>
    /\ phase' = IF phase = "write" THEN "flush" ELSE "reflush"
    /\ idx' = 1
    /\ scale' = 1 /\ size' = 0 /\ root' = Zeros(DigestSize)
    /\ UNCHANGED <<pending, overflow, levels, level1, written, feed, result, panicked>>

(* Mutant: the last data block's hash is missing from the tree. *)
FlushLevel_NoLastHash ==
    /\ phase \in {"flush", "reflush"} /\ idx \in 1..Len(levels) /\ ~panicked
    /\ size' = size + scale * Len(levels[idx])
    /\ panicked' = (Len(overflow) > Room(idx))
    /\ LET h == Digest(Pad(levels[idx] \o overflow))
       IN  overflow' = h /\ root' = h
    /\ scale' = scale * Compression
    /\ idx' = idx + 1
    /\ UNCHANGED <<phase, pending, levels, level1, written, feed, result>>

FlushLevel ==
    /\ phase \in {"flush", "reflush"} /\ idx \in 1..Len(levels) /\ ~panicked
    /\ size' = size + scale * Len(levels[idx])
    /\ panicked' = (Len(overflow) > Room(idx))
    /\ LET h == Digest(Pad(levels[idx] \o overflow))
       IN  /\ level1' = IF idx = 1 THEN Append(level1, h) ELSE level1
           /\ overflow' = h
           /\ root' = h
    /\ scale' = scale * Compression
    /\ idx' = idx + 1
    /\ UNCHANGED <<phase, pending, levels, written, feed, result>>

FlushDone ==
    /\ phase = "flush" /\ idx = Len(levels) + 1 /\ ~panicked
    /\ result' = [root |-> root, size |-> size, tree |-> level1, rebuilt |-> <<>>]
    /\ phase' = "tree"
    /\ Fresh
    /\ UNCHANGED <<flush, written, feed, panicked>>

-----------------------------------------------------------------------------
(* MerkleTree::rebuild_root_hash, on a tree loaded from metadata *)

TreeBytes == Len(result.tree) * DigestSize
(* Mutant: a tree that ends on a block boundary gets a block of padding. *)
Padding_Always == block_size - (TreeBytes % block_size)

Padding == (block_size - (TreeBytes % block_size)) % block_size

RebuildSingle ==
    /\ phase = "tree" /\ Len(result.tree) = 1
    /\ result' = [result EXCEPT !.rebuilt = result.tree[1]]
    /\ phase' = "done"
    /\ UNCHANGED <<stream, flush, written, feed, panicked>>

RebuildStart ==
    /\ phase = "tree" /\ Len(result.tree) # 1
    /\ feed' = Append(result.tree, Zeros(Padding))
    /\ phase' = "refeed"
    /\ UNCHANGED <<stream, flush, written, result, panicked>>

RebuildUpdate ==
    /\ phase = "refeed" /\ AtRest /\ feed # <<>>
    /\ pending' = Head(feed)
    /\ feed' = Tail(feed)
    /\ UNCHANGED <<phase, overflow, idx, levels, level1, flush, written, result, panicked>>

RebuildDone ==
    /\ phase = "reflush" /\ idx = Len(levels) + 1 /\ ~panicked
    /\ result' = [result EXCEPT !.rebuilt = root]
    /\ phase' = "done"
    /\ Fresh
    /\ UNCHANGED <<flush, written, feed, panicked>>

Next ==
    \/ \E n \in 1..MaxWrite : UpdateCall(n)
    \/ Chunk \/ UpdateStops \/ UpdateCarries \/ NewLevel
    \/ Finalize \/ FlushLevel \/ FlushDone
    \/ RebuildSingle \/ RebuildStart \/ RebuildUpdate \/ RebuildDone

Spec == Init /\ [][Next]_vars

-----------------------------------------------------------------------------
(* No assert, no checked_sub of the hasher ever fails: a digest always     *)
(* fits whole into the level it is appended to, in update and in the final *)
(* flush, and the tree never needs more than MAX_LEVELS levels.            *)
NoPanic == ~panicked

(* verify_data_block *)
VerifyDataBlock(tree, i, data) ==
    /\ Len(data) <= block_size
    /\ i \in 1..Len(tree)
    /\ tree[i] = Digest(Pad(data))

DataBlock(i) ==
    SubSeq(written, (i - 1) * block_size + 1, Smaller(i * block_size, Len(written)))

(* The tree stored in the metadata verifies every block of the file at its *)
(* own index and no other block there, and has no hash beyond the last.    *)
EveryBlockVerifies ==
    phase \in {"tree", "done"} =>
        /\ (Len(result.tree) - 1) * block_size < Len(written) \/ written = <<>>
        /\ Len(result.tree) * block_size >= Len(written)
        /\ \A i, j \in 1..Len(result.tree) :
              VerifyDataBlock(result.tree, i, DataBlock(j)) <=> i = j

(* The descriptor is that of the file: the size recovered from how full    *)
(* the levels are is the file's size, and its root hash is the one rebuilt *)
(* from the stored level-1 hashes, with the hashes as the data.            *)
DescriptorAgrees ==
    /\ phase \in {"tree", "done"} => result.size = Len(written)
    /\ phase = "done" => result.rebuilt = result.root
=============================================================================
