------------------------ MODULE FsVerityDigestProofs ------------------------
(***************************************************************************)
(* Proofs about the streaming hasher, for every digest size, number of     *)
(* digests in a block, number of levels and file, however it is cut into   *)
(* calls of update.                                                        *)
(*                                                                         *)
(* Sound, about lengths, counts the blocks k[i] hashed at each level:      *)
(* what the hasher was given is pending, held in level 1 or in one of k[1] *)
(* blocks, and the digests of level i are held in level i + 1 or in one of *)
(* its k[i+1] blocks. From that a level above the first is exactly full    *)
(* when it is carried, the flush finds the size, and k[1] bounds the       *)
(* number of levels. Data, about contents, keeps the bytes in the order of *)
(* the file. Digests are injective as in FsVerityDigest.                   *)
(***************************************************************************)
EXTENDS FsVerityDigest, Integers, TLAPS, WellFoundedInduction

-----------------------------------------------------------------------------
(* Sequences of anything.                                                   *)

IsSeq(s) == s \in Seq({s[i] : i \in DOMAIN s})

(* A sequence over some set is one.                                         *)
LEMMA SeqIsSeq ==
    ASSUME NEW S, NEW s \in Seq(S)
    PROVE  IsSeq(s)
<1>1. s \in Seq({s[i] : i \in DOMAIN s})
  OBVIOUS
<1> QED
  BY <1>1 DEF IsSeq

(* The empty sequence.                                                      *)
LEMMA SeqEmpty == IsSeq(<<>>) /\ Len(<<>>) = 0
<1>1. <<>> \in Seq({}) /\ Len(<<>>) = 0
  OBVIOUS
<1> QED
  BY <1>1, SeqIsSeq

(* The length and the places of a sequence.                                 *)
LEMMA SeqLen ==
    ASSUME NEW s, IsSeq(s)
    PROVE  /\ Len(s) \in Nat /\ DOMAIN s = 1 .. Len(s)
           /\ s = <<>> <=> Len(s) = 0
BY DEF IsSeq

(* A function on 1 .. n is a sequence.                                      *)
LEMMA SeqMake ==
    ASSUME NEW S, NEW n \in Nat, NEW s \in [1 .. n -> S]
    PROVE  IsSeq(s) /\ Len(s) = n
<1>1. s \in Seq(S) /\ Len(s) = n
  OBVIOUS
<1> QED
  BY <1>1, SeqIsSeq

(* Sequences of the same length with the same elements are equal.           *)
LEMMA SeqEqual ==
    ASSUME NEW s, NEW t, IsSeq(s), IsSeq(t), Len(s) = Len(t),
           \A i \in 1 .. Len(s) : s[i] = t[i]
    PROVE  s = t
BY SMTT(30) DEF IsSeq

(* Concatenation.                                                           *)
LEMMA SeqCat ==
    ASSUME NEW s, NEW t, IsSeq(s), IsSeq(t)
    PROVE  /\ IsSeq(s \o t) /\ Len(s \o t) = Len(s) + Len(t)
           /\ \A i \in 1 .. Len(s) + Len(t) :
                (s \o t)[i] = IF i <= Len(s) THEN s[i] ELSE t[i - Len(s)]
<1> DEFINE S == {s[i] : i \in DOMAIN s} \cup {t[i] : i \in DOMAIN t}
<1>1. s \in Seq(S)
  BY DEF IsSeq
<1>2. t \in Seq(S)
  BY DEF IsSeq
<1> HIDE DEF S
<1>3. s \o t \in Seq(S) /\ Len(s \o t) = Len(s) + Len(t)
  BY <1>1, <1>2
<1>4. \A i \in 1 .. Len(s) + Len(t) :
        (s \o t)[i] = IF i <= Len(s) THEN s[i] ELSE t[i - Len(s)]
  BY <1>1, <1>2
<1> QED
  BY <1>3, <1>4, SeqIsSeq

(* Subsequences.                                                            *)
LEMMA SeqSub ==
    ASSUME NEW s, IsSeq(s), NEW a \in Nat \ {0}, NEW b \in Nat, a <= b + 1, b <= Len(s)
    PROVE  /\ IsSeq(SubSeq(s, a, b)) /\ Len(SubSeq(s, a, b)) = b - a + 1
           /\ \A i \in 1 .. b - a + 1 : SubSeq(s, a, b)[i] = s[a + i - 1]
<1> DEFINE S == {s[i] : i \in DOMAIN s}
<1>1. s \in Seq(S)
  BY DEF IsSeq
<1> HIDE DEF S
<1>2. SubSeq(s, a, b) \in Seq(S) /\ Len(SubSeq(s, a, b)) = b - a + 1
  BY <1>1
<1>3. \A i \in 1 .. b - a + 1 : SubSeq(s, a, b)[i] = s[a + i - 1]
  BY <1>1
<1> QED
  BY <1>2, <1>3, SeqIsSeq

(* Appending.                                                               *)
LEMMA SeqAppend ==
    ASSUME NEW s, IsSeq(s), NEW e
    PROVE  /\ IsSeq(Append(s, e)) /\ Len(Append(s, e)) = Len(s) + 1
           /\ \A i \in 1 .. Len(s) : Append(s, e)[i] = s[i]
           /\ Append(s, e)[Len(s) + 1] = e
<1> DEFINE S == {s[i] : i \in DOMAIN s} \cup {e}
<1>1. s \in Seq(S)
  BY DEF IsSeq
<1>2. e \in S
  OBVIOUS
<1> HIDE DEF S
<1>3. Append(s, e) \in Seq(S) /\ Len(Append(s, e)) = Len(s) + 1
  BY <1>1, <1>2
<1>4. \A i \in 1 .. Len(s) : Append(s, e)[i] = s[i]
  BY <1>1, <1>2
<1>5. Append(s, e)[Len(s) + 1] = e
  BY <1>1, <1>2
<1> QED
  BY <1>3, <1>4, <1>5, SeqIsSeq

(* The first element and the others.                                        *)
LEMMA SeqHeadTail ==
    ASSUME NEW s, IsSeq(s), Len(s) # 0
    PROVE  /\ Head(s) = s[1] /\ IsSeq(Tail(s)) /\ Len(Tail(s)) = Len(s) - 1
           /\ \A i \in 1 .. Len(s) - 1 : Tail(s)[i] = s[i + 1]
<1> DEFINE S == {s[i] : i \in DOMAIN s}
<1>1. s \in Seq(S) /\ s # <<>>
  BY SeqLen DEF IsSeq
<1> HIDE DEF S
<1>2. Head(s) = s[1] /\ Tail(s) \in Seq(S) /\ Len(Tail(s)) = Len(s) - 1
  BY <1>1
<1>3. \A i \in 1 .. Len(s) - 1 : Tail(s)[i] = s[i + 1]
  BY <1>1
<1> QED
  BY <1>2, <1>3, SeqIsSeq

(* The first n elements and the others.                                     *)
LEMMA SeqTakeDrop ==
    ASSUME NEW s, IsSeq(s), NEW n \in 0 .. Len(s)
    PROVE  /\ IsSeq(Take(s, n)) /\ Len(Take(s, n)) = n
           /\ IsSeq(Drop(s, n)) /\ Len(Drop(s, n)) = Len(s) - n
           /\ \A i \in 1 .. n : Take(s, n)[i] = s[i]
           /\ \A i \in 1 .. Len(s) - n : Drop(s, n)[i] = s[n + i]
<1>1. Len(s) \in Nat
  BY SeqLen
<1>2. IsSeq(Take(s, n)) /\ Len(Take(s, n)) = n /\ \A i \in 1 .. n : Take(s, n)[i] = s[i]
  BY <1>1, SeqSub DEF Take
<1>3. IsSeq(Drop(s, n)) /\ Len(Drop(s, n)) = Len(s) - n
      /\ \A i \in 1 .. Len(s) - n : Drop(s, n)[i] = s[n + i]
  BY <1>1, SeqSub DEF Drop
<1> QED
  BY <1>2, <1>3

-----------------------------------------------------------------------------
(* Sizes and hashes.                                                        *)

(* A block holds at least two digests.                                      *)
LEMMA Sizes ==
    /\ DigestSize \in Nat \ {0} /\ Compression \in Nat \ {0, 1} /\ MaxLevels \in Nat \ {0}
    /\ block_size \in Nat \ {0} /\ block_size = DigestSize * Compression
    /\ 2 * DigestSize <= block_size
<1>1. DigestSize \in Nat \ {0} /\ Compression \in Nat \ {0, 1} /\ MaxLevels \in Nat \ {0}
  BY BlockAssumption
<1>2. 2 * DigestSize <= DigestSize * Compression
  BY <1>1
<1>3. DigestSize * Compression \in Nat \ {0}
  BY <1>1, <1>2
<1> QED
  BY <1>1, <1>2, <1>3 DEF block_size

(* The same without products.                                               *)
LEMMA Linear ==
    /\ DigestSize \in Nat \ {0} /\ block_size \in Nat \ {0} /\ MaxLevels \in Nat \ {0}
    /\ 2 * DigestSize <= block_size
BY Sizes

(* Products of naturals.                                                    *)
LEMMA Times ==
    ASSUME NEW a \in Nat, NEW b \in Nat
    PROVE  a * b \in Nat /\ a * (b + 1) = a * b + a
OBVIOUS

(* A common factor may be cancelled.                                        *)
LEMMA Cancel ==
    ASSUME NEW d \in Nat \ {0}, NEW a \in Int, NEW b \in Int
    PROVE  /\ d * a < d * b => a < b
           /\ d * a <= d * b => a <= b
           /\ d * a = d * b => a = b
OBVIOUS

(* Products grow with their factors.                                        *)
LEMMA Grows ==
    ASSUME NEW a \in Nat, NEW b \in Nat, NEW c \in Nat, a <= b
    PROVE  a * c <= b * c /\ c * a <= c * b
OBVIOUS

(* Padding with zeroes.                                                     *)
LEMMA ZerosSeq ==
    ASSUME NEW n \in Nat
    PROVE  /\ IsSeq(Zeros(n)) /\ Len(Zeros(n)) = n
           /\ \A i \in 1 .. n : Zeros(n)[i] = <<0>>
<1>1. Zeros(n) \in [1 .. n -> {<<0>>}]
  BY DEF Zeros
<1> QED
  BY <1>1, SeqMake

(* A digest has DigestSize symbols.                                         *)
LEMMA DigestSeq ==
    ASSUME NEW s
    PROVE  IsSeq(Digest(s)) /\ Len(Digest(s)) = DigestSize
<1> DEFINE S == {<<s, i>> : i \in 1 .. DigestSize}
<1>1. Digest(s) \in [1 .. DigestSize -> S]
  BY DEF Digest
<1> QED
  BY <1>1, SeqMake, Sizes

(* Digests of different blocks differ.                                      *)
LEMMA DigestInjective ==
    ASSUME NEW s, NEW t, Digest(s) = Digest(t)
    PROVE  s = t
<1>1. 1 \in 1 .. DigestSize
  BY Sizes
<1>2. Digest(s)[1] = <<s, 1>> /\ Digest(t)[1] = <<t, 1>>
  BY <1>1 DEF Digest
<1> QED
  BY <1>2

(* A padded block keeps the bytes of the block.                             *)
LEMMA PadSeq ==
    ASSUME NEW s, IsSeq(s), Len(s) <= block_size
    PROVE  /\ IsSeq(Pad(s)) /\ Len(Pad(s)) = block_size
           /\ \A i \in 1 .. Len(s) : Pad(s)[i] = s[i]
<1>1. Len(s) \in Nat /\ block_size - Len(s) \in Nat
  BY SeqLen, Sizes
<1>2. IsSeq(Zeros(block_size - Len(s))) /\ Len(Zeros(block_size - Len(s))) = block_size - Len(s)
  BY <1>1, ZerosSeq
<1> QED
  BY <1>1, <1>2, SeqCat, Sizes DEF Pad

-----------------------------------------------------------------------------
(* The inductive invariant.                                                 *)

Streaming == phase \in {"write", "refeed"}
Flushing == phase \in {"flush", "reflush"}
Resting == phase \in {"tree", "done"}

(* The shape of the state: how full the levels are, and what is on its way  *)
(* to the level the loop is at.                                             *)
Shape ==
    /\ phase \in Phases /\ idx \in Nat /\ idx <= Len(levels) + 1
    /\ IsSeq(pending) /\ IsSeq(overflow) /\ IsSeq(levels) /\ IsSeq(level1)
    /\ IsSeq(written) /\ IsSeq(feed) /\ IsSeq(result.tree)
    /\ scale \in Nat /\ size \in Nat
    /\ Len(levels) <= MaxLevels /\ Len(written) <= MaxBytes
    /\ result = [root |-> result.root, size |-> result.size, tree |-> result.tree,
                 rebuilt |-> result.rebuilt]

Fill ==
    /\ \A i \in 1 .. Len(levels) : IsSeq(levels[i]) /\ Len(levels[i]) <= block_size
    /\ \A i \in 2 .. Len(levels) : Len(levels[i]) <= block_size - DigestSize
    /\ Len(levels) >= 1 => Len(levels[1]) >= 1

Moving ==
    /\ idx = 0 => Len(overflow) = 0
    /\ Streaming /\ idx = 1 => Len(overflow) \in 1 .. block_size
    /\ Streaming /\ idx >= 2 => Len(overflow) = DigestSize
    /\ Flushing => /\ idx >= 1 /\ Len(pending) = 0
                   /\ Len(overflow) = IF idx = 1 THEN 0 ELSE DigestSize
    /\ Resting => idx = 0 /\ Len(levels) = 0 /\ Len(pending) = 0

(* What is to be fed to the second hasher.                                  *)
Feeding ==
    /\ phase # "refeed" => Len(feed) = 0
    /\ Len(feed) <= Len(result.tree) + 1
    /\ \A i \in 1 .. Len(feed) :
         IsSeq(feed[i]) /\ Len(feed[i]) = IF i = Len(feed) THEN Padding ELSE DigestSize
    /\ \A i \in 1 .. Len(level1) : IsSeq(level1[i]) /\ Len(level1[i]) = DigestSize
    /\ \A i \in 1 .. Len(result.tree) : IsSeq(result.tree[i]) /\ Len(result.tree[i]) = DigestSize

(* The bytes that the hasher was given.                                     *)
Fed == IF Len(feed) = 0 THEN TreeBytes + Padding
       ELSE (Len(result.tree) + 1 - Len(feed)) * DigestSize
Given == IF phase \in {"write", "flush"} THEN Len(written)
         ELSE IF phase \in {"refeed", "reflush"} THEN Fed ELSE 0

Used(i) == IF i \in 1 .. Len(levels) THEN Len(levels[i]) ELSE 0
Coming(i) == IF Streaming /\ idx = i THEN Len(overflow) ELSE 0

(* The blocks of a file that one level, two levels and so on can hold.      *)
Capacities ==
    {q \in [1 .. MaxLevels -> Nat] :
        q[1] = 1 /\ \A i \in 1 .. MaxLevels - 1 : q[i + 1] = Compression * q[i]}

Held(i) == Used(i) + Coming(i)

(* k[i] is the number of blocks of level i that were hashed so far.         *)
(* Whatever was given to the hasher is pending, in level 1 or hashed.       *)
Balanced(k) == Given = Len(pending) + block_size * k[1] + Held(1)

(* Each hashed block gave a digest to the level above, which still holds    *)
(* the digests that were not hashed with a block of its own.                *)
Carried(k) == \A i \in Nat \ {0} : DigestSize * k[i] = block_size * k[i + 1] + Held(i + 1)

(* The top level was never hashed, but for a digest that is to start a new  *)
(* level.                                                                   *)
Top(k) ==
    \A i \in Nat \ {0} : i >= Len(levels) =>
        k[i] = IF Streaming /\ idx = Len(levels) + 1 /\ i = Len(levels) THEN 1 ELSE 0

(* A block hashed at a level stands for the blocks of the file that the     *)
(* levels up to it can hold.                                                *)
Deep(k) == \A q \in Capacities : \A i \in 1 .. MaxLevels : q[i] * k[i] <= k[1]

Hashing == phase = "write" \/ (phase = "flush" /\ idx = 1)
Hashed(k) == Hashing => k[1] = Len(level1)

(* The size so far and what the levels not yet flushed stand for.           *)
Sized(k) ==
    Flushing => IF idx = 1 THEN scale = 1 /\ size = 0
                ELSE Given = size + scale * (DigestSize * k[idx - 1])

Counted(k) ==
    k \in [Nat -> Nat] /\ Balanced(k) /\ Carried(k) /\ Top(k) /\ Deep(k) /\ Hashed(k) /\ Sized(k)

Sound == Shape /\ Fill /\ Moving /\ Feeding /\ \E k : Counted(k)

(* The bytes of the j-th block of the file, n of them.                      *)
Block(j, n) == [i \in 1 .. n |-> Byte((j - 1) * block_size + i)]

(* The hashes of all the blocks of the file.                                *)
HashesOf(t) ==
    /\ \/ Len(t) = 0 /\ Len(written) = 0
       \/ Len(t) # 0 /\ (Len(t) - 1) * block_size < Len(written)
                    /\ Len(written) <= Len(t) * block_size
    /\ \A j \in 1 .. Len(t) :
         t[j] = Digest(Pad(Block(j, Smaller(block_size, Len(written) - (j - 1) * block_size))))

(* Level 1 holds the bytes that follow the hashed blocks, then come the     *)
(* chunk on its way and what update has not looked at yet.                  *)
InOrder ==
    /\ \A i \in 1 .. Used(1) : levels[1][i] = Byte(Len(level1) * block_size + i)
    /\ phase = "write" /\ idx = 1 =>
         \A i \in 1 .. Len(overflow) : overflow[i] = Byte(Len(level1) * block_size + Used(1) + i)
    /\ \A i \in 1 .. Len(pending) : pending[i] = Byte((Len(written) - Len(pending)) + i)
    /\ \A j \in 1 .. Len(level1) : level1[j] = Digest(Pad(Block(j, block_size)))

Data ==
    /\ \A i \in 1 .. Len(written) : written[i] = Byte(i)
    /\ Hashing => InOrder
    /\ phase = "flush" /\ idx # 1 => HashesOf(level1)
    /\ phase \notin {"write", "flush"} => HashesOf(result.tree) /\ result.size = Len(written)
    /\ phase = "refeed" => Len(result.tree) # 1

-----------------------------------------------------------------------------
(* Every step that does not panic keeps the invariant.                      *)

NoBlocks == [i \in Nat |-> 0]

(* The invariant holds initially.                                           *)
LEMMA SoundInit == Init => Sound
<1> SUFFICES ASSUME Init PROVE Sound
  OBVIOUS
<1>1. IsSeq(<<>>) /\ Len(<<>>) = 0
  BY SeqEmpty
<1>2. Shape
  BY <1>1, BlockAssumption DEF Init, Shape, Phases, NoResult
<1>3. Fill /\ Moving /\ Feeding
  BY <1>1 DEF Init, Fill, Moving, Feeding, Streaming, Flushing, Resting, NoResult
<1>4. NoBlocks \in [Nat -> Nat] /\ \A i \in Nat : NoBlocks[i] = 0
  BY DEF NoBlocks
<1>5. \A i : Used(i) = 0 /\ Coming(i) = 0
  BY <1>1 DEF Init, Used, Coming
<1>6. Given = 0 /\ Len(pending) = 0 /\ Len(level1) = 0 /\ idx = 0 /\ Len(levels) = 0
  BY <1>1 DEF Init, Given
<1>7. \A q \in Capacities : \A i \in 1 .. MaxLevels : q[i] * NoBlocks[i] <= NoBlocks[1]
  BY <1>4, Sizes DEF Capacities
<1>8. Counted(NoBlocks)
  BY <1>4, <1>5, <1>6, <1>7, Sizes
     DEF Counted, Balanced, Carried, Top, Deep, Hashed, Hashing, Sized, Held, Init, Flushing
<1> QED
  BY <1>2, <1>3, <1>8 DEF Sound

(* The hasher is empty after finalize.                                      *)
LEMMA FreshCounted ==
    ASSUME Fresh, Given' = 0, ~Flushing', phase' # "write"
    PROVE  Counted(NoBlocks)'
<1>1. IsSeq(<<>>) /\ Len(<<>>) = 0
  BY SeqEmpty
<1>2. NoBlocks \in [Nat -> Nat] /\ \A i \in Nat : NoBlocks[i] = 0
  BY DEF NoBlocks
<1>3. \A i : Used(i)' = 0 /\ Coming(i)' = 0
  BY <1>1 DEF Fresh, Used, Coming
<1>4. Len(pending') = 0 /\ idx' = 0 /\ Len(levels') = 0
  BY <1>1 DEF Fresh
<1>5. \A q \in Capacities : \A i \in 1 .. MaxLevels : q[i] * NoBlocks[i] <= NoBlocks[1]
  BY <1>2, Sizes DEF Capacities
<1> QED
  BY <1>2, <1>3, <1>4, <1>5, Sizes
     DEF Counted, Balanced, Carried, Top, Deep, Hashed, Hashing, Sized, Held, Flushing

(* The numbers of the invariant are naturals.                               *)
LEMMA Numbers ==
    ASSUME Shape, Fill
    PROVE  /\ Len(pending) \in Nat /\ Len(overflow) \in Nat /\ Len(levels) \in Nat
           /\ Len(level1) \in Nat /\ Len(written) \in Nat /\ Len(feed) \in Nat
           /\ Len(result.tree) \in Nat
           /\ \A i \in 1 .. Len(levels) : Len(levels[i]) \in Nat
           /\ \A i : Used(i) \in Nat /\ Coming(i) \in Nat /\ Held(i) \in Nat
<1>1. /\ Len(pending) \in Nat /\ Len(overflow) \in Nat /\ Len(levels) \in Nat
      /\ Len(level1) \in Nat /\ Len(written) \in Nat /\ Len(feed) \in Nat
      /\ Len(result.tree) \in Nat
  BY SeqLen DEF Shape
<1>2. \A i \in 1 .. Len(levels) : Len(levels[i]) \in Nat
  BY SeqLen DEF Fill
<1>3. ASSUME NEW i PROVE Used(i) \in Nat /\ Coming(i) \in Nat
  BY <1>1, <1>2 DEF Used, Coming
<1>4. ASSUME NEW i PROVE Held(i) \in Nat
  BY <1>3 DEF Held
<1> QED
  BY <1>1, <1>2, <1>3, <1>4

(* So are the counts and what they stand for.                               *)
LEMMA Products ==
    ASSUME NEW k \in [Nat -> Nat]
    PROVE  \A i \in Nat : /\ k[i] \in Nat /\ block_size * k[i] \in Nat
                          /\ DigestSize * k[i] \in Nat
BY Sizes

(* A call of update is given more of the file.                              *)
LEMMA UpdateCallStep ==
    ASSUME Sound, NEW n \in 1 .. MaxWrite, UpdateCall(n)
    PROVE  Sound'
<1>1. IsSeq(written) /\ Len(written) \in Nat /\ n \in Nat
  BY SMTT(30), SeqLen, BlockAssumption DEF Sound, Shape
<1>2. IsSeq(pending') /\ Len(pending') = n
  <2>1. pending' \in [1 .. n -> {Byte(Len(written) + i) : i \in 1 .. n}]
    BY DEF UpdateCall
  <2> QED
    BY <1>1, <2>1, SeqMake
<1>3. IsSeq(written') /\ Len(written') = Len(written) + n
  BY <1>1, <1>2, SeqCat DEF UpdateCall
<1>4. phase = "write" /\ phase' = "write" /\ idx = 0 /\ Len(pending) = 0
  <2>1. phase = "write" /\ phase' = "write" /\ idx = 0 /\ pending = <<>>
    BY DEF UpdateCall, AtRest
  <2> QED
    BY <2>1, SeqLen DEF Sound, Shape
<1>5. UNCHANGED <<idx, overflow, levels, level1, scale, size, feed, result>>
  BY DEF UpdateCall, flush
<1>6. Shape'
  BY <1>2, <1>3, <1>4, <1>5 DEF Sound, Shape, UpdateCall
<1>7. Fill'
  BY <1>5 DEF Sound, Fill
<1>8. Moving'
  BY <1>4, <1>5 DEF Sound, Moving, Streaming, Flushing, Resting
<1>9. Feeding'
  BY <1>4, <1>5 DEF Sound, Feeding, Padding, TreeBytes
<1>10. PICK k : Counted(k)
  BY DEF Sound
<1>11. Counted(k)'
  <2>1. \A i : Held(i)' = Held(i)
    BY <1>4, <1>5 DEF Held, Used, Coming, Streaming
  <2>2. Given = Len(written) /\ Given' = Len(written) + n
    BY <1>3, <1>4 DEF Given
  <2>3. Balanced(k)'
    <3> DEFINE a == block_size * k[1]
               b == Held(1)
    <3>1. a \in Nat /\ b \in Nat
      BY <1>10, Numbers, Products DEF Counted, Sound
    <3>2. Given = Len(pending) + a + b
      BY <1>10 DEF Counted, Balanced
    <3> HIDE DEF a, b
    <3>3. Len(written) + n = n + a + b
      BY <1>1, <1>4, <2>2, <3>1, <3>2
    <3> USE DEF a, b
    <3> QED
      BY <1>2, <2>1, <2>2, <3>3 DEF Balanced
  <2>4. Carried(k)' /\ Top(k)'
    BY <1>4, <1>5, <1>10, <2>1 DEF Counted, Carried, Top, Streaming
  <2> QED
    BY <1>4, <1>5, <1>10, <2>3, <2>4 DEF Counted, Deep, Hashed, Hashing, Sized, Flushing
<1> QED
  BY <1>6, <1>7, <1>8, <1>9, <1>11 DEF Sound

(* A chunk of at most a block is taken from what update was given.          *)
LEMMA ChunkStep ==
    ASSUME Sound, Chunk
    PROVE  Sound'
<1> DEFINE n == Smaller(block_size, Len(pending))
<1>1. Len(pending) \in Nat \ {0} /\ Len(levels) \in Nat /\ Len(level1) \in Nat
      /\ Len(feed) \in Nat /\ Len(result.tree) \in Nat
  <2>1. pending # <<>> /\ IsSeq(pending)
    BY DEF Chunk, Sound, Shape
  <2> QED
    BY <2>1, SeqLen, Numbers DEF Sound
<1>2. n \in 1 .. Len(pending) /\ n <= block_size
  BY <1>1, Sizes DEF Smaller
<1>3. UNCHANGED <<phase, levels, level1, scale, size, written, feed, result>> /\ idx = 0 /\ idx' = 1
  BY DEF Chunk, flush
<1>4. overflow' = Take(pending, n) /\ pending' = Drop(pending, n)
  BY DEF Chunk
<1> HIDE DEF n
<1>5. /\ IsSeq(overflow') /\ Len(overflow') = n
      /\ IsSeq(pending') /\ Len(pending') = Len(pending) - n
  BY <1>1, <1>2, <1>4, SeqTakeDrop DEF Sound, Shape
<1>6. Streaming
  BY <1>1, <1>3 DEF Sound, Shape, Phases, Moving, Streaming, Flushing, Resting
<1>7. Shape'
  BY <1>1, <1>3, <1>5 DEF Sound, Shape
<1>8. Fill'
  BY <1>3 DEF Sound, Fill
<1>9. Moving'
  BY <1>2, <1>3, <1>5, <1>6, Sizes DEF Sound, Moving, Streaming, Flushing, Resting
<1>10. Feeding'
  BY <1>3 DEF Sound, Feeding, Padding, TreeBytes
<1>11. PICK k : Counted(k)
  BY DEF Sound
<1>12. Counted(k)'
  <2>1. Used(1)' = Used(1) /\ Coming(1) = 0 /\ Coming(1)' = n
    BY <1>3, <1>5, <1>6 DEF Used, Coming, Streaming
  <2>2. ASSUME NEW i \in Nat \ {0} PROVE Held(i + 1)' = Held(i + 1)
    <3>1. i + 1 # 0 /\ i + 1 # 1
      OBVIOUS
    <3>2. Coming(i + 1)' = 0 /\ Coming(i + 1) = 0
      BY <1>3, <3>1 DEF Coming
    <3>3. Used(i + 1)' = Used(i + 1)
      BY <1>3 DEF Used
    <3> QED
      BY <3>2, <3>3 DEF Held
  <2>3. Given' = Given
    BY <1>3 DEF Given, Fed, TreeBytes, Padding
  <2>4. Balanced(k)'
    <3> DEFINE a == block_size * k[1]
               b == Used(1)
    <3>1. a \in Nat /\ b \in Nat
      BY <1>11, Numbers, Products DEF Counted, Sound
    <3>2. Given = Len(pending) + a + (b + 0)
      BY <1>11, <2>1 DEF Counted, Balanced, Held
    <3> HIDE DEF a, b
    <3>3. Given = (Len(pending) - n) + a + (b + n)
      BY <1>1, <1>2, <3>1, <3>2
    <3> USE DEF a, b
    <3> QED
      BY <1>5, <2>1, <2>3, <3>3 DEF Balanced, Held
  <2>5. Carried(k)'
    BY <1>11, <2>2 DEF Counted, Carried
  <2>6. Top(k)'
    <3> SUFFICES ASSUME NEW i \in Nat \ {0}, i >= Len(levels)
                 PROVE  k[i] = 0 /\ ~(1 = Len(levels) + 1 /\ i = Len(levels))
      BY <1>3 DEF Top
    <3>1. ~(0 = Len(levels) + 1) /\ ~(1 = Len(levels) + 1 /\ i = Len(levels))
      BY <1>1
    <3> QED
      BY <1>3, <1>11, <3>1 DEF Counted, Top
  <2>7. Hashed(k)' /\ Sized(k)'
    BY <1>3, <1>6, <1>11 DEF Counted, Hashed, Hashing, Sized, Streaming, Flushing
  <2> QED
    BY <1>11, <2>4, <2>5, <2>6, <2>7 DEF Counted, Deep
<1> QED
  BY <1>7, <1>8, <1>9, <1>10, <1>12 DEF Sound

(* As much as fits goes into a block, the rest does not.                    *)
LEMMA Filling ==
    ASSUME Shape, Fill, NEW i \in 1 .. Len(levels)
    PROVE  /\ Room(i) \in Nat /\ Room(i) = block_size - Len(levels[i])
           /\ Fits(i) \in 0 .. Len(overflow)
           /\ Fits(i) = (IF Room(i) < Len(overflow) THEN Room(i) ELSE Len(overflow))
           /\ IsSeq(Filled(i)) /\ Len(Filled(i)) = Len(levels[i]) + Fits(i)
           /\ IsSeq(Rest(i)) /\ Len(Rest(i)) = Len(overflow) - Fits(i)
           /\ \A j \in 1 .. Len(levels[i]) + Fits(i) :
                Filled(i)[j] = IF j <= Len(levels[i]) THEN levels[i][j] ELSE overflow[j - Len(levels[i])]
           /\ \A j \in 1 .. Len(overflow) - Fits(i) : Rest(i)[j] = overflow[Fits(i) + j]
<1>1. Len(levels[i]) \in Nat /\ Len(overflow) \in Nat
  BY Numbers
<1>2. Room(i) \in Nat /\ Room(i) = block_size - Len(levels[i])
  BY <1>1, Sizes DEF Room, Fill
<1>3. Fits(i) = (IF Room(i) < Len(overflow) THEN Room(i) ELSE Len(overflow))
      /\ Fits(i) \in 0 .. Len(overflow)
  BY <1>1, <1>2 DEF Fits, Smaller
<1>4. IsSeq(overflow) /\ IsSeq(levels[i])
  BY DEF Shape, Fill
<1>5. /\ IsSeq(Take(overflow, Fits(i))) /\ Len(Take(overflow, Fits(i))) = Fits(i)
      /\ \A j \in 1 .. Fits(i) : Take(overflow, Fits(i))[j] = overflow[j]
      /\ IsSeq(Rest(i)) /\ Len(Rest(i)) = Len(overflow) - Fits(i)
      /\ \A j \in 1 .. Len(overflow) - Fits(i) : Rest(i)[j] = overflow[Fits(i) + j]
  BY <1>3, <1>4, SeqTakeDrop DEF Rest
<1>6. /\ IsSeq(Filled(i)) /\ Len(Filled(i)) = Len(levels[i]) + Fits(i)
      /\ \A j \in 1 .. Len(levels[i]) + Fits(i) :
           Filled(i)[j] = IF j <= Len(levels[i]) THEN levels[i][j] ELSE overflow[j - Len(levels[i])]
  <2> DEFINE t == Take(overflow, Fits(i))
  <2>1. IsSeq(t) /\ Len(t) = Fits(i) /\ \A j \in 1 .. Fits(i) : t[j] = overflow[j]
    BY <1>5
  <2> HIDE DEF t
  <2>2. /\ IsSeq(levels[i] \o t) /\ Len(levels[i] \o t) = Len(levels[i]) + Len(t)
        /\ \A j \in 1 .. Len(levels[i]) + Len(t) :
             (levels[i] \o t)[j] = IF j <= Len(levels[i]) THEN levels[i][j] ELSE t[j - Len(levels[i])]
    BY <1>4, <2>1, SeqCat
  <2>3. Filled(i) = levels[i] \o t
    BY DEF Filled, t
  <2>4. ASSUME NEW j \in 1 .. Len(levels[i]) + Fits(i), ~(j <= Len(levels[i]))
        PROVE  t[j - Len(levels[i])] = overflow[j - Len(levels[i])]
    <3>1. j - Len(levels[i]) \in 1 .. Fits(i)
      BY <1>1, <1>3, <2>4
    <3> QED
      BY <2>1, <3>1
  <2> QED
    BY <2>1, <2>2, <2>3, <2>4
<1> QED
  BY <1>2, <1>3, <1>5, <1>6

(* One level gets other contents.                                           *)
LEMMA Replaced ==
    ASSUME Shape, Fill, NEW n \in 1 .. Len(levels), NEW x, IsSeq(x), levels' = [levels EXCEPT ![n] = x]
    PROVE  /\ IsSeq(levels') /\ Len(levels') = Len(levels)
           /\ \A i \in 1 .. Len(levels) : levels'[i] = IF i = n THEN x ELSE levels[i]
           /\ \A i : Used(i)' = IF i = n THEN Len(x) ELSE Used(i)
<1>1. IsSeq(levels)
  BY DEF Shape
<1>2. /\ IsSeq(levels') /\ Len(levels') = Len(levels)
      /\ \A i \in 1 .. Len(levels) : levels'[i] = IF i = n THEN x ELSE levels[i]
  <2> DEFINE S == {levels[i] : i \in DOMAIN levels} \cup {x}
  <2>1. levels \in Seq(S)
    BY <1>1 DEF IsSeq
  <2>2. x \in S
    OBVIOUS
  <2> HIDE DEF S
  <2>3. levels' \in Seq(S) /\ Len(levels') = Len(levels)
    BY <2>1, <2>2
  <2>4. \A i \in 1 .. Len(levels) : levels'[i] = IF i = n THEN x ELSE levels[i]
    BY <2>1, <2>2
  <2> QED
    BY <2>3, <2>4, SeqIsSeq
<1> QED
  BY <1>2 DEF Used

(* A digest always fits into a level above the first one.                   *)
LEMMA DigestFits ==
    ASSUME Sound, Streaming, NEW i \in 2 .. Len(levels), idx = i
    PROVE  /\ Len(overflow) = DigestSize /\ Fits(i) = DigestSize
           /\ Len(Filled(i)) = Len(levels[i]) + DigestSize /\ Len(Rest(i)) = 0
<1>1. Len(overflow) = DigestSize /\ Len(levels[i]) <= block_size - DigestSize
  BY DEF Sound, Moving, Fill
<1>2. i \in 1 .. Len(levels) /\ Len(levels[i]) \in Nat
  BY Numbers DEF Sound
<1>3. /\ Room(i) \in Nat /\ Room(i) = block_size - Len(levels[i])
      /\ Fits(i) = (IF Room(i) < Len(overflow) THEN Room(i) ELSE Len(overflow))
      /\ Len(Filled(i)) = Len(levels[i]) + Fits(i) /\ Len(Rest(i)) = Len(overflow) - Fits(i)
  BY <1>2, Filling DEF Sound
<1>4. Fits(i) = DigestSize
  BY <1>1, <1>2, <1>3, Linear
<1>5. Len(Filled(i)) = Len(levels[i]) + DigestSize
  BY <1>3, <1>4
<1>6. Len(Rest(i)) = DigestSize - DigestSize
  BY <1>1, <1>3, <1>4
<1>7. DigestSize - DigestSize = 0
  BY Linear
<1> QED
  BY <1>1, <1>4, <1>5, <1>6, <1>7

(* The loop stops at a level that has room left.                            *)
LEMMA UpdateStopsStep ==
    ASSUME Sound, UpdateStops
    PROVE  Sound' /\ ~panicked'
<1>1. Streaming /\ idx \in 1 .. Len(levels) /\ LevelDone(idx)
  BY DEF UpdateStops, Streaming
<1>2. levels' = [levels EXCEPT ![idx] = Filled(idx)] /\ overflow' = <<>> /\ idx' = 0
      /\ UNCHANGED <<phase, pending, level1, scale, size, written, feed, result>>
  BY DEF UpdateStops, flush
<1>3. Len(levels) \in Nat /\ Len(overflow) \in Nat /\ Len(levels[idx]) \in Nat
  BY <1>1, Numbers DEF Sound
<1>4. /\ IsSeq(Filled(idx)) /\ IsSeq(Rest(idx))
      /\ Room(idx) \in Nat /\ Room(idx) = block_size - Len(levels[idx])
      /\ Fits(idx) \in 0 .. Len(overflow)
      /\ Fits(idx) = (IF Room(idx) < Len(overflow) THEN Room(idx) ELSE Len(overflow))
      /\ Len(Filled(idx)) = Len(levels[idx]) + Fits(idx)
      /\ Len(Rest(idx)) = Len(overflow) - Fits(idx)
  BY <1>1, Filling DEF Sound
<1>5. /\ Len(Rest(idx)) = 0 /\ Len(Filled(idx)) = Len(levels[idx]) + Len(overflow)
      /\ Len(Filled(idx)) <= block_size
      /\ idx >= 2 => Len(Filled(idx)) <= block_size - DigestSize
  <2>1. CASE idx = 1
    <3>1. Len(Rest(idx)) = 0
      BY <1>1, <1>4, <2>1, SeqEmpty DEF LevelDone
    <3>2. Fits(idx) = Len(overflow)
      BY <1>3, <1>4, <3>1
    <3>3. Len(Filled(idx)) = Len(levels[idx]) + Len(overflow)
      BY <1>4, <3>2
    <3>4. Len(overflow) <= Room(idx)
      BY <1>3, <1>4, <3>2
    <3>5. Len(Filled(idx)) <= block_size
      <4>1. Len(overflow) <= block_size - Len(levels[idx])
        BY <1>4, <3>4
      <4> QED
        BY <1>3, <3>3, <4>1, Linear
    <3> QED
      BY <2>1, <3>1, <3>3, <3>5
  <2>2. CASE idx # 1
    <3>0. idx \in 2 .. Len(levels)
      BY <1>1, <1>3, <2>2
    <3>1. Len(overflow) = DigestSize /\ Len(Filled(idx)) = Len(levels[idx]) + DigestSize
          /\ Len(Rest(idx)) = 0
      BY <1>1, <3>0, DigestFits
    <3>2. block_size - Len(Filled(idx)) >= DigestSize
      BY <1>1, <2>2 DEF LevelDone
    <3>3. Len(Filled(idx)) = Len(levels[idx]) + Len(overflow)
      BY <3>1
    <3>4. Len(Filled(idx)) \in Nat
      BY <1>3, <3>3
    <3>5. Len(Filled(idx)) <= block_size - DigestSize /\ Len(Filled(idx)) <= block_size
      BY <3>2, <3>4, Linear
    <3> QED
      BY <3>1, <3>3, <3>5
  <2> QED
    BY <2>1, <2>2
<1>6. ~panicked'
  BY <1>4, <1>5, SeqLen DEF UpdateStops
<1>7. /\ IsSeq(levels') /\ Len(levels') = Len(levels)
      /\ \A i \in 1 .. Len(levels) : levels'[i] = IF i = idx THEN Filled(idx) ELSE levels[i]
      /\ \A i : Used(i)' = IF i = idx THEN Len(Filled(idx)) ELSE Used(i)
  BY <1>1, <1>2, <1>4, Replaced DEF Sound
<1>8. IsSeq(overflow') /\ Len(overflow') = 0
  BY <1>2, SeqEmpty
<1>9. Shape'
  BY <1>2, <1>3, <1>7, <1>8 DEF Sound, Shape
<1>10. Fill'
  <2>1. ASSUME NEW i \in 1 .. Len(levels)
        PROVE  /\ IsSeq(levels'[i]) /\ Len(levels'[i]) <= block_size
               /\ i >= 2 => Len(levels'[i]) <= block_size - DigestSize
               /\ i = 1 => Len(levels'[i]) >= 1
    <3>1. CASE i = idx
      BY <1>3, <1>4, <1>5, <1>7, <3>1 DEF Sound, Fill
    <3>2. CASE i # idx
      BY <1>7, <3>2 DEF Sound, Fill
    <3> QED
      BY <3>1, <3>2
  <2> QED
    BY <1>3, <1>7, <2>1 DEF Fill
<1>11. Moving'
  BY <1>1, <1>2, <1>8 DEF Sound, Moving, Streaming, Flushing, Resting
<1>12. Feeding'
  BY <1>2 DEF Sound, Feeding, Padding, TreeBytes
<1>13. PICK k : Counted(k)
  BY DEF Sound
<1>14. Counted(k)'
  <2>1. ASSUME NEW i \in Nat \ {0} PROVE Held(i)' = Held(i)
    <3>1. Coming(i)' = 0 /\ Used(i) \in Nat
      BY <1>2, Numbers DEF Coming, Sound
    <3>2. CASE i = idx
      <4>1. Used(i)' = Len(levels[i]) + Len(overflow)
        BY <1>5, <1>7, <3>2
      <4>2. Used(i) = Len(levels[i]) /\ Coming(i) = Len(overflow)
        BY <1>1, <3>2 DEF Used, Coming
      <4> QED
        BY <1>3, <3>1, <3>2, <4>1, <4>2 DEF Held
    <3>3. CASE i # idx
      <4>1. Used(i)' = Used(i) /\ Coming(i) = 0
        BY <1>7, <3>3 DEF Coming
      <4> QED
        BY <3>1, <4>1 DEF Held
    <3> QED
      BY <3>2, <3>3
  <2>2. Given' = Given
    BY <1>2 DEF Given, Fed, TreeBytes, Padding
  <2>3. Balanced(k)'
    BY <1>2, <1>13, <2>1, <2>2 DEF Counted, Balanced
  <2>4. Carried(k)'
    BY <1>13, <2>1 DEF Counted, Carried
  <2>5. Top(k)'
    <3> SUFFICES ASSUME NEW i \in Nat \ {0}, i >= Len(levels) PROVE k[i] = 0
      <4>1. ~(idx' = Len(levels') + 1) /\ Len(levels') = Len(levels)
        BY <1>2, <1>3, <1>7
      <4> QED
        BY <4>1 DEF Top
    <3>1. idx # Len(levels) + 1
      BY <1>1, <1>3
    <3> QED
      BY <1>13, <3>1 DEF Counted, Top
  <2>6. Hashed(k)' /\ Sized(k)'
    BY <1>1, <1>2, <1>13 DEF Counted, Hashed, Hashing, Sized, Streaming, Flushing
  <2> QED
    BY <1>13, <2>3, <2>4, <2>5, <2>6 DEF Counted, Deep
<1> QED
  BY <1>6, <1>9, <1>10, <1>11, <1>12, <1>14 DEF Sound

(* A level above the first that has no room for another digest is full.     *)
LEMMA FullBlock ==
    ASSUME NEW u \in Nat, NEW a \in Nat, NEW b \in Nat,
           DigestSize * a = block_size * b + (u + DigestSize),
           u + DigestSize <= block_size, block_size - (u + DigestSize) < DigestSize
    PROVE  u + DigestSize = block_size /\ a = Compression * (b + 1)
<1> DEFINE m == a - Compression * b
<1>1. Compression * b \in Nat /\ m \in Int
  BY Sizes
<1>2. block_size * b = DigestSize * (Compression * b)
  BY Sizes
<1>3. u + DigestSize = DigestSize * m
  <2>1. DigestSize * m = DigestSize * a - DigestSize * (Compression * b)
    BY <1>1, Sizes
  <2>2. DigestSize * (Compression * b) \in Nat
    BY <1>1, Sizes
  <2> QED
    BY <1>2, <2>1, <2>2, Linear
<1>4. DigestSize * m <= DigestSize * Compression
  BY <1>3, Sizes
<1>5. m <= Compression
  BY <1>1, <1>4, Cancel, Sizes
<1>6. DigestSize * Compression < DigestSize * (m + 1)
  <2>1. DigestSize * (m + 1) = DigestSize * m + DigestSize
    BY <1>1, Sizes
  <2>2. block_size < (u + DigestSize) + DigestSize
    BY Linear
  <2> QED
    BY <1>3, <2>1, <2>2, Sizes
<1>7. Compression < m + 1
  BY <1>1, <1>6, Cancel, Sizes
<1>8. m = Compression
  BY <1>1, <1>5, <1>7, Sizes
<1>9. a = Compression * b + Compression
  BY <1>1, <1>8, Sizes
<1>10. Compression * b + Compression = Compression * (b + 1)
  BY Sizes
<1> QED
  BY <1>3, <1>8, <1>9, <1>10, Sizes

(* A full block is hashed, and its digest goes one level up.                *)
LEMMA UpdateCarriesStep ==
    ASSUME Sound, UpdateCarries
    PROVE  Sound' /\ ~panicked'
<1> DEFINE h == Digest(Pad(Filled(idx)))
<1>1. Streaming /\ idx \in 1 .. Len(levels) /\ ~LevelDone(idx)
  BY DEF UpdateCarries, Streaming
<1>2. /\ levels' = [levels EXCEPT ![idx] = Rest(idx)] /\ overflow' = h /\ idx' = idx + 1
      /\ level1' = (IF idx = 1 THEN Append(level1, h) ELSE level1)
      /\ UNCHANGED <<phase, pending, scale, size, written, feed, result>>
  BY DEF UpdateCarries, flush
<1>3. Len(levels) \in Nat /\ Len(overflow) \in Nat /\ Len(levels[idx]) \in Nat /\ Len(level1) \in Nat
  BY <1>1, Numbers DEF Sound
<1>4. /\ IsSeq(Filled(idx)) /\ IsSeq(Rest(idx))
      /\ Room(idx) \in Nat /\ Room(idx) = block_size - Len(levels[idx])
      /\ Fits(idx) \in 0 .. Len(overflow)
      /\ Fits(idx) = (IF Room(idx) < Len(overflow) THEN Room(idx) ELSE Len(overflow))
      /\ Len(Rest(idx)) = Len(overflow) - Fits(idx)
  BY <1>1, Filling DEF Sound
<1>5. IsSeq(h) /\ Len(h) = DigestSize
  BY DigestSeq
<1> HIDE DEF h
<1>6. PICK k : Counted(k)
  BY DEF Sound
<1>7. k \in [Nat -> Nat]
  BY <1>6 DEF Counted
<1>8. Used(idx) = Len(levels[idx]) /\ Coming(idx) = Len(overflow)
      /\ Held(idx) = Len(levels[idx]) + Len(overflow)
  BY <1>1 DEF Used, Coming, Held
(* What was in the block and on its way is a block and what stays.          *)
<1>9. /\ Len(Rest(idx)) \in 0 .. block_size /\ Held(idx) = block_size + Len(Rest(idx))
      /\ idx = 1 => Len(Rest(idx)) >= 1
      /\ idx # 1 => Len(Rest(idx)) = 0 /\ k[idx - 1] = Compression * (k[idx] + 1)
  <2>1. CASE idx = 1
    <3>1. Len(Rest(idx)) \in Nat \ {0}
      <4>1. Rest(idx) # <<>>
        BY <1>1, <2>1 DEF LevelDone
      <4> QED
        BY <1>4, <4>1, SeqLen
    <3>2. Fits(idx) = Room(idx)
      BY <1>3, <1>4, <3>1
    <3>3. Len(Rest(idx)) = Len(overflow) - (block_size - Len(levels[idx]))
      BY <1>4, <3>2
    <3>4. Held(idx) = block_size + Len(Rest(idx))
      BY <1>3, <1>8, <3>3, Linear
    <3>5. Len(overflow) <= block_size
      BY <1>1, <2>1 DEF Sound, Moving
    <3>6. Len(Rest(idx)) <= block_size
      BY <1>3, <1>4, <3>5, Linear
    <3> QED
      BY <2>1, <3>1, <3>4, <3>6, Linear
  <2>2. CASE idx # 1
    <3> DEFINE u == Len(levels[idx])
               a == k[idx - 1]
               b == k[idx]
    <3>1. idx \in 2 .. Len(levels) /\ idx - 1 \in Nat \ {0} /\ (idx - 1) + 1 = idx /\ idx \in Nat
      BY <1>1, <1>3, <2>2
    <3>2. Len(overflow) = DigestSize /\ Len(Rest(idx)) = 0 /\ Len(Filled(idx)) = u + DigestSize
      BY <1>1, <3>1, DigestFits
    <3>3. DigestSize * a = block_size * b + (u + DigestSize)
      BY <1>6, <1>8, <3>1, <3>2 DEF Counted, Carried
    <3>4. block_size - (u + DigestSize) < DigestSize
      <4>1. ~(block_size - Len(Filled(idx)) >= DigestSize)
        BY <1>1, <2>2 DEF LevelDone
      <4>2. ~(block_size - (u + DigestSize) >= DigestSize)
        BY <3>2, <4>1
      <4>3. u + DigestSize \in Nat
        BY <1>3, Linear
      <4> HIDE DEF u
      <4> QED
        BY <4>2, <4>3, Linear
    <3>5. u + DigestSize <= block_size
      <4>1. u <= block_size - DigestSize
        BY <3>1 DEF Sound, Fill
      <4> QED
        BY <1>3, <4>1, Linear
    <3>6. u \in Nat /\ a \in Nat /\ b \in Nat
      BY <1>3, <1>7, <3>1
    <3> HIDE DEF u, a, b
    <3>7. u + DigestSize = block_size /\ a = Compression * (b + 1)
      BY <3>3, <3>4, <3>5, <3>6, FullBlock
    <3> USE DEF u, a, b
    <3>8. Held(idx) = block_size + 0
      BY <1>8, <3>2, <3>7, Linear
    <3> QED
      BY <2>2, <3>2, <3>7, <3>8, Linear
  <2> QED
    BY <2>1, <2>2
<1>10. ~panicked'
  <2>1. ~(Len(Rest(idx)) > block_size)
    BY <1>9, Linear
  <2> QED
    BY <2>1 DEF UpdateCarries
<1>11. /\ IsSeq(levels') /\ Len(levels') = Len(levels)
       /\ \A i \in 1 .. Len(levels) : levels'[i] = IF i = idx THEN Rest(idx) ELSE levels[i]
       /\ \A i : Used(i)' = IF i = idx THEN Len(Rest(idx)) ELSE Used(i)
  BY <1>1, <1>2, <1>4, Replaced DEF Sound
<1>12. /\ IsSeq(level1') /\ Len(level1') = (IF idx = 1 THEN Len(level1) + 1 ELSE Len(level1))
       /\ \A i \in 1 .. Len(level1') : IsSeq(level1'[i]) /\ Len(level1'[i]) = DigestSize
  <2>1. IsSeq(level1) /\ \A i \in 1 .. Len(level1) : IsSeq(level1[i]) /\ Len(level1[i]) = DigestSize
    BY DEF Sound, Shape, Feeding
  <2>2. CASE idx = 1
    <3>1. /\ IsSeq(level1') /\ Len(level1') = Len(level1) + 1 /\ level1'[Len(level1) + 1] = h
          /\ \A i \in 1 .. Len(level1) : level1'[i] = level1[i]
      BY <1>2, <2>1, <2>2, SeqAppend
    <3>2. ASSUME NEW i \in 1 .. Len(level1) + 1
          PROVE  IsSeq(level1'[i]) /\ Len(level1'[i]) = DigestSize
      BY <1>3, <1>5, <2>1, <3>1
    <3> QED
      BY <2>2, <3>1, <3>2
  <2>3. CASE idx # 1
    BY <1>2, <2>1, <2>3
  <2> QED
    BY <2>2, <2>3
<1>13. IsSeq(overflow') /\ Len(overflow') = DigestSize
  BY <1>2, <1>5
<1>14. idx \in Nat \ {0} /\ idx' \in Nat /\ idx' = idx + 1 /\ idx <= Len(levels) /\ idx + 1 >= 2
  BY <1>1, <1>2, <1>3
<1>15. Shape'
  BY <1>2, <1>3, <1>11, <1>12, <1>13, <1>14 DEF Sound, Shape
<1>16. Fill'
  <2>1. ASSUME NEW i \in 1 .. Len(levels)
        PROVE  /\ IsSeq(levels'[i]) /\ Len(levels'[i]) <= block_size
               /\ i >= 2 => Len(levels'[i]) <= block_size - DigestSize
               /\ i = 1 => Len(levels'[i]) >= 1
    <3>1. CASE i = idx
      BY SMTT(30), <1>3, <1>4, <1>9, <1>11, <3>1, Linear
    <3>2. CASE i # idx
      BY <1>11, <3>2 DEF Sound, Fill
    <3> QED
      BY <3>1, <3>2
  <2> QED
    BY <1>3, <1>11, <2>1 DEF Fill
<1>17. Moving'
  BY <1>1, <1>2, <1>13, <1>14 DEF Moving, Streaming, Flushing, Resting
<1>18. Feeding'
  BY <1>2, <1>12 DEF Sound, Feeding, Padding, TreeBytes
<1>19. PICK n \in Nat \ {0} : n = idx
  BY <1>14
<1>20. PICK kk \in [Nat -> Nat] : kk[n] = k[n] + 1 /\ \A i \in Nat : i # n => kk[i] = k[i]
  <2> DEFINE t == [k EXCEPT ![n] = @ + 1]
  <2>1. t \in [Nat -> Nat] /\ t[n] = k[n] + 1 /\ \A i \in Nat : i # n => t[i] = k[i]
    BY <1>7
  <2> QED
    BY <2>1
<1>21. \A i \in Nat : Held(i) \in Nat
  BY Numbers DEF Sound
<1>22. n <= Len(levels) /\ Streaming /\ Streaming' /\ Held(n) = block_size + Len(Rest(idx))
       /\ Len(Rest(idx)) \in Nat /\ idx' = n + 1 /\ Given' = Given /\ k[n] \in Nat /\ n + 1 \in Nat
  BY <1>1, <1>2, <1>7, <1>9, <1>14, <1>19, Linear DEF Streaming, Given, Fed, TreeBytes, Padding
<1>23. /\ Held(n)' = Len(Rest(idx)) /\ Held(n + 1)' = Held(n + 1) + DigestSize
       /\ \A i \in Nat : i # n /\ i # n + 1 => Held(i)' = Held(i)
  <2>1. \A i : Used(i) \in Nat
    BY Numbers DEF Sound
  <2>2. Coming(n)' = 0 /\ Coming(n + 1)' = DigestSize /\ Coming(n + 1) = 0
    <3>1. n + 1 # n
      BY <1>19
    <3> QED
      BY <1>13, <1>19, <1>22, <3>1 DEF Coming
  <2>3. Used(n)' = Len(Rest(idx)) /\ Used(n + 1)' = Used(n + 1)
    <3>1. n + 1 # n
      BY <1>19
    <3> QED
      BY <1>11, <1>19, <3>1
  <2>4. Held(n)' = Len(Rest(idx)) + 0
    BY <2>2, <2>3 DEF Held
  <2>5. Held(n + 1)' = Used(n + 1) + DigestSize /\ Held(n + 1) = Used(n + 1) + 0
    BY <2>2, <2>3 DEF Held
  <2>6. ASSUME NEW i \in Nat, i # n, i # n + 1 PROVE Held(i)' = Held(i)
    <3>1. Coming(i)' = 0 /\ Coming(i) = 0 /\ Used(i)' = Used(i)
      BY <1>11, <1>19, <1>22, <2>6 DEF Coming
    <3> QED
      BY <3>1 DEF Held
  <2> QED
    BY <1>22, <2>1, <2>4, <2>5, <2>6
<1>24. Balanced(kk)'
  <2>1. Given = Len(pending) + block_size * k[1] + Held(1) /\ pending' = pending
    BY <1>2, <1>6 DEF Counted, Balanced
  <2>2. CASE n = 1
    <3> DEFINE a == block_size * k[1]
    <3>1. kk[1] = k[1] + 1 /\ a \in Nat /\ block_size * (k[1] + 1) = a + block_size
      BY <1>20, <1>22, <2>2, Linear, Times
    <3>2. Given = Len(pending) + a + (block_size + Len(Rest(idx))) /\ Len(pending) \in Nat
      BY <1>22, <2>1, <2>2, Numbers DEF Sound
    <3> HIDE DEF a
    <3>3. Given = Len(pending) + (a + block_size) + Len(Rest(idx))
      BY <1>22, <3>1, <3>2, Linear
    <3> QED
      BY <1>22, <1>23, <2>1, <2>2, <3>1, <3>3 DEF Balanced
  <2>3. CASE n # 1
    <3>1. kk[1] = k[1] /\ Held(1)' = Held(1)
      BY <1>20, <1>23, <2>3
    <3> QED
      BY <1>22, <2>1, <3>1 DEF Balanced
  <2> QED
    BY <2>2, <2>3
<1>25. Carried(kk)'
  <2> SUFFICES ASSUME NEW i \in Nat \ {0}
               PROVE  DigestSize * kk[i] = block_size * kk[i + 1] + Held(i + 1)'
    BY DEF Carried
  <2> DEFINE a == DigestSize * k[i]
             b == block_size * k[i + 1]
             c == Held(i + 1)
  <2>1. a = b + c
    BY <1>6 DEF Counted, Carried
  <2>2. a \in Nat /\ b \in Nat /\ c \in Nat /\ k[i] \in Nat /\ k[i + 1] \in Nat
    BY <1>7, <1>21, Products
  <2>3. CASE i + 1 = n
    <3>1. i # n
      BY <2>3
    <3>2. kk[i] = k[i] /\ kk[i + 1] = k[i + 1] + 1 /\ Held(i + 1)' = Len(Rest(idx))
          /\ c = block_size + Len(Rest(idx))
      BY <1>20, <1>22, <1>23, <2>3, <3>1
    <3>3. block_size * (k[i + 1] + 1) = b + block_size
      BY <2>2, Linear, Times
    <3> HIDE DEF a, b, c
    <3>4. a = (b + block_size) + Len(Rest(idx))
      BY <1>22, <2>1, <2>2, <3>2, Linear
    <3> USE DEF a, b, c
    <3> QED
      BY <3>2, <3>3, <3>4
  <2>4. CASE i = n
    <3>1. i + 1 # n
      BY <2>4
    <3>2. kk[i] = k[i] + 1 /\ kk[i + 1] = k[i + 1]
      BY <1>20, <2>4, <3>1
    <3>5. Held(i + 1)' = c + DigestSize
      BY <1>23, <2>4
    <3>3. DigestSize * (k[i] + 1) = a + DigestSize
      BY <2>2, Linear, Times
    <3> HIDE DEF a, b, c
    <3>4. a + DigestSize = b + (c + DigestSize)
      BY <2>1, <2>2, Linear
    <3> USE DEF a, b, c
    <3> QED
      BY <3>2, <3>5, <3>3, <3>4
  <2>5. CASE i # n /\ i + 1 # n
    <3>1. i + 1 # n + 1
      BY <2>5
    <3>2. kk[i] = k[i] /\ kk[i + 1] = k[i + 1]
      BY <1>20, <2>5, <3>1
    <3>3. Held(i + 1)' = c
      BY <1>23, <2>5, <3>1
    <3> QED
      BY <2>1, <3>2, <3>3
  <2> QED
    BY <2>3, <2>4, <2>5
<1>26. Top(kk)'
  <2> SUFFICES ASSUME NEW i \in Nat \ {0}, i >= Len(levels)
               PROVE  kk[i] = IF n + 1 = Len(levels) + 1 /\ i = Len(levels) THEN 1 ELSE 0
    BY <1>11, <1>22 DEF Top
  <2>1. n # Len(levels) + 1
    BY <1>3, <1>22
  <2>2. k[i] = 0
    BY <1>6, <1>19, <2>1 DEF Counted, Top
  <2>3. CASE i = n
    <3>1. i = Len(levels)
      BY <1>3, <1>22, <2>3
    <3> QED
      BY <1>20, <2>2, <2>3, <3>1
  <2>4. CASE i # n
    <3>1. ~(n + 1 = Len(levels) + 1 /\ i = Len(levels))
      BY <1>3, <2>4
    <3> QED
      BY <1>20, <2>2, <2>4, <3>1
  <2> QED
    BY <2>3, <2>4
<1>27. Deep(kk)'
  <2> SUFFICES ASSUME NEW q \in Capacities, NEW i \in 1 .. MaxLevels
               PROVE  q[i] * kk[i] <= kk[1]
    BY DEF Deep
  <2>1. q[i] \in Nat /\ q[1] = 1 /\ i \in Nat \ {0} /\ kk[1] \in Nat /\ k[1] \in Nat /\ k[i] \in Nat
    <3>1. q \in [1 .. MaxLevels -> Nat] /\ q[1] = 1
      BY DEF Capacities
    <3>2. i \in Nat \ {0}
      BY Linear
    <3> QED
      BY <1>7, <1>20, <3>1, <3>2
  <2>2. k[1] <= kk[1] /\ \A j \in 1 .. MaxLevels : q[j] * k[j] <= k[1]
    BY <1>6, <1>20, <2>1 DEF Counted, Deep
  <2>3. CASE i # n
    <3> DEFINE a == q[i] * k[i]
    <3>1. kk[i] = k[i] /\ a \in Nat /\ a <= k[1]
      BY <1>20, <2>1, <2>2, <2>3, Times
    <3> HIDE DEF a
    <3>2. a <= kk[1]
      BY <2>1, <2>2, <3>1
    <3> QED
      BY <3>1, <3>2 DEF a
  <2>4. CASE i = n /\ n = 1
    BY <2>1, <2>4
  <2>5. CASE i = n /\ n # 1
    <3>1. i - 1 \in 1 .. MaxLevels - 1 /\ i - 1 \in 1 .. MaxLevels /\ (i - 1) + 1 = i
      BY <2>5, Linear
    <3>2. q[i] = Compression * q[i - 1] /\ q[i - 1] \in Nat
      BY <3>1 DEF Capacities
    <3>3. k[i - 1] = Compression * (k[i] + 1) /\ kk[i] = k[i] + 1 /\ kk[1] = k[1]
      BY <1>9, <1>19, <1>20, <2>5
    <3>4. (Compression * q[i - 1]) * (k[i] + 1) = q[i - 1] * (Compression * (k[i] + 1))
      BY <2>1, <3>2, Sizes
    <3>5. q[i - 1] * k[i - 1] <= k[1]
      BY <2>2, <3>1
    <3> QED
      BY <3>2, <3>3, <3>4, <3>5
  <2> QED
    BY <2>3, <2>4, <2>5
<1>28. Hashed(kk)' /\ Sized(kk)'
  <2>1. phase = "write" => kk[1] = Len(level1')
    <3>1. phase = "write" => k[1] = Len(level1)
      BY <1>6 DEF Counted, Hashed, Hashing
    <3>2. CASE n = 1
      BY <1>12, <1>19, <1>20, <3>1, <3>2
    <3>3. CASE n # 1
      BY <1>12, <1>19, <1>20, <3>1, <3>3
    <3> QED
      BY <3>2, <3>3
  <2> QED
    BY <1>2, <1>22, <2>1 DEF Hashed, Hashing, Sized, Streaming, Flushing
<1>29. Counted(kk)'
  BY <1>20, <1>24, <1>25, <1>26, <1>27, <1>28 DEF Counted
<1> QED
  BY <1>10, <1>15, <1>16, <1>17, <1>18, <1>29 DEF Sound

(* What is left over starts a level of its own, if there may be one more.   *)
LEMMA NewLevelStep ==
    ASSUME Sound, NewLevel, Len(levels) < MaxLevels
    PROVE  Sound' /\ ~panicked'
<1>1. Streaming /\ idx = Len(levels) + 1
  BY DEF NewLevel, Streaming
<1>2. levels' = Append(levels, overflow) /\ overflow' = <<>> /\ idx' = 0
      /\ UNCHANGED <<phase, pending, level1, scale, size, written, feed, result>>
  BY DEF NewLevel, flush
<1>3. Len(levels) \in Nat /\ Len(overflow) \in Nat
  BY Numbers DEF Sound
<1>4. IsSeq(overflow) /\ IsSeq(levels)
  BY DEF Sound, Shape
<1>5. /\ IsSeq(levels') /\ Len(levels') = Len(levels) + 1
      /\ \A i \in 1 .. Len(levels) : levels'[i] = levels[i]
      /\ levels'[Len(levels) + 1] = overflow
  BY <1>2, <1>4, SeqAppend
<1>6. /\ Len(overflow) <= block_size
      /\ Len(levels) = 0 => Len(overflow) >= 1
      /\ Len(levels) # 0 => Len(overflow) <= block_size - DigestSize
  <2>1. CASE Len(levels) = 0
    <3>1. idx = 1
      BY <1>1, <2>1
    <3> QED
      BY <1>1, <1>3, <2>1, <3>1, Linear DEF Sound, Moving
  <2>2. CASE Len(levels) # 0
    <3>1. idx >= 2
      BY <1>1, <1>3, <2>2
    <3>2. Len(overflow) = DigestSize
      BY <1>1, <3>1 DEF Sound, Moving
    <3> QED
      BY <2>2, <3>2, Linear
  <2> QED
    BY <2>1, <2>2
<1>7. ~panicked'
  <2>1. ~(Len(levels) >= MaxLevels) /\ ~(Len(overflow) > block_size)
    BY <1>3, <1>6, Linear
  <2> QED
    BY <2>1 DEF NewLevel
<1>8. IsSeq(overflow') /\ Len(overflow') = 0
  BY <1>2, SeqEmpty
<1>9. Shape'
  <2>1. Len(levels') <= MaxLevels /\ idx' \in Nat /\ idx' <= Len(levels') + 1
    BY <1>2, <1>3, <1>5, Linear
  <2> QED
    BY <1>2, <1>5, <1>8, <2>1 DEF Sound, Shape
<1>10. Fill'
  <2>1. ASSUME NEW i \in 1 .. Len(levels) + 1
        PROVE  /\ IsSeq(levels'[i]) /\ Len(levels'[i]) <= block_size
               /\ i >= 2 => Len(levels'[i]) <= block_size - DigestSize
               /\ i = 1 => Len(levels'[i]) >= 1
    <3>1. CASE i = Len(levels) + 1
      BY <1>3, <1>4, <1>5, <1>6, <3>1
    <3>2. CASE i # Len(levels) + 1
      <4>1. i \in 1 .. Len(levels) /\ levels'[i] = levels[i]
        BY <1>3, <1>5, <3>2
      <4> QED
        BY <1>3, <4>1 DEF Sound, Fill
    <3> QED
      BY <3>1, <3>2
  <2> QED
    BY <1>3, <1>5, <2>1 DEF Fill
<1>11. Moving'
  BY <1>1, <1>2, <1>8 DEF Moving, Streaming, Flushing, Resting
<1>12. Feeding'
  BY <1>2 DEF Sound, Feeding, Padding, TreeBytes
<1>13. PICK k : Counted(k)
  BY DEF Sound
<1>14. Counted(k)'
  <2>1. ASSUME NEW i \in Nat \ {0} PROVE Held(i)' = Held(i)
    <3>1. Coming(i)' = 0
      BY <1>2 DEF Coming
    <3>2. CASE i = Len(levels) + 1
      <4>1. Used(i)' = Len(overflow) /\ Coming(i) = Len(overflow) /\ Used(i) = 0
        BY <1>1, <1>3, <1>5, <3>2 DEF Used, Coming
      <4> QED
        BY <1>3, <3>1, <4>1 DEF Held
    <3>3. CASE i # Len(levels) + 1
      <4>1. Used(i)' = Used(i) /\ Coming(i) = 0
        BY <1>1, <1>3, <1>5, <3>3 DEF Used, Coming
      <4> QED
        BY <3>1, <4>1 DEF Held
    <3> QED
      BY <3>2, <3>3
  <2>2. Given' = Given
    BY <1>2 DEF Given, Fed, TreeBytes, Padding
  <2>3. Balanced(k)'
    BY <1>2, <1>13, <2>1, <2>2 DEF Counted, Balanced
  <2>4. Carried(k)'
    BY <1>13, <2>1 DEF Counted, Carried
  <2>5. Top(k)'
    <3> SUFFICES ASSUME NEW i \in Nat \ {0}, i >= Len(levels) + 1 PROVE k[i] = 0
      <4>1. ~(idx' = Len(levels') + 1) /\ Len(levels') = Len(levels) + 1
        BY <1>2, <1>3, <1>5
      <4> QED
        BY <4>1 DEF Top
    <3>1. i >= Len(levels) /\ i # Len(levels)
      BY <1>3
    <3> QED
      BY <1>13, <3>1 DEF Counted, Top
  <2>6. Hashed(k)' /\ Sized(k)'
    BY <1>1, <1>2, <1>13 DEF Counted, Hashed, Hashing, Sized, Streaming, Flushing
  <2> QED
    BY <1>13, <2>3, <2>4, <2>5, <2>6 DEF Counted, Deep
<1> QED
  BY <1>7, <1>9, <1>10, <1>11, <1>12, <1>14 DEF Sound

(* The flush starts at the bottom.                                          *)
LEMMA FinalizeStep ==
    ASSUME Sound, Finalize
    PROVE  Sound'
<1>1. /\ Streaming /\ ~Streaming' /\ Flushing' /\ ~Resting' /\ idx = 0 /\ idx' = 1
      /\ phase' \in Phases /\ phase' # "refeed" /\ feed = <<>> /\ pending = <<>>
      /\ phase = "write" <=> phase' = "flush"
      /\ phase = "refeed" <=> phase' = "reflush"
  BY DEF Finalize, AtRest, Streaming, Flushing, Resting, Phases
<1>2. scale' = 1 /\ size' = 0
      /\ UNCHANGED <<pending, overflow, levels, level1, written, feed, result>>
  BY DEF Finalize
<1>3. Len(levels) \in Nat /\ Len(pending) = 0 /\ Len(feed) = 0 /\ Len(overflow) = 0
  BY <1>1, SeqEmpty, Numbers DEF Sound, Moving
<1>4. Shape'
  BY <1>1, <1>2, <1>3 DEF Sound, Shape
<1>5. Fill'
  BY <1>2 DEF Sound, Fill
<1>6. Moving'
  BY <1>1, <1>2, <1>3 DEF Moving
<1>7. Feeding'
  BY <1>2, <1>3 DEF Sound, Feeding, Padding, TreeBytes
<1>8. PICK k : Counted(k)
  BY DEF Sound
<1>9. Counted(k)'
  <2>1. ASSUME NEW i \in Nat \ {0} PROVE Held(i)' = Held(i)
    BY <1>1, <1>2 DEF Held, Used, Coming
  <2>2. Given' = Given
    <3>1. phase = "write" \/ phase = "refeed"
      BY <1>1 DEF Streaming
    <3>2. Fed' = Fed
      BY <1>2 DEF Fed, TreeBytes, Padding
    <3> QED
      BY <1>1, <1>2, <3>1, <3>2 DEF Given
  <2>3. Balanced(k)' /\ Carried(k)'
    BY <1>2, <1>8, <2>1, <2>2 DEF Counted, Balanced, Carried
  <2>4. Top(k)'
    <3>1. idx # Len(levels) + 1
      BY <1>1, <1>3
    <3> QED
      BY <1>1, <1>2, <1>8, <3>1 DEF Counted, Top
  <2>5. Hashed(k)' /\ Sized(k)'
    BY <1>1, <1>2, <1>8 DEF Counted, Hashed, Hashing, Sized, Flushing
  <2> QED
    BY <1>8, <2>3, <2>4, <2>5 DEF Counted, Deep
<1> QED
  BY <1>4, <1>5, <1>6, <1>7, <1>9 DEF Sound

(* What a level not yet flushed stands for, and what the levels above it.   *)
LEMMA Scaled ==
    ASSUME NEW z \in Nat, NEW s \in Nat, NEW u \in Nat, NEW a \in Nat, NEW b \in Nat,
           DigestSize * a = block_size * b + u
    PROVE  z + s * (DigestSize * a) = (z + s * u) + (s * Compression) * (DigestSize * b)
<1> DEFINE x == block_size * b
<1>1. x \in Nat /\ x = Compression * (DigestSize * b) /\ DigestSize * b \in Nat
  BY Sizes
<1>2. (s * Compression) * (DigestSize * b) = s * (Compression * (DigestSize * b))
  BY <1>1, Sizes
<1>3. s * (x + u) = s * x + s * u /\ s * x \in Nat /\ s * u \in Nat
  BY <1>1
<1>4. s * (DigestSize * a) = s * (x + u)
  OBVIOUS
<1> HIDE DEF x
<1>5. z + (s * x + s * u) = (z + s * u) + s * x
  BY <1>3
<1> QED
  BY <1>1, <1>2, <1>3, <1>4, <1>5

(* The flush hashes a level with the digest from below, which always fits.  *)
LEMMA FlushLevelStep ==
    ASSUME Sound, FlushLevel
    PROVE  Sound' /\ ~panicked'
<1> DEFINE h == Digest(Pad(levels[idx] \o overflow))
<1>1. Flushing /\ ~Streaming /\ ~Resting /\ idx \in 1 .. Len(levels)
  BY DEF FlushLevel, Streaming, Flushing, Resting
<1>2. /\ size' = size + scale * Len(levels[idx]) /\ scale' = scale * Compression
      /\ overflow' = h /\ idx' = idx + 1
      /\ level1' = (IF idx = 1 THEN Append(level1, h) ELSE level1)
      /\ UNCHANGED <<phase, pending, levels, written, feed, result>>
  BY DEF FlushLevel
<1>3. IsSeq(h) /\ Len(h) = DigestSize
  BY DigestSeq
<1> HIDE DEF h
<1>4. Len(levels) \in Nat /\ Len(overflow) \in Nat /\ Len(levels[idx]) \in Nat /\ Len(level1) \in Nat
      /\ scale \in Nat /\ size \in Nat /\ Len(pending) = 0
  BY <1>1, Numbers DEF Sound, Shape, Moving
<1>5. ~panicked'
  <2>1. Len(levels[idx]) <= block_size /\ (idx >= 2 => Len(levels[idx]) <= block_size - DigestSize)
    BY <1>1, <1>4 DEF Sound, Fill
  <2>2. Len(overflow) = IF idx = 1 THEN 0 ELSE DigestSize
    BY <1>1 DEF Sound, Moving
  <2>3. Len(overflow) <= block_size - Len(levels[idx])
    <3>1. CASE idx = 1
      BY <1>4, <2>1, <2>2, <3>1, Linear
    <3>2. CASE idx # 1
      <4>1. idx >= 2
        BY <1>1, <1>4, <3>2
      <4> QED
        BY <1>4, <2>1, <2>2, <3>2, <4>1, Linear
    <3> QED
      BY <3>1, <3>2
  <2>4. ~(Len(overflow) > block_size - Len(levels[idx]))
    BY <1>4, <2>3, Linear
  <2> QED
    BY <2>4 DEF FlushLevel, Room
<1>6. /\ IsSeq(level1')
      /\ \A i \in 1 .. Len(level1') : IsSeq(level1'[i]) /\ Len(level1'[i]) = DigestSize
  <2>1. IsSeq(level1) /\ \A i \in 1 .. Len(level1) : IsSeq(level1[i]) /\ Len(level1[i]) = DigestSize
    BY DEF Sound, Shape, Feeding
  <2>2. CASE idx = 1
    <3>1. /\ IsSeq(level1') /\ Len(level1') = Len(level1) + 1 /\ level1'[Len(level1) + 1] = h
          /\ \A i \in 1 .. Len(level1) : level1'[i] = level1[i]
      BY <1>2, <2>1, <2>2, SeqAppend
    <3>2. ASSUME NEW i \in 1 .. Len(level1) + 1
          PROVE  IsSeq(level1'[i]) /\ Len(level1'[i]) = DigestSize
      BY <1>3, <1>4, <2>1, <3>1
    <3> QED
      BY <3>1, <3>2
  <2>3. CASE idx # 1
    BY <1>2, <2>1, <2>3
  <2> QED
    BY <2>2, <2>3
<1>7. IsSeq(overflow') /\ Len(overflow') = DigestSize
  BY <1>2, <1>3
<1>8. idx \in Nat \ {0} /\ idx' \in Nat /\ idx + 1 >= 2 /\ idx + 1 # 1 /\ idx <= Len(levels)
      /\ idx + 1 <= Len(levels) + 1
  BY <1>1, <1>2, <1>4
<1>9. scale' \in Nat /\ size' \in Nat
  <2>1. scale * Compression \in Nat /\ scale * Len(levels[idx]) \in Nat
    BY <1>4, Times, Sizes
  <2>2. size + scale * Len(levels[idx]) \in Nat
    <3> DEFINE x == scale * Len(levels[idx])
    <3> HIDE DEF x
    <3>1. x \in Nat
      BY <2>1 DEF x
    <3>2. size + x \in Nat
      BY <1>4, <3>1
    <3> QED
      BY <3>2 DEF x
  <2> QED
    BY <1>2, <2>1, <2>2
<1>10. Shape'
  BY <1>2, <1>6, <1>7, <1>8, <1>9 DEF Sound, Shape
<1>11. Fill'
  BY <1>2 DEF Sound, Fill
<1>12. Moving'
  BY <1>1, <1>2, <1>4, <1>7, <1>8 DEF Moving, Streaming, Flushing, Resting
<1>13. Feeding'
  BY <1>2, <1>6 DEF Sound, Feeding, Padding, TreeBytes
<1>14. PICK k : Counted(k)
  BY DEF Sound
<1>15. Counted(k)'
  <2>1. ASSUME NEW i PROVE Held(i)' = Held(i)
    BY <1>1, <1>2 DEF Held, Used, Coming, Streaming
  <2>2. Given' = Given
    BY <1>2 DEF Given, Fed, TreeBytes, Padding
  <2>3. Balanced(k)' /\ Carried(k)'
    BY <1>2, <1>14, <2>1, <2>2 DEF Counted, Balanced, Carried
  <2>4. Top(k)'
    BY <1>1, <1>2, <1>14 DEF Counted, Top, Streaming
  <2>5. Hashed(k)'
    BY <1>1, <1>2, <1>8 DEF Hashed, Hashing, Flushing
  <2>6. Held(idx) = Len(levels[idx]) /\ k \in [Nat -> Nat]
    <3>1. Used(idx) = Len(levels[idx]) /\ Coming(idx) = 0
      BY <1>1 DEF Used, Coming
    <3>2. Held(idx) = Len(levels[idx]) + 0
      BY <3>1 DEF Held
    <3>3. Held(idx) = Len(levels[idx])
      BY <1>4, <3>2
    <3>4. k \in [Nat -> Nat]
      BY <1>14 DEF Counted
    <3> QED
      BY <3>3, <3>4
  <2>7. Given = size' + scale' * (DigestSize * k[idx])
    <3> DEFINE u == Len(levels[idx])
               b == k[idx]
    <3>1. CASE idx = 1
      <4>1. scale = 1 /\ size = 0
        BY <1>1, <1>14, <3>1 DEF Counted, Sized
      <4>2. scale' = Compression /\ size' = u
        BY <1>2, <1>4, <4>1, Sizes
      <4>3. Given = block_size * b + u
        <5>1. Given = Len(pending) + block_size * b + u
          BY <1>14, <2>6, <3>1 DEF Counted, Balanced
        <5>2. block_size * b \in Nat /\ u \in Nat
          BY <1>4, <1>8, <2>6, Products
        <5> QED
          BY <1>4, <5>1, <5>2
      <4>4. b \in Nat /\ u \in Nat
        BY <1>4, <1>8, <2>6
      <4> HIDE DEF u, b
      <4>5. block_size * b + u = u + Compression * (DigestSize * b)
        BY <4>4, Sizes
      <4> QED
        BY <4>2, <4>3, <4>5 DEF b
    <3>2. CASE idx # 1
      <4> DEFINE a == k[idx - 1]
      <4>1. idx - 1 \in Nat \ {0} /\ (idx - 1) + 1 = idx
        BY <1>8, <3>2
      <4>2. DigestSize * a = block_size * b + u
        BY <1>14, <2>6, <4>1 DEF Counted, Carried
      <4>3. Given = size + scale * (DigestSize * a)
        BY <1>1, <1>14, <3>2 DEF Counted, Sized
      <4>4. a \in Nat /\ b \in Nat /\ u \in Nat
        BY <1>4, <1>8, <2>6, <4>1
      <4> HIDE DEF a, b, u
      <4>5. size + scale * (DigestSize * a)
              = (size + scale * u) + (scale * Compression) * (DigestSize * b)
        BY <1>4, <4>2, <4>4, Scaled
      <4>6. size' = size + scale * u
        BY <1>2 DEF u
      <4> QED
        BY <1>2, <4>3, <4>5, <4>6 DEF b
    <3> QED
      BY <3>1, <3>2
  <2>8. Sized(k)'
    <3>1. idx' - 1 = idx /\ idx' # 1
      BY <1>2, <1>8
    <3>2. Given' = size' + scale' * (DigestSize * k[idx' - 1])
      BY <2>2, <2>7, <3>1
    <3> QED
      BY <3>1, <3>2 DEF Sized
  <2> QED
    BY <1>14, <2>3, <2>4, <2>5, <2>8 DEF Counted, Deep
<1> QED
  BY <1>5, <1>10, <1>11, <1>12, <1>13, <1>15 DEF Sound

(* The size found by the flush is the number of bytes given.                *)
LEMMA FlushedSize ==
    ASSUME Sound, Flushing, idx = Len(levels) + 1
    PROVE  size = Given
<1>1. PICK k : Counted(k)
  BY DEF Sound
<1>2. Len(levels) \in Nat /\ size \in Nat /\ scale \in Nat /\ Len(pending) = 0
      /\ k \in [Nat -> Nat] /\ ~Streaming
  BY <1>1, Numbers DEF Sound, Shape, Counted, Moving, Flushing, Streaming
<1>3. CASE Len(levels) = 0
  <2>1. size = 0
    BY <1>1, <1>3 DEF Counted, Sized
  <2>2. k[1] = 0 /\ Held(1) = 0
    BY <1>1, <1>2, <1>3 DEF Counted, Top, Held, Used, Coming
  <2>3. Given = 0 + block_size * 0 + 0
    BY <1>1, <1>2, <2>2 DEF Counted, Balanced
  <2> QED
    BY <2>1, <2>3, Linear
<1>4. CASE Len(levels) # 0
  <2>1. idx # 1 /\ idx - 1 = Len(levels) /\ Len(levels) \in Nat \ {0}
    BY <1>2, <1>4
  <2>2. k[idx - 1] = 0
    BY <1>1, <1>2, <2>1 DEF Counted, Top
  <2>3. Given = size + scale * (DigestSize * 0)
    BY <1>1, <2>1, <2>2 DEF Counted, Sized
  <2> QED
    BY <1>2, <2>3, Linear
<1> QED
  BY <1>3, <1>4

(* The tree is padded to whole blocks.                                      *)
LEMMA PaddingFits ==
    ASSUME Len(result.tree) \in Nat
    PROVE  TreeBytes \in Nat /\ Padding \in Nat /\ Padding < block_size
<1>1. TreeBytes \in Nat
  BY Linear DEF TreeBytes
<1>2. TreeBytes % block_size \in 0 .. block_size - 1
  BY <1>1, Linear
<1>3. block_size - (TreeBytes % block_size) \in Nat
  BY <1>2, Linear
<1>4. (block_size - (TreeBytes % block_size)) % block_size \in 0 .. block_size - 1
  BY <1>3, Linear
<1> QED
  BY <1>1, <1>4, Linear DEF Padding

(* The hasher of the file is done.                                          *)
LEMMA FlushDoneStep ==
    ASSUME Sound, FlushDone
    PROVE  Sound'
<1>1. phase = "flush" /\ phase' = "tree" /\ Fresh /\ UNCHANGED <<scale, size, written, feed>>
  BY DEF FlushDone, flush
<1>2. result' = [root |-> root, size |-> size, tree |-> level1, rebuilt |-> <<>>]
  BY DEF FlushDone
<1>3. IsSeq(<<>>) /\ Len(<<>>) = 0
  BY SeqEmpty
<1>4. Len(feed) = 0 /\ Len(level1) \in Nat
  BY <1>1, Numbers DEF Sound, Feeding
<1>5. Shape'
  <2>1. idx' = 0 /\ Len(levels') = 0 /\ IsSeq(levels') /\ IsSeq(pending') /\ IsSeq(overflow') /\ IsSeq(level1')
    BY <1>1, <1>3 DEF Fresh
  <2>2. result'.tree = level1 /\ IsSeq(result'.tree)
    BY <1>2 DEF Sound, Shape
  <2>3. result' = [root |-> result'.root, size |-> result'.size, tree |-> result'.tree,
                   rebuilt |-> result'.rebuilt]
    BY <1>2
  <2>4. 0 <= 0 + 1 /\ 0 <= MaxLevels
    BY Linear
  <2> QED
    BY <1>1, <2>1, <2>2, <2>3, <2>4 DEF Sound, Shape, Phases
<1>6. Fill'
  BY <1>1, <1>3 DEF Fresh, Fill
<1>7. Moving'
  BY <1>1, <1>3 DEF Fresh, Moving, Streaming, Flushing, Resting
<1>8. Feeding'
  <2>1. Len(level1') = 0 /\ Len(feed') = 0 /\ result'.tree = level1 /\ 0 <= Len(level1) + 1
    BY <1>1, <1>2, <1>3, <1>4 DEF Fresh
  <2> QED
    BY <2>1 DEF Sound, Feeding
<1>9. Counted(NoBlocks)'
  BY <1>1, FreshCounted DEF Given, Flushing
<1> QED
  BY <1>5, <1>6, <1>7, <1>8, <1>9 DEF Sound

(* The root hash was rebuilt.                                               *)
LEMMA RebuildDoneStep ==
    ASSUME Sound, RebuildDone
    PROVE  Sound'
<1>1. phase = "reflush" /\ phase' = "done" /\ Fresh /\ UNCHANGED <<scale, size, written, feed>>
  BY DEF RebuildDone, flush
<1>2. result' = [root |-> result.root, size |-> result.size, tree |-> result.tree, rebuilt |-> root]
  <2>1. result' = [result EXCEPT !.rebuilt = root]
    BY DEF RebuildDone
  <2>2. result = [root |-> result.root, size |-> result.size, tree |-> result.tree,
                  rebuilt |-> result.rebuilt]
    BY DEF Sound, Shape
  <2> QED
    BY <2>1, <2>2
<1>3. IsSeq(<<>>) /\ Len(<<>>) = 0
  BY SeqEmpty
<1>4. Len(feed) = 0
  BY <1>1 DEF Sound, Feeding
<1>5. result'.tree = result.tree
  BY <1>2
<1>6. Shape'
  <2>1. idx' = 0 /\ Len(levels') = 0 /\ IsSeq(levels') /\ IsSeq(pending') /\ IsSeq(overflow') /\ IsSeq(level1')
    BY <1>1, <1>3 DEF Fresh
  <2>2. result' = [root |-> result'.root, size |-> result'.size, tree |-> result'.tree,
                   rebuilt |-> result'.rebuilt]
    BY <1>2
  <2>3. 0 <= 0 + 1 /\ 0 <= MaxLevels
    BY Linear
  <2> QED
    BY <1>1, <1>5, <2>1, <2>2, <2>3 DEF Sound, Shape, Phases
<1>7. Fill'
  BY <1>1, <1>3 DEF Fresh, Fill
<1>8. Moving'
  BY <1>1, <1>3 DEF Fresh, Moving, Streaming, Flushing, Resting
<1>9. Feeding'
  <2>1. Len(level1') = 0 /\ Len(feed') = 0
    BY <1>1, <1>3, <1>4 DEF Fresh
  <2> QED
    BY <1>1, <1>4, <1>5, <2>1 DEF Sound, Feeding
<1>10. Counted(NoBlocks)'
  BY <1>1, FreshCounted DEF Given, Flushing
<1> QED
  BY <1>6, <1>7, <1>8, <1>9, <1>10 DEF Sound

(* A tree of one hash is its own root.                                      *)
LEMMA RebuildSingleStep ==
    ASSUME Sound, RebuildSingle
    PROVE  Sound'
<1>1. phase = "tree" /\ phase' = "done"
      /\ UNCHANGED <<pending, overflow, idx, levels, level1, scale, size, written, feed>>
  BY DEF RebuildSingle, stream, flush
<1>2. result' = [root |-> result.root, size |-> result.size, tree |-> result.tree,
                 rebuilt |-> result.tree[1]]
  <2>1. result' = [result EXCEPT !.rebuilt = result.tree[1]]
    BY DEF RebuildSingle
  <2>2. result = [root |-> result.root, size |-> result.size, tree |-> result.tree,
                  rebuilt |-> result.rebuilt]
    BY DEF Sound, Shape
  <2> QED
    BY <2>1, <2>2
<1>3. result'.tree = result.tree
  BY <1>2
<1>4. Shape'
  <2>1. result' = [root |-> result'.root, size |-> result'.size, tree |-> result'.tree,
                   rebuilt |-> result'.rebuilt]
    BY <1>2
  <2> QED
    BY <1>1, <1>3, <2>1 DEF Sound, Shape, Phases
<1>5. Fill' /\ Moving' /\ Feeding'
  BY <1>1, <1>3 DEF Sound, Fill, Moving, Feeding, Streaming, Flushing, Resting, Padding, TreeBytes
<1>6. PICK k : Counted(k)
  BY DEF Sound
<1>7. Counted(k)'
  <2>1. ASSUME NEW i PROVE Held(i)' = Held(i)
    BY <1>1 DEF Held, Used, Coming, Streaming
  <2>2. Given = 0 /\ Given' = 0
    BY <1>1 DEF Given
  <2> QED
    BY <1>1, <1>6, <2>1, <2>2
       DEF Counted, Balanced, Carried, Top, Deep, Hashed, Hashing, Sized, Streaming, Flushing
<1> QED
  BY <1>4, <1>5, <1>7 DEF Sound

(* The level-1 hashes and the padding are to be hashed.                     *)
LEMMA RebuildStartStep ==
    ASSUME Sound, RebuildStart
    PROVE  Sound'
<1> DEFINE z == Zeros(Padding)
<1>1. phase = "tree" /\ phase' = "refeed" /\ feed' = Append(result.tree, z)
      /\ UNCHANGED <<pending, overflow, idx, levels, level1, scale, size, written, result>>
  BY DEF RebuildStart, stream, flush
<1>2. Len(result.tree) \in Nat /\ Len(levels) \in Nat /\ IsSeq(result.tree) /\ IsSeq(levels)
      /\ Len(levels) = 0 /\ idx = 0
  BY <1>1, Numbers DEF Sound, Shape, Moving, Resting
<1>3. IsSeq(z) /\ Len(z) = Padding
  BY <1>2, PaddingFits, ZerosSeq
<1> HIDE DEF z
<1>4. /\ IsSeq(feed') /\ Len(feed') = Len(result.tree) + 1 /\ feed'[Len(result.tree) + 1] = z
      /\ \A i \in 1 .. Len(result.tree) : feed'[i] = result.tree[i]
  BY <1>1, <1>2, SeqAppend
<1>5. Shape'
  BY <1>1, <1>4 DEF Sound, Shape, Phases
<1>6. Fill'
  BY <1>1 DEF Sound, Fill
<1>7. Moving'
  BY <1>1, <1>2 DEF Sound, Moving, Streaming, Flushing, Resting
<1>8. Feeding'
  <2>1. ASSUME NEW i \in 1 .. Len(result.tree) + 1
        PROVE  IsSeq(feed'[i])
               /\ Len(feed'[i]) = IF i = Len(result.tree) + 1 THEN Padding ELSE DigestSize
    <3>1. CASE i = Len(result.tree) + 1
      BY <1>3, <1>4, <3>1
    <3>2. CASE i # Len(result.tree) + 1
      <4>1. i \in 1 .. Len(result.tree)
        BY <1>2, <3>2
      <4> QED
        BY <1>4, <3>2, <4>1 DEF Sound, Feeding
    <3> QED
      BY <3>1, <3>2
  <2>2. Padding' = Padding
    BY <1>1 DEF Padding, TreeBytes
  <2>3. Len(feed') <= Len(result'.tree) + 1
    BY <1>1, <1>2, <1>4
  <2> QED
    BY <1>1, <1>4, <2>1, <2>2, <2>3 DEF Sound, Feeding
<1>9. PICK k : Counted(k)
  BY DEF Sound
<1>10. Counted(k)'
  <2>1. ASSUME NEW i \in Nat \ {0} PROVE Held(i)' = Held(i)
    BY <1>1, <1>2 DEF Held, Used, Coming
  <2>2. Given = 0
    BY <1>1 DEF Given
  <2>3. Given' = 0
    <3>1. Given' = (Len(result.tree) + 1 - (Len(result.tree) + 1)) * DigestSize
      <4>1. Len(feed') # 0
        BY <1>2, <1>4
      <4> QED
        BY <1>1, <1>4, <4>1 DEF Given, Fed
    <3>2. Len(result.tree) + 1 - (Len(result.tree) + 1) = 0
      BY <1>2
    <3> QED
      BY <3>1, <3>2, Linear
  <2>4. Balanced(k)' /\ Carried(k)'
    BY <1>1, <1>9, <2>1, <2>2, <2>3 DEF Counted, Balanced, Carried
  <2>5. Top(k)'
    <3>1. idx' # Len(levels') + 1 /\ idx # Len(levels) + 1
      BY <1>1, <1>2
    <3> QED
      BY <1>1, <1>9, <3>1 DEF Counted, Top
  <2> QED
    BY <1>1, <1>9, <2>4, <2>5 DEF Counted, Deep, Hashed, Hashing, Sized, Flushing
<1> QED
  BY <1>5, <1>6, <1>7, <1>8, <1>10 DEF Sound

(* The next of them is fed to the second hasher.                            *)
LEMMA RebuildUpdateStep ==
    ASSUME Sound, RebuildUpdate
    PROVE  Sound'
<1>1. phase = "refeed" /\ pending' = Head(feed) /\ feed' = Tail(feed) /\ idx = 0
      /\ UNCHANGED <<phase, overflow, idx, levels, level1, scale, size, written, result>>
  BY DEF RebuildUpdate, flush, AtRest
<1>2. Len(result.tree) \in Nat /\ Len(feed) \in Nat \ {0} /\ IsSeq(feed) /\ Len(pending) = 0
      /\ Len(feed) <= Len(result.tree) + 1
  <2>1. feed # <<>> /\ pending = <<>>
    BY DEF RebuildUpdate, AtRest
  <2> QED
    BY <2>1, Numbers, SeqLen DEF Sound, Shape, Feeding
<1>3. /\ pending' = feed[1] /\ IsSeq(feed') /\ Len(feed') = Len(feed) - 1
      /\ \A i \in 1 .. Len(feed) - 1 : feed'[i] = feed[i + 1]
  BY <1>1, <1>2, SeqHeadTail
<1>4. IsSeq(pending') /\ Len(pending') = IF Len(feed) = 1 THEN Padding ELSE DigestSize
  <2>1. 1 \in 1 .. Len(feed)
    BY <1>2
  <2> QED
    BY <1>3, <2>1 DEF Sound, Feeding
<1>5. Shape'
  BY <1>1, <1>3, <1>4 DEF Sound, Shape
<1>6. Fill'
  BY <1>1 DEF Sound, Fill
<1>7. Moving'
  BY <1>1 DEF Sound, Moving, Streaming, Flushing, Resting
<1>8. Feeding'
  <2>1. ASSUME NEW i \in 1 .. Len(feed) - 1
        PROVE  IsSeq(feed'[i])
               /\ Len(feed'[i]) = IF i = Len(feed) - 1 THEN Padding ELSE DigestSize
    <3>1. i + 1 \in 1 .. Len(feed) /\ (i + 1 = Len(feed) <=> i = Len(feed) - 1)
      BY <1>2
    <3> QED
      BY <1>3, <3>1 DEF Sound, Feeding
  <2>2. Padding' = Padding
    BY <1>1 DEF Padding, TreeBytes
  <2>3. Len(feed') <= Len(result'.tree) + 1
    BY <1>1, <1>2, <1>3
  <2> QED
    BY <1>1, <1>3, <2>1, <2>2, <2>3 DEF Sound, Feeding
<1>9. PICK k : Counted(k)
  BY DEF Sound
<1>10. Counted(k)'
  <2>1. ASSUME NEW i PROVE Held(i)' = Held(i)
    BY <1>1 DEF Held, Used, Coming, Streaming
  <2> DEFINE T == Len(result.tree)
             F == Len(feed)
  <2>2. Given = (T + 1 - F) * DigestSize
    BY <1>1, <1>2 DEF Given, Fed
  <2>3. Given' = Given + Len(pending') /\ Given \in Nat /\ Len(pending') \in Nat
    <3>1. T \in Nat /\ F \in Nat \ {0} /\ F <= T + 1 /\ Len(feed') = F - 1
      BY <1>2, <1>3
    <3>2. Len(pending') = IF F = 1 THEN Padding ELSE DigestSize
      BY <1>4
    <3>3. Given' = IF F - 1 = 0 THEN T * DigestSize + Padding ELSE (T + 1 - (F - 1)) * DigestSize
      BY <1>1, <1>3 DEF Given, Fed, TreeBytes, Padding
    <3>4. Padding \in Nat
      BY <1>2, PaddingFits
    <3> HIDE DEF T, F
    <3>5. Given \in Nat /\ Len(pending') \in Nat
      <4>1. T + 1 - F \in Nat
        BY <3>1
      <4>2. (T + 1 - F) * DigestSize \in Nat
        BY <4>1, Times, Linear
      <4> QED
        BY <2>2, <3>2, <3>4, <4>2, Linear
    <3>6. CASE F = 1
      <4>1. T + 1 - F = T
        BY <3>1, <3>6
      <4> QED
        BY <2>2, <3>2, <3>3, <3>5, <3>6, <4>1
    <3>7. CASE F # 1
      <4> DEFINE a == T + 1 - F
      <4>1. a \in Nat /\ T + 1 - (F - 1) = a + 1 /\ F - 1 # 0
        BY <3>1, <3>7
      <4>2. Given' = (a + 1) * DigestSize /\ Given = a * DigestSize
        BY <2>2, <3>3, <4>1
      <4> HIDE DEF a
      <4>3. (a + 1) * DigestSize = a * DigestSize + DigestSize
        BY <4>1, Linear
      <4> QED
        BY <3>2, <3>5, <3>7, <4>2, <4>3
    <3> QED
      BY <3>5, <3>6, <3>7
  <2>4. Balanced(k)'
    <3> DEFINE a == block_size * k[1]
               b == Held(1)
    <3>1. a \in Nat /\ b \in Nat
      BY <1>9, Numbers, Products DEF Counted, Sound
    <3>2. Given = Len(pending) + a + b
      BY <1>9 DEF Counted, Balanced
    <3> HIDE DEF a, b
    <3>3. Given' = Len(pending') + a + b
      BY <1>2, <2>3, <3>1, <3>2
    <3> QED
      BY <2>1, <3>3 DEF Balanced, a, b
  <2>5. Carried(k)' /\ Top(k)'
    BY <1>1, <1>9, <2>1 DEF Counted, Carried, Top, Streaming
  <2> QED
    BY <1>1, <1>9, <2>4, <2>5 DEF Counted, Deep, Hashed, Hashing, Sized, Flushing
<1> QED
  BY <1>5, <1>6, <1>7, <1>8, <1>10 DEF Sound

-----------------------------------------------------------------------------
(* Every step keeps the bytes in order and hashes the right ones.           *)

(* A block of the file.                                                     *)
LEMMA BlockSeq ==
    ASSUME NEW j, NEW n \in Nat
    PROVE  /\ IsSeq(Block(j, n)) /\ Len(Block(j, n)) = n
           /\ \A i \in 1 .. n : Block(j, n)[i] = Byte((j - 1) * block_size + i)
<1>1. Block(j, n) \in [1 .. n -> {Byte((j - 1) * block_size + i) : i \in 1 .. n}]
  BY DEF Block
<1>2. \A i \in 1 .. n : Block(j, n)[i] = Byte((j - 1) * block_size + i)
  BY DEF Block
<1> QED
  BY <1>1, <1>2, SeqMake

(* Where the bytes of the file are while it is hashed.                      *)
LEMMA Positions ==
    ASSUME Sound, Hashing
    PROVE  /\ Len(level1) * block_size \in Nat /\ Len(level1) \in Nat /\ Held(1) \in Nat
           /\ Len(pending) \in Nat /\ Len(written) \in Nat /\ Used(1) \in Nat
           /\ Len(written) = Len(pending) + Len(level1) * block_size + Held(1)
<1>1. PICK k : Counted(k)
  BY DEF Sound
<1>2. Len(level1) \in Nat /\ Len(pending) \in Nat /\ Len(written) \in Nat /\ Held(1) \in Nat
      /\ Used(1) \in Nat
  BY Numbers DEF Sound
<1>3. k[1] = Len(level1) /\ Given = Len(written)
  BY <1>1 DEF Counted, Hashed, Hashing, Given
<1>4. Len(written) = Len(pending) + block_size * Len(level1) + Held(1)
  BY <1>1, <1>3 DEF Counted, Balanced
<1>5. block_size * Len(level1) = Len(level1) * block_size /\ Len(level1) * block_size \in Nat
  BY <1>2, Linear
<1> QED
  BY <1>2, <1>4, <1>5

(* Nothing is hashed initially.                                             *)
LEMMA DataInit == Init => Data
<1> SUFFICES ASSUME Init PROVE Data
  OBVIOUS
<1>1. Len(<<>>) = 0
  BY SeqEmpty
<1>2. Used(1) = 0
  BY <1>1 DEF Init, Used
<1> QED
  BY <1>1, <1>2 DEF Init, Data, Hashing, InOrder

(* The second hasher does not touch the descriptor and the tree.            *)
LEMMA DataKept ==
    ASSUME Data, phase \notin {"write", "flush", "tree"}, phase' \notin {"write", "flush"},
           phase' = phase \/ phase' # "refeed", written' = written,
           result'.tree = result.tree, result'.size = result.size
    PROVE  Data'
<1>1. HashesOf(result.tree)'
  BY DEF Data, HashesOf
<1> QED
  BY <1>1 DEF Data, Hashing

(* The bytes of a call of update are the next ones of the file.             *)
LEMMA UpdateCallData ==
    ASSUME Sound, Data, NEW n \in 1 .. MaxWrite, UpdateCall(n)
    PROVE  Data'
<1>1. phase = "write" /\ phase' = "write" /\ idx = 0 /\ UNCHANGED <<idx, levels, level1>>
      /\ pending' = [i \in 1 .. n |-> Byte(Len(written) + i)] /\ written' = written \o pending'
  BY DEF UpdateCall, AtRest
<1>2. IsSeq(written) /\ Len(written) \in Nat /\ n \in Nat
  BY SeqLen, BlockAssumption DEF Sound, Shape
<1>3. IsSeq(pending') /\ Len(pending') = n /\ \A i \in 1 .. n : pending'[i] = Byte(Len(written) + i)
  <2>1. pending' \in [1 .. n -> {Byte(Len(written) + i) : i \in 1 .. n}]
    BY <1>1
  <2>2. \A i \in 1 .. n : pending'[i] = Byte(Len(written) + i)
    BY <1>1
  <2> QED
    BY <1>2, <2>1, <2>2, SeqMake
<1>4. /\ Len(written') = Len(written) + n
      /\ \A i \in 1 .. Len(written) + n :
           written'[i] = IF i <= Len(written) THEN written[i] ELSE pending'[i - Len(written)]
  BY <1>1, <1>2, <1>3, SeqCat
<1>5. ASSUME NEW i \in 1 .. Len(written')
      PROVE  written'[i] = Byte(i)
  <2>1. CASE i <= Len(written)
    BY <1>2, <1>4, <2>1 DEF Data
  <2>2. CASE ~(i <= Len(written))
    <3>1. i - Len(written) \in 1 .. n /\ Len(written) + (i - Len(written)) = i
      BY <1>2, <1>4, <2>2
    <3>2. pending'[i - Len(written)] = Byte(Len(written) + (i - Len(written)))
      BY <1>3, <3>1
    <3> QED
      BY <1>4, <2>2, <3>1, <3>2
  <2> QED
    BY <2>1, <2>2
<1>6. InOrder'
  <2>1. (Len(written') - Len(pending')) = Len(written)
    BY <1>2, <1>3, <1>4
  <2>2. \A i \in 1 .. Len(pending') : pending'[i] = Byte((Len(written') - Len(pending')) + i)
    BY <1>3, <2>1
  <2>3. Used(1)' = Used(1)
    BY <1>1 DEF Used
  <2> QED
    BY <1>1, <2>2, <2>3 DEF Data, Hashing, InOrder
<1> QED
  BY <1>1, <1>5, <1>6 DEF Data, Hashing

(* A chunk is what comes next.                                              *)
LEMMA ChunkData ==
    ASSUME Sound, Data, Chunk
    PROVE  Data'
<1> DEFINE n == Smaller(block_size, Len(pending))
<1>1. UNCHANGED <<phase, levels, level1, written, result>> /\ idx = 0 /\ idx' = 1
      /\ overflow' = Take(pending, n) /\ pending' = Drop(pending, n) /\ pending # <<>>
  BY DEF Chunk
<1>2. Len(pending) \in Nat \ {0} /\ IsSeq(pending) /\ phase \in Phases
  BY <1>1, SeqLen DEF Sound, Shape
<1>3. n \in 0 .. Len(pending)
  BY <1>2, Linear DEF Smaller
<1> HIDE DEF n
<1>4. /\ Len(overflow') = n /\ Len(pending') = Len(pending) - n
      /\ \A i \in 1 .. n : overflow'[i] = pending[i]
      /\ \A i \in 1 .. Len(pending) - n : pending'[i] = pending[n + i]
  BY <1>1, <1>2, <1>3, SeqTakeDrop
<1>5. phase = "write" \/ phase = "refeed"
  BY <1>1, <1>2 DEF Sound, Moving, Phases, Flushing, Resting
<1>6. CASE phase = "write"
  <2> DEFINE b == Len(level1) * block_size
             u == Used(1)
  <2>1. /\ b \in Nat /\ u \in Nat /\ Len(written) \in Nat /\ Held(1) \in Nat
        /\ Len(written) = Len(pending) + b + Held(1)
    BY <1>6, Positions DEF Hashing
  <2>2. Held(1) = u
    <3>1. Coming(1) = 0
      BY <1>1 DEF Coming
    <3>2. Held(1) = u + 0
      BY <3>1 DEF Held
    <3> HIDE DEF u
    <3> QED
      BY <2>1, <3>2
  <2>3. InOrder
    BY <1>6 DEF Data, Hashing
  <2>4. Used(1)' = u /\ Len(level1') * block_size = b
    BY <1>1 DEF Used
  <2>5. ASSUME NEW i \in 1 .. Len(overflow')
        PROVE  overflow'[i] = Byte(b + u + i)
    <3>1. i \in 1 .. Len(pending) /\ i \in 1 .. n
      BY <1>2, <1>3, <1>4
    <3>2. overflow'[i] = Byte((Len(written) - Len(pending)) + i)
      BY <1>4, <2>3, <3>1 DEF InOrder
    <3> HIDE DEF b, u
    <3>3. Len(written) - Len(pending) = b + u
      BY <1>2, <2>1, <2>2
    <3> QED
      BY <3>2, <3>3
  <2>6. ASSUME NEW i \in 1 .. Len(pending')
        PROVE  pending'[i] = Byte((Len(written) - Len(pending')) + i)
    <3>1. n + i \in 1 .. Len(pending) /\ i \in 1 .. Len(pending) - n
      BY <1>2, <1>3, <1>4
    <3>2. pending'[i] = Byte((Len(written) - Len(pending)) + (n + i))
      BY <1>4, <2>3, <3>1 DEF InOrder
    <3>3. (Len(written) - Len(pending)) + (n + i) = (Len(written) - Len(pending')) + i
      BY <1>2, <1>3, <1>4, <2>1
    <3> QED
      BY <3>2, <3>3
  <2>7. InOrder'
    BY <1>1, <2>3, <2>4, <2>5, <2>6 DEF InOrder
  <2> QED
    BY <1>1, <1>6, <2>7 DEF Data, Hashing
<1>7. CASE phase = "refeed"
  BY <1>1, <1>7, DataKept
<1> QED
  BY <1>5, <1>6, <1>7

(* What fits into level 1 follows what is there already.                    *)
LEMMA FilledInOrder ==
    ASSUME Sound, Data, phase = "write", idx = 1, Len(levels) # 0
    PROVE  /\ Used(1) = Len(levels[1]) /\ Used(1) \in Nat /\ Len(level1) * block_size \in Nat
           /\ \A j \in 1 .. Len(Filled(1)) : Filled(1)[j] = Byte(Len(level1) * block_size + j)
           /\ \A j \in 1 .. Len(Rest(1)) :
                Rest(1)[j] = Byte(Len(level1) * block_size + (Used(1) + Fits(1)) + j)
<1> DEFINE b == Len(level1) * block_size
           u == Used(1)
<1>1. 1 \in 1 .. Len(levels) /\ Len(overflow) \in Nat
  BY Numbers DEF Sound
<1>2. u = Len(levels[1]) /\ u \in Nat /\ b \in Nat
  BY <1>1, Positions DEF Used, Hashing
<1>3. /\ Fits(1) \in 0 .. Len(overflow)
      /\ Len(Filled(1)) = Len(levels[1]) + Fits(1) /\ Len(Rest(1)) = Len(overflow) - Fits(1)
      /\ \A j \in 1 .. Len(levels[1]) + Fits(1) :
           Filled(1)[j] = IF j <= Len(levels[1]) THEN levels[1][j] ELSE overflow[j - Len(levels[1])]
      /\ \A j \in 1 .. Len(overflow) - Fits(1) : Rest(1)[j] = overflow[Fits(1) + j]
  BY <1>1, Filling DEF Sound
<1>4. /\ \A i \in 1 .. u : levels[1][i] = Byte(b + i)
      /\ \A i \in 1 .. Len(overflow) : overflow[i] = Byte(b + u + i)
  BY DEF Data, Hashing, InOrder
<1> HIDE DEF b, u
<1>5. ASSUME NEW j \in 1 .. Len(Filled(1)) PROVE Filled(1)[j] = Byte(b + j)
  <2>1. CASE j <= u
    BY <1>2, <1>3, <1>4, <2>1
  <2>2. CASE ~(j <= u)
    <3>1. j \in Nat /\ j <= u + Fits(1) /\ Fits(1) \in Nat /\ Fits(1) <= Len(overflow)
      BY <1>1, <1>2, <1>3
    <3>2. j - u \in 1 .. Len(overflow)
      BY <1>1, <1>2, <2>2, <3>1
    <3>3. b + u + (j - u) = b + j
      <4>1. b \in Nat /\ u \in Nat /\ j \in Nat
        BY <1>2, <3>1
      <4> QED
        BY <4>1
    <3>4. Filled(1)[j] = overflow[j - u]
      BY <1>2, <1>3, <2>2
    <3> QED
      BY <1>4, <3>2, <3>3, <3>4
  <2> QED
    BY <2>1, <2>2
<1>6. ASSUME NEW j \in 1 .. Len(Rest(1)) PROVE Rest(1)[j] = Byte(b + (u + Fits(1)) + j)
  <2>1. Fits(1) + j \in 1 .. Len(overflow) /\ b + u + (Fits(1) + j) = b + (u + Fits(1)) + j
    BY SMTT(30), <1>1, <1>2, <1>3
  <2>2. Rest(1)[j] = overflow[Fits(1) + j]
    BY <1>3
  <2> QED
    BY <1>4, <2>1, <2>2
<1> QED
  BY <1>2, <1>5, <1>6 DEF b, u

(* Level 1 takes the chunk.                                                 *)
LEMMA UpdateStopsData ==
    ASSUME Sound, Data, UpdateStops
    PROVE  Data'
<1>1. /\ idx \in 1 .. Len(levels) /\ levels' = [levels EXCEPT ![idx] = Filled(idx)] /\ idx' = 0
      /\ UNCHANGED <<phase, pending, level1, written, result>> /\ LevelDone(idx)
      /\ phase = "write" \/ phase = "refeed"
  BY DEF UpdateStops
<1>2. IsSeq(Filled(idx)) /\ Len(levels) \in Nat
  BY <1>1, Filling, Numbers DEF Sound
<1>3. /\ Len(levels') = Len(levels)
      /\ \A i \in 1 .. Len(levels) : levels'[i] = IF i = idx THEN Filled(idx) ELSE levels[i]
      /\ \A i : Used(i)' = IF i = idx THEN Len(Filled(idx)) ELSE Used(i)
  BY <1>1, <1>2, Replaced DEF Sound
<1>4. CASE phase = "write"
  <2>1. InOrder /\ 1 \in 1 .. Len(levels) /\ Len(levels) # 0
    BY <1>1, <1>2, <1>4 DEF Data, Hashing
  <2>2. ASSUME NEW i \in 1 .. Used(1)' PROVE levels'[1][i] = Byte(Len(level1) * block_size + i)
    <3>1. CASE idx = 1
      BY <1>3, <1>4, <2>1, <3>1, FilledInOrder
    <3>2. CASE idx # 1
      BY <1>3, <2>1, <3>2 DEF InOrder
    <3> QED
      BY <3>1, <3>2
  <2>3. InOrder'
    BY <1>1, <2>1, <2>2 DEF InOrder
  <2> QED
    BY <1>1, <1>4, <2>3 DEF Data, Hashing
<1>5. CASE phase = "refeed"
  BY <1>1, <1>5, DataKept
<1> QED
  BY <1>1, <1>4, <1>5

(* The block hashed is the next one of the file.                            *)
LEMMA UpdateCarriesData ==
    ASSUME Sound, Data, UpdateCarries
    PROVE  Data'
<1> DEFINE h == Digest(Pad(Filled(idx)))
<1>1. /\ idx \in 1 .. Len(levels) /\ levels' = [levels EXCEPT ![idx] = Rest(idx)] /\ idx' = idx + 1
      /\ level1' = (IF idx = 1 THEN Append(level1, h) ELSE level1)
      /\ UNCHANGED <<phase, pending, written, result>> /\ ~LevelDone(idx)
      /\ phase = "write" \/ phase = "refeed"
  BY DEF UpdateCarries
<1> HIDE DEF h
<1>2. IsSeq(Filled(idx)) /\ IsSeq(Rest(idx)) /\ Len(levels) \in Nat /\ Len(overflow) \in Nat
      /\ IsSeq(level1) /\ Len(level1) \in Nat
  BY <1>1, Filling, Numbers DEF Sound, Shape
<1>3. /\ Len(levels') = Len(levels)
      /\ \A i \in 1 .. Len(levels) : levels'[i] = IF i = idx THEN Rest(idx) ELSE levels[i]
      /\ \A i : Used(i)' = IF i = idx THEN Len(Rest(idx)) ELSE Used(i)
  BY <1>1, <1>2, Replaced DEF Sound
<1>4. idx' # 1
  BY <1>1
<1>5. CASE phase = "write" /\ idx = 1
  <2> DEFINE n == Len(level1)
             b == n * block_size
  <2>1. InOrder /\ 1 \in 1 .. Len(levels) /\ Len(levels) # 0
    BY <1>1, <1>2, <1>5 DEF Data, Hashing
  <2>2. /\ Used(1) = Len(levels[1]) /\ Used(1) \in Nat /\ b \in Nat
        /\ \A j \in 1 .. Len(Filled(1)) : Filled(1)[j] = Byte(b + j)
        /\ \A j \in 1 .. Len(Rest(1)) : Rest(1)[j] = Byte(b + (Used(1) + Fits(1)) + j)
    BY <1>5, <2>1, FilledInOrder
  <2>3. /\ Room(1) \in Nat /\ Room(1) = block_size - Used(1)
        /\ Fits(1) = (IF Room(1) < Len(overflow) THEN Room(1) ELSE Len(overflow))
        /\ Len(Filled(1)) = Used(1) + Fits(1) /\ Len(Rest(1)) = Len(overflow) - Fits(1)
    BY <2>1, <2>2, Filling DEF Sound
  <2>4. Fits(1) = Room(1)
    <3>1. Rest(1) # <<>>
      BY <1>1, <1>5 DEF LevelDone
    <3>2. Len(Rest(1)) # 0
      BY <1>2, <1>5, <3>1, SeqLen
    <3> QED
      BY <1>2, <2>3, <3>2
  <2>5. Used(1) + Fits(1) = block_size /\ Len(Filled(1)) = block_size
    BY <2>2, <2>3, <2>4, Linear
  <2>6. (n + 1) - 1 = n /\ (n + 1) * block_size = b + block_size /\ n + 1 \in Nat
    BY <1>2, Linear
  <2>7. Filled(1) = Block(n + 1, block_size)
    <3>1. /\ IsSeq(Block(n + 1, block_size)) /\ Len(Block(n + 1, block_size)) = block_size
          /\ \A i \in 1 .. block_size :
               Block(n + 1, block_size)[i] = Byte(((n + 1) - 1) * block_size + i)
      BY BlockSeq, Linear
    <3>2. \A i \in 1 .. Len(Filled(1)) : Filled(1)[i] = Block(n + 1, block_size)[i]
      BY <2>2, <2>5, <2>6, <3>1
    <3> QED
      BY <1>2, <1>5, <2>5, <3>1, <3>2, SeqEqual
  <2>8. /\ Len(level1') = n + 1 /\ level1'[n + 1] = h
        /\ \A i \in 1 .. n : level1'[i] = level1[i]
    BY <1>1, <1>2, <1>5, SeqAppend
  <2>9. ASSUME NEW j \in 1 .. Len(level1') PROVE level1'[j] = Digest(Pad(Block(j, block_size)))
    <3>1. CASE j = n + 1
      BY <1>5, <2>7, <2>8, <3>1 DEF h
    <3>2. CASE j # n + 1
      <4>1. j \in 1 .. n
        BY <1>2, <2>8, <3>2
      <4> QED
        BY <2>1, <2>8, <4>1 DEF InOrder
    <3> QED
      BY <3>1, <3>2
  <2>10. ASSUME NEW i \in 1 .. Used(1)'
         PROVE  levels'[1][i] = Byte(Len(level1') * block_size + i)
    <3>1. levels'[1] = Rest(1) /\ i \in 1 .. Len(Rest(1))
      BY <1>3, <1>5, <2>1
    <3>2. Rest(1)[i] = Byte(b + block_size + i)
      BY <2>2, <2>5, <3>1
    <3> QED
      BY <2>6, <2>8, <3>1, <3>2
  <2>11. InOrder'
    BY <1>1, <1>4, <2>1, <2>9, <2>10 DEF InOrder
  <2> QED
    BY <1>1, <1>5, <2>11 DEF Data, Hashing
<1>6. CASE phase = "write" /\ idx # 1
  <2>1. 1 \in 1 .. Len(levels) /\ levels'[1] = levels[1] /\ Used(1)' = Used(1) /\ level1' = level1
    BY <1>1, <1>2, <1>3, <1>6
  <2>2. InOrder'
    BY <1>1, <1>4, <1>6, <2>1 DEF Data, Hashing, InOrder
  <2> QED
    BY <1>1, <1>6, <2>2 DEF Data, Hashing
<1>7. CASE phase = "refeed"
  BY <1>1, <1>7, DataKept
<1> QED
  BY <1>1, <1>5, <1>6, <1>7

(* The first chunk is level 1.                                              *)
LEMMA NewLevelData ==
    ASSUME Sound, Data, NewLevel
    PROVE  Data'
<1>1. /\ idx = Len(levels) + 1 /\ levels' = Append(levels, overflow) /\ idx' = 0
      /\ UNCHANGED <<phase, pending, level1, written, result>>
      /\ phase = "write" \/ phase = "refeed"
  BY DEF NewLevel
<1>2. IsSeq(levels) /\ Len(levels) \in Nat
  BY Numbers DEF Sound, Shape
<1>3. /\ Len(levels') = Len(levels) + 1 /\ levels'[Len(levels) + 1] = overflow
      /\ \A i \in 1 .. Len(levels) : levels'[i] = levels[i]
  BY <1>1, <1>2, SeqAppend
<1>4. CASE phase = "write" /\ Len(levels) = 0
  <2> DEFINE b == Len(level1) * block_size
  <2>1. InOrder
    BY <1>4 DEF Data, Hashing
  <2>2. Used(1) = 0 /\ b \in Nat /\ idx = 1 /\ levels'[1] = overflow /\ Used(1)' = Len(overflow)
    BY <1>1, <1>3, <1>4, Positions DEF Used, Hashing
  <2>3. ASSUME NEW i \in 1 .. Used(1)' PROVE levels'[1][i] = Byte(b + i)
    <3>1. overflow[i] = Byte(b + 0 + i)
      BY <1>4, <2>1, <2>2 DEF InOrder
    <3> HIDE DEF b
    <3>2. b + 0 = b
      BY <2>2
    <3> QED
      BY <2>2, <3>1, <3>2
  <2>4. InOrder'
    <3>1. \A i \in 1 .. Used(1)' : levels'[1][i] = Byte(Len(level1') * block_size + i)
      BY <1>1, <2>3
    <3>2. idx' # 1
      BY <1>1
    <3>3. \A i \in 1 .. Len(pending') : pending'[i] = Byte((Len(written') - Len(pending')) + i)
      BY <1>1, <2>1, Zenon DEF InOrder
    <3>4. \A j \in 1 .. Len(level1') : level1'[j] = Digest(Pad(Block(j, block_size)))
      BY <1>1, <2>1, Zenon DEF InOrder
    <3> QED
      BY <3>1, <3>2, <3>3, <3>4 DEF InOrder
  <2> QED
    BY <1>1, <1>4, <2>4 DEF Data, Hashing
<1>5. CASE phase = "write" /\ Len(levels) # 0
  <2>1. levels'[1] = levels[1] /\ Used(1)' = Used(1)
    BY <1>2, <1>3, <1>5 DEF Used
  <2>2. InOrder
    BY <1>5 DEF Data, Hashing
  <2>3. InOrder'
    <3>1. \A i \in 1 .. Used(1)' : levels'[1][i] = Byte(Len(level1') * block_size + i)
      BY <1>1, <2>1, <2>2 DEF InOrder
    <3>2. idx' # 1
      BY <1>1
    <3>3. \A i \in 1 .. Len(pending') : pending'[i] = Byte((Len(written') - Len(pending')) + i)
      BY <1>1, <2>2, Zenon DEF InOrder
    <3>4. \A j \in 1 .. Len(level1') : level1'[j] = Digest(Pad(Block(j, block_size)))
      BY <1>1, <2>2, Zenon DEF InOrder
    <3> QED
      BY <3>1, <3>2, <3>3, <3>4 DEF InOrder
  <2> QED
    BY <1>1, <1>5, <2>3 DEF Data, Hashing
<1>6. CASE phase = "refeed"
  BY <1>1, <1>6, DataKept
<1> QED
  BY <1>1, <1>4, <1>5, <1>6

(* The flush starts with what is in level 1.                                *)
LEMMA FinalizeData ==
    ASSUME Sound, Data, Finalize
    PROVE  Data'
<1>1. /\ idx = 0 /\ idx' = 1 /\ UNCHANGED <<pending, levels, level1, written, result>>
      /\ (phase = "write" /\ phase' = "flush") \/ (phase = "refeed" /\ phase' = "reflush")
  BY DEF Finalize, AtRest
<1>2. CASE phase = "write"
  <2>1. Used(1)' = Used(1) /\ phase' = "flush"
    BY <1>1, <1>2 DEF Used
  <2>2. InOrder'
    BY <1>1, <1>2, <2>1 DEF Data, Hashing, InOrder
  <2> QED
    BY <1>1, <1>2, <2>1, <2>2 DEF Data, Hashing
<1>3. CASE phase = "refeed"
  BY <1>1, <1>3, DataKept
<1> QED
  BY <1>1, <1>2, <1>3

(* The last block, full or not, is hashed by the flush of level 1.          *)
LEMMA FlushLevelData ==
    ASSUME Sound, Data, FlushLevel
    PROVE  Data'
<1> DEFINE h == Digest(Pad(levels[idx] \o overflow))
<1>1. /\ idx \in 1 .. Len(levels) /\ idx' = idx + 1
      /\ level1' = (IF idx = 1 THEN Append(level1, h) ELSE level1)
      /\ UNCHANGED <<phase, written, result>>
      /\ phase = "flush" \/ phase = "reflush"
  BY DEF FlushLevel
<1> HIDE DEF h
<1>2. Len(levels) \in Nat /\ idx' # 1
  BY <1>1, Numbers DEF Sound
<1>3. CASE phase = "flush" /\ idx = 1
  <2> DEFINE n == Len(level1)
             b == n * block_size
             u == Used(1)
             W == Len(written)
  <2>1. InOrder
    BY <1>3 DEF Data, Hashing
  <2>2. /\ b \in Nat /\ u \in Nat /\ W \in Nat /\ n \in Nat /\ Held(1) \in Nat
        /\ W = Len(pending) + b + Held(1)
    BY <1>3, Positions DEF Hashing
  <2>3. /\ 1 \in 1 .. Len(levels) /\ u = Len(levels[1]) /\ IsSeq(levels[1]) /\ u <= block_size /\ u >= 1
        /\ IsSeq(level1)
    BY <1>1, <1>2, <1>3 DEF Sound, Fill, Shape, Used
  <2>4. Len(pending) = 0 /\ Len(overflow) = 0 /\ IsSeq(overflow) /\ Held(1) = u + 0
    <3>1. Flushing /\ ~Streaming
      BY <1>3 DEF Flushing, Streaming
    <3> QED
      BY <1>3, <3>1 DEF Sound, Shape, Moving, Held, Coming
  <2>5. W = b + u
    <3> HIDE DEF b, u, W
    <3> QED
      BY <2>2, <2>4
  <2>6. (n + 1) - 1 = n /\ (n + 1) * block_size = b + block_size /\ n + 1 \in Nat
    BY <2>2, Linear
  <2>7. levels[1] \o overflow = Block(n + 1, u)
    <3>1. /\ IsSeq(levels[1] \o overflow) /\ Len(levels[1] \o overflow) = Len(levels[1]) + Len(overflow)
          /\ \A i \in 1 .. Len(levels[1]) + Len(overflow) :
               (levels[1] \o overflow)[i] = IF i <= Len(levels[1]) THEN levels[1][i]
                                            ELSE overflow[i - Len(levels[1])]
      BY <2>3, <2>4, SeqCat
    <3>2. Len(levels[1]) + Len(overflow) = u
      BY <2>2, <2>3, <2>4
    <3>3. Len(levels[1] \o overflow) = u /\ \A i \in 1 .. u : (levels[1] \o overflow)[i] = levels[1][i]
      BY <2>3, <3>1, <3>2
    <3>4. /\ IsSeq(Block(n + 1, u)) /\ Len(Block(n + 1, u)) = u
          /\ \A i \in 1 .. u : Block(n + 1, u)[i] = Byte(((n + 1) - 1) * block_size + i)
      BY <2>2, BlockSeq
    <3>5. \A i \in 1 .. u : (levels[1] \o overflow)[i] = Block(n + 1, u)[i]
      BY <2>1, <2>6, <3>3, <3>4 DEF InOrder
    <3> QED
      BY <3>1, <3>3, <3>4, <3>5, SeqEqual
  <2>8. /\ Len(level1') = n + 1 /\ level1'[n + 1] = h
        /\ \A i \in 1 .. n : level1'[i] = level1[i]
    BY <1>1, <1>3, <2>3, SeqAppend
  <2>9. ASSUME NEW j \in 1 .. n + 1
        PROVE  level1'[j] = Digest(Pad(Block(j, Smaller(block_size, W - (j - 1) * block_size))))
    <3>1. CASE j = n + 1
      <4>1. W - (j - 1) * block_size = W - b
        BY <2>6, <3>1
      <4>2. Smaller(block_size, W - b) = u
        <5> HIDE DEF b, u, W
        <5> QED
          BY SMTT(30), <2>2, <2>3, <2>5, Linear DEF Smaller
      <4> QED
        BY <1>3, <2>7, <2>8, <3>1, <4>1, <4>2 DEF h
    <3>2. CASE j # n + 1
      <4> DEFINE c == (j - 1) * block_size
      <4>1. j \in 1 .. n
        BY <2>2, <3>2
      <4>2. c \in Nat /\ c + block_size <= b
        <5>1. j - 1 \in Nat /\ (j - 1) + 1 <= n
          BY <2>2, <4>1
        <5>2. ((j - 1) + 1) * block_size <= n * block_size
          BY <2>2, <5>1, Linear
        <5>3. ((j - 1) + 1) * block_size = c + block_size /\ c \in Nat
          BY <5>1, Linear
        <5> QED
          BY <5>2, <5>3
      <4>3. Smaller(block_size, W - c) = block_size
        <5> HIDE DEF b, c, u, W
        <5> QED
          BY SMTT(30), <2>2, <2>3, <2>5, <4>2, Linear DEF Smaller
      <4> QED
        BY <2>1, <2>8, <4>1, <4>3 DEF InOrder
    <3> QED
      BY <3>1, <3>2
  <2>10. (Len(level1') - 1) * block_size < W /\ W <= Len(level1') * block_size /\ Len(level1') # 0
    <3>1. Len(level1') - 1 = n /\ Len(level1') * block_size = b + block_size /\ Len(level1') # 0
      BY <2>2, <2>6, <2>8
    <3>2. b < W /\ W <= b + block_size
      <4> HIDE DEF b, u, W
      <4> QED
        BY <2>2, <2>3, <2>5, Linear
    <3> QED
      BY <3>1, <3>2
  <2>11. HashesOf(level1)'
    BY <1>1, <2>8, <2>9, <2>10 DEF HashesOf
  <2> QED
    BY <1>1, <1>2, <1>3, <2>11 DEF Data, Hashing
<1>4. CASE phase = "flush" /\ idx # 1
  <2>1. HashesOf(level1)'
    BY <1>1, <1>4 DEF Data, HashesOf
  <2> QED
    BY <1>1, <1>2, <1>4, <2>1 DEF Data, Hashing
<1>5. CASE phase = "reflush"
  BY <1>1, <1>5, DataKept
<1> QED
  BY <1>1, <1>3, <1>4, <1>5

(* The tree of the descriptor is that of the file, and so is the size.      *)
LEMMA FlushDoneData ==
    ASSUME Sound, Data, FlushDone
    PROVE  Data'
<1>1. phase = "flush" /\ phase' = "tree" /\ idx = Len(levels) + 1 /\ written' = written
  BY DEF FlushDone
<1>2. result'.tree = level1 /\ result'.size = size
  BY DEF FlushDone
<1>3. size = Given /\ Given = Len(written)
  BY <1>1, FlushedSize DEF Flushing, Given
<1>4. HashesOf(level1)
  <2>1. CASE idx = 1
    <3>1. PICK k : Counted(k)
      BY DEF Sound
    <3>2. size = 0 /\ k[1] = Len(level1)
      BY <1>1, <2>1, <3>1 DEF Counted, Sized, Hashed, Hashing, Flushing
    <3>3. Len(levels) \in Nat /\ Len(levels) = 0
      BY <1>1, <2>1, Numbers DEF Sound
    <3>4. k[1] = 0
      BY <1>1, <3>1, <3>3 DEF Counted, Top, Streaming
    <3>5. Len(level1) = 0 /\ Len(written) = 0
      BY <1>3, <3>2, <3>4
    <3> QED
      BY <3>5 DEF HashesOf
  <2>2. CASE idx # 1
    BY <1>1, <2>2 DEF Data
  <2> QED
    BY <2>1, <2>2
<1>5. HashesOf(result.tree)'
  BY <1>1, <1>2, <1>4 DEF HashesOf
<1> QED
  BY <1>1, <1>2, <1>3, <1>5 DEF Data, Hashing

(* Rebuilding the root hash keeps the descriptor and the tree.              *)
LEMMA RebuildData ==
    ASSUME Sound, Data, RebuildSingle \/ RebuildStart \/ RebuildUpdate \/ RebuildDone
    PROVE  Data'
<1>1. written' = written /\ result'.tree = result.tree /\ result'.size = result.size
  <2>1. result = [root |-> result.root, size |-> result.size, tree |-> result.tree,
                  rebuilt |-> result.rebuilt]
    BY DEF Sound, Shape
  <2> QED
    BY <2>1 DEF RebuildSingle, RebuildStart, RebuildUpdate, RebuildDone
<1>2. /\ phase \notin {"write", "flush"} /\ phase' \notin {"write", "flush"}
      /\ phase' = "refeed" => phase = "refeed" \/ Len(result.tree) # 1
  BY DEF RebuildSingle, RebuildStart, RebuildUpdate, RebuildDone
<1>3. HashesOf(result.tree)'
  BY <1>1, <1>2 DEF Data, HashesOf
<1> QED
  BY <1>1, <1>2, <1>3 DEF Data, Hashing

-----------------------------------------------------------------------------
(* The theorems.                                                            *)

(* Nothing happens after a panic, and only update panics.                   *)
Safe == IF panicked THEN Streaming ELSE Sound /\ Data

(* The invariant holds initially.                                           *)
LEMMA SafeInit == Init => Safe
BY SoundInit, DataInit DEF Init, Safe

(* A step that is none of NewLevel keeps the invariant and does not panic.  *)
LEMMA OtherStep ==
    ASSUME Sound, Data, ~panicked, Next, ~NewLevel
    PROVE  Sound' /\ Data' /\ ~panicked'
<1>1. CASE \E n \in 1 .. MaxWrite : UpdateCall(n)
  <2>1. PICK n \in 1 .. MaxWrite : UpdateCall(n)
    BY <1>1
  <2>2. ~panicked'
    BY <2>1 DEF UpdateCall
  <2> QED
    BY <2>1, <2>2, UpdateCallStep, UpdateCallData
<1>2. CASE Chunk
  BY <1>2, ChunkStep, ChunkData DEF Chunk
<1>3. CASE UpdateStops
  BY <1>3, UpdateStopsStep, UpdateStopsData
<1>4. CASE UpdateCarries
  BY <1>4, UpdateCarriesStep, UpdateCarriesData
<1>5. CASE Finalize
  BY <1>5, FinalizeStep, FinalizeData DEF Finalize
<1>6. CASE FlushLevel
  BY <1>6, FlushLevelStep, FlushLevelData
<1>7. CASE FlushDone
  BY <1>7, FlushDoneStep, FlushDoneData DEF FlushDone
<1>8. CASE RebuildSingle
  BY <1>8, RebuildSingleStep, RebuildData DEF RebuildSingle
<1>9. CASE RebuildStart
  BY <1>9, RebuildStartStep, RebuildData DEF RebuildStart
<1>10. CASE RebuildUpdate
  BY <1>10, RebuildUpdateStep, RebuildData DEF RebuildUpdate
<1>11. CASE RebuildDone
  BY <1>11, RebuildDoneStep, RebuildData DEF RebuildDone
<1> QED
  BY <1>1, <1>2, <1>3, <1>4, <1>5, <1>6, <1>7, <1>8, <1>9, <1>10, <1>11 DEF Next

(* So does a step that changes nothing.                                     *)
LEMMA Stutter ==
    ASSUME UNCHANGED vars
    PROVE  (Sound <=> Sound') /\ (Data <=> Data') /\ panicked' = panicked /\ phase' = phase
<1> USE DEF vars, stream, flush
<1>1. Shape <=> Shape'
  BY DEF Shape
<1>2. Fill <=> Fill'
  BY DEF Fill
<1>3. Moving <=> Moving'
  BY DEF Moving, Streaming, Flushing, Resting
<1>4. Feeding <=> Feeding'
  BY DEF Feeding, Padding, TreeBytes
<1>5. ASSUME NEW k PROVE Counted(k) <=> Counted(k)'
  <2>1. \A i : Held(i)' = Held(i) /\ Used(i)' = Used(i)
    BY DEF Held, Used, Coming, Streaming
  <2>2. Given' = Given
    BY DEF Given, Fed, TreeBytes, Padding
  <2> QED
    BY <2>1, <2>2
       DEF Counted, Balanced, Carried, Top, Deep, Hashed, Hashing, Sized, Streaming, Flushing
<1>6. Data <=> Data'
  <2>1. InOrder <=> InOrder'
    BY DEF InOrder, Used
  <2>2. (HashesOf(level1) <=> HashesOf(level1)') /\ (HashesOf(result.tree) <=> HashesOf(result.tree)')
    BY DEF HashesOf
  <2> QED
    BY <2>1, <2>2 DEF Data, Hashing
<1> QED
  BY <1>1, <1>2, <1>3, <1>4, <1>5, <1>6 DEF Sound

(* Every step keeps the invariant.                                          *)
LEMMA SafeNext == Safe /\ [Next]_vars => Safe'
<1> SUFFICES ASSUME Safe, [Next]_vars PROVE Safe'
  OBVIOUS
<1>1. CASE UNCHANGED vars
  BY <1>1, Stutter DEF Safe, Streaming
<1>2. CASE panicked /\ Next
  <2>1. Streaming
    BY <1>2 DEF Safe
  <2>2. phase # "tree"
    BY <2>1 DEF Streaming
  <2> QED
    BY <1>2, <2>2 DEF Next, UpdateCall, Chunk, UpdateStops, UpdateCarries, NewLevel, Finalize,
          FlushLevel, FlushDone, RebuildSingle, RebuildStart, RebuildUpdate, RebuildDone, AtRest
<1>3. CASE ~panicked /\ Next /\ ~NewLevel
  BY <1>3, OtherStep DEF Safe
<1>4. CASE ~panicked /\ NewLevel
  <2>1. CASE Len(levels) < MaxLevels
    BY <1>4, <2>1, NewLevelStep, NewLevelData DEF Safe
  <2>2. CASE ~(Len(levels) < MaxLevels)
    <3>1. Len(levels) \in Nat
      BY <1>4, Numbers DEF Safe, Sound
    <3>2. Len(levels) >= MaxLevels
      BY <2>2, <3>1, Linear
    <3>3. panicked' /\ Streaming'
      BY <1>4, <3>2 DEF NewLevel, Streaming
    <3> QED
      BY <3>3 DEF Safe
  <2> QED
    BY <2>1, <2>2
<1> QED
  BY <1>1, <1>2, <1>3, <1>4

(* The invariant implies that every block verifies.                         *)
LEMMA SafeVerifies == Safe => EveryBlockVerifies
<1> SUFFICES ASSUME Safe, phase \in {"tree", "done"}
             PROVE  /\ (Len(result.tree) - 1) * block_size < Len(written) \/ written = <<>>
                    /\ Len(result.tree) * block_size >= Len(written)
                    /\ \A i, j \in 1 .. Len(result.tree) :
                         VerifyDataBlock(result.tree, i, DataBlock(j)) <=> i = j
  BY DEF EveryBlockVerifies
<1> DEFINE T == Len(result.tree)
           W == Len(written)
           S(j) == (j - 1) * block_size
           n(j) == Smaller(block_size, W - S(j))
<1>1. Sound /\ Data
  BY DEF Safe, Streaming
<1>2. HashesOf(result.tree) /\ \A i \in 1 .. W : written[i] = Byte(i)
  BY <1>1 DEF Data
<1>3. IsSeq(written) /\ W \in Nat /\ T \in Nat /\ IsSeq(result.tree)
  BY <1>1, Numbers DEF Sound, Shape
<1>4. CASE T = 0 /\ W = 0
  <2>1. written = <<>>
    BY <1>3, <1>4, SeqLen
  <2>2. 0 * block_size >= 0 /\ 1 .. 0 = {}
    BY Linear
  <2> QED
    BY <1>4, <2>1, <2>2
<1>5. CASE T # 0 /\ (T - 1) * block_size < W /\ W <= T * block_size
  <2>1. ASSUME NEW j \in 1 .. T
        PROVE  /\ S(j) \in Nat /\ S(j) < W /\ n(j) \in 1 .. block_size
               /\ j * block_size = S(j) + block_size
    <3>1. j - 1 \in Nat /\ j - 1 <= T - 1 /\ T - 1 \in Nat /\ j = (j - 1) + 1
      BY <1>3
    <3>2. S(j) \in Nat /\ j * block_size = S(j) + block_size
      BY <3>1, Linear
    <3>3. S(j) <= (T - 1) * block_size
      BY <3>1, Linear
    <3>4. (T - 1) * block_size \in Nat
      BY <3>1, Linear
    <3> HIDE DEF S
    <3>5. S(j) < W
      BY <1>3, <1>5, <3>2, <3>3, <3>4
    <3>6. n(j) \in 1 .. block_size
      BY <1>3, <3>2, <3>5, Linear DEF Smaller
    <3> QED
      BY <3>2, <3>5, <3>6
  <2>2. ASSUME NEW j \in 1 .. T
        PROVE  DataBlock(j) = Block(j, n(j))
    <3> DEFINE e == Smaller(j * block_size, W)
               d == SubSeq(written, S(j) + 1, e)
    <3>1. S(j) \in Nat /\ S(j) < W /\ n(j) \in Nat /\ j * block_size = S(j) + block_size
      BY <2>1, Linear
    <3> HIDE DEF S
    <3>2. e \in Nat /\ e <= W /\ S(j) + 1 <= e + 1 /\ e - (S(j) + 1) + 1 = n(j)
      BY <1>3, <3>1, Linear DEF Smaller
    <3> HIDE DEF e, n
    <3>3. /\ IsSeq(d) /\ Len(d) = n(j)
          /\ \A i \in 1 .. n(j) : d[i] = written[S(j) + 1 + i - 1]
      <4>1. S(j) + 1 \in Nat \ {0}
        BY <3>1
      <4>2. /\ IsSeq(d) /\ Len(d) = e - (S(j) + 1) + 1
            /\ \A i \in 1 .. e - (S(j) + 1) + 1 : d[i] = written[S(j) + 1 + i - 1]
        BY <1>3, <3>2, <4>1, SeqSub
      <4> QED
        BY <3>2, <4>2
    <3>4. ASSUME NEW i \in 1 .. n(j) PROVE d[i] = Byte(S(j) + i)
      <4>1. S(j) + 1 + i - 1 = S(j) + i
        BY <3>1
      <4>2. S(j) + i \in 1 .. W
        BY <1>3, <3>1, <3>2
      <4> QED
        BY <1>2, <3>3, <4>1, <4>2
    <3>5. /\ IsSeq(Block(j, n(j))) /\ Len(Block(j, n(j))) = n(j)
          /\ \A i \in 1 .. n(j) : Block(j, n(j))[i] = Byte(S(j) + i)
      BY <3>1, BlockSeq DEF S
    <3>6. d = Block(j, n(j))
      BY <3>3, <3>4, <3>5, SeqEqual
    <3> QED
      BY <3>6 DEF DataBlock, S, e
  <2>3. ASSUME NEW i \in 1 .. T, NEW j \in 1 .. T
        PROVE  VerifyDataBlock(result.tree, i, DataBlock(j)) <=> i = j
    <3>1. /\ IsSeq(Block(i, n(i))) /\ Len(Block(i, n(i))) = n(i) /\ Block(i, n(i))[1] = Byte(S(i) + 1)
          /\ IsSeq(Block(j, n(j))) /\ Len(Block(j, n(j))) = n(j) /\ Block(j, n(j))[1] = Byte(S(j) + 1)
          /\ n(i) \in 1 .. block_size /\ n(j) \in 1 .. block_size
      <4>1. n(i) \in 1 .. block_size /\ n(j) \in 1 .. block_size
        BY <2>1
      <4> HIDE DEF n
      <4>2. n(i) \in Nat /\ n(j) \in Nat /\ 1 \in 1 .. n(i) /\ 1 \in 1 .. n(j)
        BY <4>1, Linear
      <4> QED
        BY <4>1, <4>2, BlockSeq
    <3>2. result.tree[i] = Digest(Pad(Block(i, n(i)))) /\ result.tree[j] = Digest(Pad(Block(j, n(j))))
      BY <1>2 DEF HashesOf
    <3> HIDE DEF n
    <3>3. CASE i = j
      <4>1. Len(Block(j, n(j))) <= block_size
        BY <3>1, Linear
      <4> QED
        BY <2>2, <3>2, <3>3, <4>1 DEF VerifyDataBlock
    <3>4. ASSUME VerifyDataBlock(result.tree, i, DataBlock(j)) PROVE i = j
      <4>1. Digest(Pad(Block(i, n(i)))) = Digest(Pad(Block(j, n(j))))
        BY <2>2, <3>2, <3>4 DEF VerifyDataBlock
      <4>2. Pad(Block(i, n(i))) = Pad(Block(j, n(j)))
        BY <4>1, DigestInjective
      <4>3. Len(Block(i, n(i))) <= block_size /\ Len(Block(j, n(j))) <= block_size
            /\ 1 \in 1 .. Len(Block(i, n(i))) /\ 1 \in 1 .. Len(Block(j, n(j)))
        BY <3>1, Linear
      <4>4. Pad(Block(i, n(i)))[1] = Block(i, n(i))[1] /\ Pad(Block(j, n(j)))[1] = Block(j, n(j))[1]
        BY <3>1, <4>3, PadSeq
      <4>5. Byte(S(i) + 1) = Byte(S(j) + 1)
        BY <3>1, <4>2, <4>4
      <4>6. S(i) + 1 = S(j) + 1
        BY <4>5 DEF Byte
      <4>7. S(i) = S(j)
        BY <2>1, <4>6
      <4>8. block_size * (i - 1) = block_size * (j - 1)
        BY <4>7, Linear
      <4>9. i - 1 = j - 1
        BY <4>8, Cancel, Linear
      <4> QED
        BY <4>9
    <3> QED
      BY <3>3, <3>4
  <2>4. T * block_size >= W
    BY <1>3, <1>5, Linear
  <2> QED
    BY <1>5, <2>3, <2>4
<1> QED
  BY <1>2, <1>4, <1>5 DEF HashesOf

(* The stored tree has a hash for every block of the file and none beyond,  *)
(* and verify_data_block accepts every block at its own index only, in      *)
(* whatever pieces the file was given to update.                            *)
THEOREM TreeVerifies == Spec => []EveryBlockVerifies
<1>1. Safe => EveryBlockVerifies
  BY SafeVerifies
<1> QED
  BY <1>1, SafeInit, SafeNext, PTL DEF Spec

(* The size that the flush recovers from how full the levels are, which     *)
(* goes into the descriptor, is the size of the file.                       *)
THEOREM SizeRecovered == Spec => [](phase \in {"tree", "done"} => result.size = Len(written))
<1>1. Safe => (phase \in {"tree", "done"} => result.size = Len(written))
  BY DEF Safe, Data, Streaming
<1> QED
  BY <1>1, SafeInit, SafeNext, PTL DEF Spec

(* The level-1 hashes and their padding are no more than the tree's blocks. *)
LEMMA FedBound ==
    ASSUME Sound, Data, phase = "refeed"
    PROVE  Given \in Nat /\ Given <= Len(result.tree) * block_size
<1> DEFINE T == Len(result.tree)
           F == Len(feed)
<1>1. T \in Nat /\ F \in Nat /\ F <= T + 1 /\ T # 1
  BY Numbers DEF Sound, Feeding, Data
<1>2. Given = IF F = 0 THEN T * DigestSize + Padding ELSE (T + 1 - F) * DigestSize
  BY DEF Given, Fed, TreeBytes
<1>3. Padding \in Nat /\ Padding < block_size
  BY <1>1, PaddingFits
<1>4. T * DigestSize \in Nat /\ T * block_size \in Nat /\ T * (2 * DigestSize) <= T * block_size
      /\ T * (2 * DigestSize) = T * DigestSize + T * DigestSize
  <2> HIDE DEF T, F
  <2>1. T * DigestSize \in Nat /\ T * block_size \in Nat /\ 2 * DigestSize \in Nat
    BY <1>1, Times, Linear
  <2>2. T * (2 * DigestSize) <= T * block_size
    BY <1>1, <2>1, Grows, Linear
  <2>3. T * (2 * DigestSize) = T * DigestSize + T * DigestSize
    BY <1>1, Linear
  <2> QED
    BY <2>1, <2>2, <2>3
<1>5. CASE F # 0
  <2>1. T + 1 - F \in Nat /\ T + 1 - F <= T
    BY <1>1, <1>5
  <2>2. (T + 1 - F) * DigestSize \in Nat /\ (T + 1 - F) * DigestSize <= T * DigestSize
    BY <1>1, <2>1, Linear
  <2> DEFINE a == (T + 1 - F) * DigestSize
             b == T * DigestSize
             c == T * block_size
             d == T * (2 * DigestSize)
  <2>3. a \in Nat /\ b \in Nat /\ c \in Nat /\ d <= c /\ d = b + b /\ a <= b
    BY <1>4, <2>2
  <2> HIDE DEF a, b, c, d
  <2>4. a <= c
    BY <2>3
  <2> QED
    BY <1>2, <1>5, <2>3, <2>4 DEF a, c
<1>6. CASE F = 0 /\ T = 0
  <2>1. TreeBytes = 0
    BY <1>6, Linear DEF TreeBytes
  <2>2. 0 % block_size = 0 /\ block_size % block_size = 0
    BY Linear
  <2>3. Padding = (block_size - 0) % block_size
    BY <2>1, <2>2 DEF Padding
  <2>4. Padding = 0
    BY <2>2, <2>3, Linear
  <2>5. Given = 0 * DigestSize + 0
    BY <1>2, <1>6, <2>4
  <2>6. Given = 0 /\ 0 * block_size = 0
    BY <2>5, Linear
  <2> QED
    BY <1>6, <2>6
<1>7. CASE F = 0 /\ T # 0
  <2> DEFINE b == T * DigestSize
             c == T * block_size
             d == T * (2 * DigestSize)
             p == Padding
  <2>1. 2 * block_size <= c
    <3> HIDE DEF T, F
    <3>1. 2 <= T
      BY <1>1, <1>7
    <3> QED
      BY <1>1, <3>1, Grows, Linear
  <2>2. b \in Nat /\ c \in Nat /\ d <= c /\ d = b + b /\ p \in Nat /\ p < block_size /\ Given = b + p
    BY <1>2, <1>3, <1>4, <1>7
  <2> HIDE DEF b, c, d, p
  <2>3. Given \in Nat /\ Given <= c
    BY <2>1, <2>2, Linear
  <2> QED
    BY <2>3 DEF c
<1> QED
  BY <1>5, <1>6, <1>7

(* A file no larger than the levels can hold never needs one more.          *)
LEMMA RoomAtTheTop ==
    ASSUME Sound, Data, NewLevel, NEW q \in Capacities, MaxBytes <= block_size * q[MaxLevels]
    PROVE  Len(levels) < MaxLevels
<1> SUFFICES ASSUME ~(Len(levels) < MaxLevels) PROVE FALSE
  OBVIOUS
<1> DEFINE M == MaxLevels
           c == q[M]
<1>1. Streaming /\ idx = Len(levels) + 1
  BY DEF NewLevel, Streaming
<1>2. Len(levels) = M /\ M \in Nat \ {0} /\ M \in 1 .. MaxLevels
  BY Numbers, Linear DEF Sound, Shape
<1>3. c \in Nat
  BY <1>2 DEF Capacities
<1>4. PICK k : Counted(k)
  BY DEF Sound
<1>5. k[M] = 1 /\ c * k[M] <= k[1] /\ k \in [Nat -> Nat]
  BY <1>1, <1>2, <1>4 DEF Counted, Top, Deep
<1>6. c <= k[1] /\ k[1] \in Nat
  BY <1>3, <1>5
<1>7. block_size * c <= block_size * k[1] /\ block_size * c \in Nat /\ block_size * k[1] \in Nat
  BY <1>3, <1>6, Linear
<1>8. Held(1) \in Nat \ {0} /\ Len(pending) \in Nat /\ Len(written) \in Nat /\ Len(result.tree) \in Nat
  <2>1. Used(1) >= 1 /\ Used(1) \in Nat /\ Coming(1) \in Nat
    BY <1>2, Numbers DEF Sound, Fill, Used
  <2> QED
    BY <2>1, Numbers DEF Held, Sound
<1>9. Given > block_size * c
  <2> DEFINE a == block_size * k[1]
             b == block_size * c
  <2>1. Given = Len(pending) + a + Held(1) /\ a \in Nat /\ b \in Nat /\ b <= a
    BY <1>4, <1>7 DEF Counted, Balanced
  <2> HIDE DEF a, b
  <2>2. Given > b
    BY <1>8, <2>1
  <2> QED
    BY <2>2 DEF b
<1>10. Len(written) <= block_size * c
  <2>1. Len(written) <= MaxBytes /\ MaxBytes \in Nat /\ MaxBytes <= block_size * c
    BY BlockAssumption DEF Sound, Shape
  <2> DEFINE b == block_size * c
  <2>2. b \in Nat /\ MaxBytes <= b
    BY <1>7, <2>1
  <2> HIDE DEF b
  <2>3. Len(written) <= b
    BY <1>8, <2>1, <2>2
  <2> QED
    BY <2>3 DEF b
<1>11. CASE phase = "write"
  <2>1. Given = Len(written)
    BY <1>11 DEF Given
  <2> QED
    BY <1>7, <1>8, <1>9, <1>10, <2>1
<1>12. CASE phase = "refeed"
  <2> DEFINE T == Len(result.tree)
  <2>1. Given \in Nat /\ Given <= T * block_size
    BY <1>12, FedBound
  <2>2. HashesOf(result.tree)
    BY <1>12 DEF Data
  <2>3. CASE T = 0
    <3>1. Given <= 0
      BY <2>1, <2>3, Linear
    <3> QED
      BY <1>7, <1>9, <2>1, <3>1
  <2>4. CASE T # 0
    <3>1. (T - 1) * block_size < Len(written) /\ T - 1 \in Nat
      BY <1>8, <2>2, <2>4 DEF HashesOf
    <3>2. block_size * (T - 1) < block_size * c
      <4> DEFINE a == (T - 1) * block_size
                 b == block_size * c
      <4>1. a \in Nat /\ b \in Nat /\ a < Len(written) /\ Len(written) <= b
        BY <1>7, <1>10, <3>1, Linear
      <4>2. block_size * (T - 1) = a
        BY <3>1, Linear
      <4> HIDE DEF a, b
      <4>3. a < b
        BY <1>8, <4>1
      <4> QED
        BY <4>2, <4>3 DEF b
    <3>3. T - 1 < c
      BY <1>3, <3>1, <3>2, Cancel, Linear
    <3>4. T <= c
      BY <1>3, <1>8, <3>3
    <3>5. T * block_size <= block_size * c
      BY <1>3, <1>8, <3>4, Linear
    <3> DEFINE a == T * block_size
               b == block_size * c
    <3>6. a <= b /\ a \in Nat /\ b \in Nat /\ Given <= a /\ Given > b
      BY <1>7, <1>8, <1>9, <2>1, <3>5, Linear
    <3> HIDE DEF a, b
    <3> QED
      BY <2>1, <3>6
  <2> QED
    BY <2>3, <2>4
<1> QED
  BY <1>1, <1>11, <1>12 DEF Streaming

(* A set of naturals that has zero and all successors has all of them.      *)
LEMMA Induction ==
    ASSUME NEW T \in SUBSET Nat, 0 \in T, \A n \in T : n + 1 \in T
    PROVE  T = Nat
<1> DEFINE R == OpToRel(<, Nat)
<1> SUFFICES ASSUME Nat \ T # {} PROVE FALSE
  OBVIOUS
<1>1. IsWellFoundedOn(R, Nat)
  BY NatLessThanWellFounded
<1>2. PICK n \in Nat \ T : \A m \in Nat \ T : <<m, n>> \notin R
  BY <1>1, WFMin
<1>3. n # 0 /\ n - 1 \in Nat /\ n - 1 < n /\ (n - 1) + 1 = n
  <2> HIDE DEF R
  <2>1. n \in Nat /\ n # 0
    BY <1>2
  <2> QED
    BY <2>1
<1>4. <<n - 1, n>> \in R
  BY <1>3 DEF OpToRel
<1>5. n - 1 \in T
  BY <1>2, <1>3, <1>4
<1> QED
  BY <1>2, <1>3, <1>5

(* The capacities are those of a tree: there is one for every level.        *)
LEMMA CapacitiesExist == \E q \in Capacities : TRUE
<1> DEFINE Good(q, n) == /\ q \in [1 .. n + 1 -> Nat] /\ q[1] = 1
                         /\ \A i \in 1 .. n : q[i + 1] = Compression * q[i]
           T == {n \in Nat : \E q : Good(q, n)}
<1>1. 0 \in T
  <2> DEFINE q == [i \in 1 .. 0 + 1 |-> 1]
  <2>1. q \in [1 .. 0 + 1 -> Nat] /\ q[1] = 1
    OBVIOUS
  <2>2. 1 .. 0 = {}
    OBVIOUS
  <2>3. Good(q, 0)
    BY <2>1, <2>2
  <2> QED
    BY <2>3
<1>2. ASSUME NEW n \in T PROVE n + 1 \in T
  <2>1. PICK q : Good(q, n)
    OBVIOUS
  <2> DEFINE c == Compression * q[n + 1]
             r == [i \in 1 .. (n + 1) + 1 |-> IF i = (n + 1) + 1 THEN c ELSE q[i]]
  <2>2. n \in Nat /\ n + 1 \in 1 .. n + 1
    OBVIOUS
  <2>3. c \in Nat
    <3>1. q[n + 1] \in Nat
      BY <2>1, <2>2
    <3> QED
      BY <3>1, Times, Sizes
  <2> HIDE DEF c
  <2>4. r \in [1 .. (n + 1) + 1 -> Nat]
    <3>1. ASSUME NEW i \in 1 .. (n + 1) + 1, i # (n + 1) + 1 PROVE q[i] \in Nat
      <4>1. i \in 1 .. n + 1
        BY <2>2, <3>1
      <4> QED
        BY <2>1, <4>1
    <3> QED
      BY <2>3, <3>1
  <2>5. r[(n + 1) + 1] = c /\ \A i \in 1 .. n + 1 : r[i] = q[i]
    BY <2>2
  <2> HIDE DEF r
  <2>6. r[1] = 1
    BY <2>1, <2>2, <2>5
  <2>7. ASSUME NEW i \in 1 .. n + 1 PROVE r[i + 1] = Compression * r[i]
    <3>1. CASE i = n + 1
      BY <2>5, <3>1 DEF c
    <3>2. CASE i # n + 1
      <4>1. i \in 1 .. n /\ i + 1 \in 1 .. n + 1
        BY <2>2, <3>2
      <4> QED
        BY <2>1, <2>5, <4>1
    <3> QED
      BY <3>1, <3>2
  <2>8. Good(r, n + 1)
    BY <2>4, <2>6, <2>7
  <2> QED
    BY SMTT(30), <2>2, <2>8
<1>3. T = Nat
  <2>1. T \in SUBSET Nat
    OBVIOUS
  <2> HIDE DEF T
  <2> QED
    BY <1>1, <1>2, <2>1, Induction
<1>4. MaxLevels - 1 \in Nat /\ (MaxLevels - 1) + 1 = MaxLevels
  BY Linear
<1>5. PICK q : Good(q, MaxLevels - 1)
  BY <1>3, <1>4
<1>6. q \in [1 .. MaxLevels -> Nat] /\ q[1] = 1
      /\ \A i \in 1 .. MaxLevels - 1 : q[i + 1] = Compression * q[i]
  BY <1>4, <1>5
<1> QED
  BY <1>6 DEF Capacities

(* No assert and no checked_sub of the hasher fails on a file that          *)
(* MAX_LEVELS levels can hold, neither while it is hashed nor while the     *)
(* root hash is rebuilt from its level-1 hashes.                            *)
THEOREM NeverPanics ==
    (\E q \in Capacities : MaxBytes <= block_size * q[MaxLevels]) => (Spec => []NoPanic)
<1> SUFFICES ASSUME \E q \in Capacities : MaxBytes <= block_size * q[MaxLevels]
             PROVE  Spec => []NoPanic
  OBVIOUS
<1> DEFINE Inv == ~panicked /\ Sound /\ Data
<1>1. Init => Inv
  BY SoundInit, DataInit DEF Init
<1>2. Inv /\ [Next]_vars => Inv'
  <2> SUFFICES ASSUME Inv, [Next]_vars PROVE Inv'
    OBVIOUS
  <2>1. CASE UNCHANGED vars
    BY <2>1, Stutter
  <2>2. CASE Next /\ ~NewLevel
    BY <2>2, OtherStep
  <2>3. CASE NewLevel
    <3>1. PICK q \in Capacities : MaxBytes <= block_size * q[MaxLevels]
      OBVIOUS
    <3>2. Len(levels) < MaxLevels
      BY <2>3, <3>1, RoomAtTheTop
    <3> QED
      BY <2>3, <3>2, NewLevelStep, NewLevelData
  <2> QED
    BY <2>1, <2>2, <2>3
<1>3. Inv => NoPanic
  BY DEF NoPanic
<1> QED
  BY <1>1, <1>2, <1>3, PTL DEF Spec

=============================================================================
