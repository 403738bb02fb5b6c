-------------------------- MODULE VerityFuseProofs --------------------------
(***************************************************************************)
(* verity-fuse for every set of recorded files, block size, cache sizes,   *)
(* read ranges and storage.                                                *)
(*                                                                         *)
(* The first part lets the storage change at any moment. ServeInv says of  *)
(* the caches and of the read in progress that every block in them was     *)
(* verified as the block of its key, and of the output of that read that   *)
(* it is what the verified blocks give, cut where each was short. A reply  *)
(* alone does not tell this, so it is carried from block to block.         *)
(*                                                                         *)
(* The second part is about a storage that has not changed. ExactInv says  *)
(* that handles are of the file itself, cached blocks are its blocks, and  *)
(* the output is the recorded range up to the block that comes next.       *)
(*                                                                         *)
(* The last part is about directory streams. Streamed says that a client   *)
(* has seen nothing or everything, which is so while one reply holds a     *)
(* whole directory.                                                        *)
(***************************************************************************)
EXTENDS VerityFuse, TLAPS, FiniteSetTheorems, WellFoundedInduction

-----------------------------------------------------------------------------
(* Sequences.                                                               *)

(* Induction over the natural numbers, as a fact about a set of them.       *)
LEMMA NatSet ==
    ASSUME NEW T \in SUBSET Nat, 0 \in T, \A n \in T : n + 1 \in T
    PROVE  T = Nat
<1> DEFINE R == OpToRel(<, Nat)
<1> SUFFICES ASSUME Nat \ T # {} PROVE FALSE
  OBVIOUS
<1>1. PICK n \in Nat \ T : \A m \in Nat \ T : <<m, n>> \notin R
  BY NatLessThanWellFounded, WFMin
<1>2. n # 0 /\ n - 1 \in Nat /\ n - 1 < n /\ (n - 1) + 1 = n
  <2> HIDE DEF R
  <2>1. n \in Nat /\ n # 0
    BY <1>1
  <2> QED
    BY <2>1
<1>3. <<n - 1, n>> \in R
  BY <1>2 DEF OpToRel
<1> QED
  BY <1>1, <1>2, <1>3

(* What the recursion of Within defines, as a relation on functions.        *)
Filters(f, s, S, n) ==
    f = [i \in 0 .. n |->
            IF i = 0 THEN <<>> ELSE IF s[i] \in S THEN Append(f[i - 1], s[i]) ELSE f[i - 1]]

(* There is a function as Within defines it.                                *)
LEMMA FilterExists ==
    ASSUME NEW s, NEW S, NEW n \in Nat
    PROVE  \E f : Filters(f, s, S, n)
<1> DEFINE T == {m \in Nat : \E f : Filters(f, s, S, m)}
<1>1. 0 \in T
  <2> DEFINE f == [i \in 0 .. 0 |-> <<>>]
  <2>1. f = [i \in 0 .. 0 |->
             IF i = 0 THEN <<>> ELSE IF s[i] \in S THEN Append(f[i - 1], s[i]) ELSE f[i - 1]]
    OBVIOUS
  <2> HIDE DEF f
  <2> QED
    BY <2>1 DEF Filters
<1>2. ASSUME NEW m \in T PROVE m + 1 \in T
  <2>1. m \in Nat
    OBVIOUS
  <2>2. PICK f : Filters(f, s, S, m)
    OBVIOUS
  <2> DEFINE g == [i \in 0 .. m + 1 |->
                    IF i <= m THEN f[i] ELSE IF s[i] \in S THEN Append(f[m], s[i]) ELSE f[m]]
  <2>3. ASSUME NEW i \in 0 .. m + 1
        PROVE  g[i] = IF i = 0 THEN <<>> ELSE IF s[i] \in S THEN Append(g[i - 1], s[i]) ELSE g[i - 1]
    <3>1. CASE i = 0
      BY <2>1, <2>2, <3>1 DEF Filters
    <3>2. CASE i \in 1 .. m
      <4>1. g[i] = f[i] /\ g[i - 1] = f[i - 1]
        BY <2>1, <3>2
      <4>2. f[i] = IF i = 0 THEN <<>> ELSE IF s[i] \in S THEN Append(f[i - 1], s[i]) ELSE f[i - 1]
        <5>1. i \in 0 .. m
          BY <2>1, <3>2
        <5> QED
          BY <2>2, <5>1, Zenon DEF Filters
      <4> QED
        BY <4>1, <4>2
    <3>3. CASE i = m + 1
      BY <2>1, <3>3
    <3> QED
      BY <2>1, <3>1, <3>2, <3>3
  <2>4. DOMAIN g = 0 .. m + 1
    OBVIOUS
  <2>5. g = [i \in 0 .. m + 1 |-> g[i]]
    OBVIOUS
  <2> HIDE DEF g
  <2>6. g = [i \in 0 .. m + 1 |->
               IF i = 0 THEN <<>> ELSE IF s[i] \in S THEN Append(g[i - 1], s[i]) ELSE g[i - 1]]
    BY <2>3, <2>5
  <2> QED
    BY <2>1, <2>6 DEF Filters
<1>3. T = Nat
  BY <1>1, <1>2, NatSet, Zenon
<1> QED
  BY <1>3

(* Within keeps exactly the elements that are in the set.                   *)
LEMMA WithinIs ==
    ASSUME NEW E, NEW s \in Seq(E), NEW S
    PROVE  /\ Within(s, S) \in Seq(E) /\ Len(Within(s, S)) <= Len(s)
           /\ Elements(Within(s, S)) = Elements(s) \cap S
<1> DEFINE n == Len(s)
           f == CHOOSE g : g = [i \in 0 .. Len(s) |->
                   IF i = 0 THEN <<>> ELSE IF s[i] \in S THEN Append(g[i - 1], s[i]) ELSE g[i - 1]]
<1>1. Within(s, S) = f[Len(s)]
  BY Zenon DEF Within
<1>2. n \in Nat
  OBVIOUS
<1>3. f = [i \in 0 .. n |->
             IF i = 0 THEN <<>> ELSE IF s[i] \in S THEN Append(f[i - 1], s[i]) ELSE f[i - 1]]
  <2>1. \E g : g = [i \in 0 .. Len(s) |->
                   IF i = 0 THEN <<>> ELSE IF s[i] \in S THEN Append(g[i - 1], s[i]) ELSE g[i - 1]]
    <3>1. \E g : Filters(g, s, S, Len(s))
      BY <1>2, FilterExists
    <3> QED
      BY <3>1, Zenon DEF Filters
  <2> QED
    BY <2>1, Zenon
<1> HIDE DEF f
<1> DEFINE Good(m) == /\ f[m] \in Seq(E) /\ Len(f[m]) <= m
                      /\ \A x : (\E j \in 1 .. Len(f[m]) : f[m][j] = x)
                                   <=> x \in S /\ \E j \in 1 .. m : s[j] = x
           T == {m \in Nat : m <= n => Good(m)}
<1>4. 0 \in T
  <2>1. f[0] = <<>>
    BY <1>2, <1>3
  <2>2. Good(0)
    BY <2>1
  <2> QED
    BY <2>2
<1>5. ASSUME NEW m \in T PROVE m + 1 \in T
  <2> HIDE DEF Good
  <2>0. m \in Nat /\ (m <= n => Good(m)) /\ m + 1 \in Nat
    OBVIOUS
  <2> SUFFICES ASSUME m + 1 <= n PROVE Good(m + 1)
    BY <2>0
  <2>1. m \in Nat /\ Good(m) /\ s[m + 1] \in E
    BY <1>2, <2>0
  <2> USE DEF Good
  <2>2. f[m + 1] = IF s[m + 1] \in S THEN Append(f[m], s[m + 1]) ELSE f[m]
    <3> DEFINE k == m + 1
    <3>1. k \in 0 .. n /\ k # 0 /\ k - 1 = m
      BY <1>2, <2>1
    <3> HIDE DEF k
    <3>2. f[k] = IF k = 0 THEN <<>> ELSE IF s[k] \in S THEN Append(f[k - 1], s[k]) ELSE f[k - 1]
      BY <1>3, <3>1, Zenon
    <3> QED
      BY <3>1, <3>2, Zenon DEF k
  <2>3. CASE s[m + 1] \notin S
    <3>1. f[m + 1] = f[m]
      BY <2>2, <2>3
    <3> QED
      BY <2>1, <2>3, <3>1
  <2>4. CASE s[m + 1] \in S
    <3> DEFINE t == f[m + 1]
    <3>1. /\ t \in Seq(E) /\ Len(t) = Len(f[m]) + 1 /\ t[Len(t)] = s[m + 1]
          /\ \A j \in 1 .. Len(f[m]) : t[j] = f[m][j]
      BY <2>1, <2>2, <2>4
    <3>2. ASSUME NEW x PROVE (\E j \in 1 .. Len(t) : t[j] = x) <=> x \in S /\ \E j \in 1 .. m + 1 : s[j] = x
      <4>1. (\E j \in 1 .. Len(t) : t[j] = x) <=> (\E j \in 1 .. Len(f[m]) : f[m][j] = x) \/ s[m + 1] = x
        <5>1. 1 .. Len(t) = 1 .. Len(f[m]) \cup {Len(t)}
          BY <2>1, <3>1
        <5> HIDE DEF t
        <5> QED
          BY <3>1, <5>1, Zenon
      <4>2. (\E j \in 1 .. m + 1 : s[j] = x) <=> (\E j \in 1 .. m : s[j] = x) \/ s[m + 1] = x
        BY <2>1
      <4>3. (\E j \in 1 .. Len(f[m]) : f[m][j] = x) <=> x \in S /\ \E j \in 1 .. m : s[j] = x
        BY <2>1
      <4> QED
        BY <2>4, <4>1, <4>2, <4>3
    <3> QED
      BY <2>1, <3>1, <3>2
  <2> QED
    BY <2>3, <2>4
<1>6. Good(n)
  <2>1. T = Nat
    BY <1>4, <1>5, NatSet, Zenon
  <2> QED
    BY <1>2, <2>1
<1>7. Elements(f[n]) = Elements(s) \cap S
  <2>1. ASSUME NEW x PROVE x \in Elements(f[n]) <=> x \in Elements(s) \cap S
    BY <1>6 DEF Elements
  <2> QED
    BY <2>1
<1> QED
  BY <1>1, <1>6, <1>7

-----------------------------------------------------------------------------
(* The LRU caches.                                                          *)

(* What a cache holds under a key is one of its entries, with that key.     *)
LEMMA EntryIn ==
    ASSUME NEW E, NEW c \in Seq(E), NEW k, Holds(c, k)
    PROVE  /\ Position(c, k) \in 1 .. Len(c)
           /\ Entry(c, k) \in E /\ Entry(c, k).key = k
<1>1. \E i \in DOMAIN c : c[i].key = k
  BY DEF Holds
<1>2. Position(c, k) \in DOMAIN c /\ c[Position(c, k)].key = k
  BY <1>1, Zenon DEF Position
<1> QED
  BY <1>2 DEF Entry

(* Removing an entry.                                                       *)
LEMMA WithoutIn ==
    ASSUME NEW E, NEW c \in Seq(E), NEW k
    PROVE  Without(c, k) \in Seq(E)
<1>1. CASE ~Holds(c, k)
  BY <1>1 DEF Without
<1>2. CASE Holds(c, k)
  <2> DEFINE p == Position(c, k)
  <2>1. p \in 1 .. Len(c)
    BY <1>2, EntryIn
  <2>2. Without(c, k) = SubSeq(c, 1, p - 1) \o SubSeq(c, p + 1, Len(c))
    BY <1>2 DEF Without
  <2> HIDE DEF p
  <2>3. SubSeq(c, 1, p - 1) \in Seq(E) /\ SubSeq(c, p + 1, Len(c)) \in Seq(E)
    BY <2>1
  <2> QED
    BY <2>2, <2>3
<1> QED
  BY <1>1, <1>2

(* Using an entry.                                                          *)
LEMMA TouchIn ==
    ASSUME NEW E, NEW c \in Seq(E), NEW k, Holds(c, k)
    PROVE  Touch(c, k) \in Seq(E)
BY EntryIn, WithoutIn DEF Touch

(* The bounds of a slice.                                                   *)
LEMMA SliceIn ==
    ASSUME NEW E, NEW s \in Seq(E), NEW a \in Nat, NEW b \in Int
    PROVE  /\ Slice(s, a, b) \in Seq(E) /\ Len(Slice(s, a, b)) \in Nat
           /\ Len(Slice(s, a, b)) = Most(Least(b, Len(s)) - a, 0)
           /\ \A i \in 1 .. Len(Slice(s, a, b)) : Slice(s, a, b)[i] = s[a + i]
<1> DEFINE m == Least(b, Len(s))
<1>1. m \in Int /\ m <= Len(s) /\ Len(s) \in Nat
  BY DEF Least
<1>2. Slice(s, a, b) = SubSeq(s, a + 1, m)
  BY DEF Slice
<1> HIDE DEF m
<1>3. /\ SubSeq(s, a + 1, m) \in Seq(E)
      /\ Len(SubSeq(s, a + 1, m)) = IF a + 1 <= m THEN m - a ELSE 0
      /\ \A i \in 1 .. (m - a) : SubSeq(s, a + 1, m)[i] = s[a + i]
  BY <1>1
<1>4. Len(SubSeq(s, a + 1, m)) = Most(m - a, 0)
  BY <1>1, <1>3 DEF Most
<1>5. ASSUME NEW i \in 1 .. Len(SubSeq(s, a + 1, m)) PROVE SubSeq(s, a + 1, m)[i] = s[a + i]
  BY <1>1, <1>3
<1>6. Len(SubSeq(s, a + 1, m)) \in Nat
  BY <1>3
<1> QED
  BY <1>2, <1>3, <1>4, <1>5, <1>6 DEF m

(* Adding an entry, which may push out the last one.                        *)
LEMMA PutIn ==
    ASSUME NEW E, NEW c \in Seq(E), NEW k, NEW d, NEW n \in Nat, [key |-> k, data |-> d] \in E
    PROVE  Put(c, k, d, n) \in Seq(E)
<1>1. <<[key |-> k, data |-> d]>> \o Without(c, k) \in Seq(E)
  BY WithoutIn
<1>2. Most(n, 1) \in Int
  BY DEF Most
<1> QED
  BY <1>1, <1>2, SliceIn DEF Put

-----------------------------------------------------------------------------
(* The inductive invariants.                                                *)

(* What the table is made of: recorded files and the directories above.     *)
Directories == {Root} \cup UNION {Elements(Ancestors(FileInfos[i].path)) : i \in DOMAIN FileInfos}
FileEntries == {File(FileInfos[i]) : i \in DOMAIN FileInfos}
Entries == FileEntries \cup {Dir(p) : p \in Directories}
FileIno(n) == n \in DOMAIN ino_to_file /\ ino_to_file[n] \in FileEntries

(* The storage: every node names an object, which has contents.             *)
Stored ==
    /\ data \in [Objects -> Seq(Nat)] /\ changes \in Nat
    /\ \A p \in DOMAIN source : source[p].object \in Objects

(* The table: inode numbers without gaps, for directories above recorded    *)
(* files and for recorded files, and every known path has the inode of its  *)
(* own entry.                                                               *)
Table ==
    /\ todo \in Seq(Elements(FileInfos))
    /\ ino_to_file \in Seq(Entries)
    /\ \A p \in DOMAIN path_to_ino :
         path_to_ino[p] \in DOMAIN ino_to_file /\ ino_to_file[path_to_ino[p]].path = p

(* Nothing is served before the table is complete.                          *)
Unserved ==
    todo # <<>> => /\ request = Idle /\ reply = Idle /\ listing = NoListing
                   /\ block_cache = <<>> /\ handle_cache = <<>>

(* The caches hold handles of recorded files and blocks that were verified  *)
(* as the block of their key.                                               *)
FileHandles == {e \in [key : Nat, data : Objects] : FileIno(e.key)}
VerifiedBlocks ==
    {e \in [key : Nat \X Nat, data : Seq(Nat)] :
        FileIno(e.key[1]) /\ verify_data_block(ino_to_file[e.key[1]].tree, e.key[2], e.data)}
Cached == handle_cache \in Seq(FileHandles) /\ block_cache \in Seq(VerifiedBlocks)

(* The output of a read that has come to the block k: out[b] is the output  *)
(* after the block b, of which len[b] bytes were there.                     *)
Collects(tree, from, to, k, output, len, out) ==
    /\ out[(from \div BlockSize) - 1] = <<>> /\ output = out[k - 1]
    /\ \A b \in from \div BlockSize .. k - 1 :
         /\ b + 1 \in DOMAIN tree
         /\ Pad(SubSeq(tree[b + 1], 1, len[b])) = tree[b + 1]
         /\ out[b] = out[b - 1] \o Piece(tree, from, to, b, len[b])
Collected(tree, from, to, k, output) ==
    \E len \in [Blocks(from, to) -> 0 .. BlockSize],
       out \in [(from \div BlockSize) - 1 .. DivCeil(to, BlockSize) - 1 -> Seq(Nat)] :
         Collects(tree, from, to, k, output, len, out)

(* The read in progress is of a recorded file, and has what it collected.   *)
Asked ==
    Reading =>
        /\ request \in [op : {"read"}, ino : Nat, offset : Nat, size : Nat \ {0}, block : Nat,
                        handle : Objects, output : Seq(Nat)]
        /\ FileIno(request.ino)
        /\ request.block \in request.offset \div BlockSize .. EndBlock
        /\ Collected(ino_to_file[request.ino].tree, request.offset, ReadEndOf(request),
                     request.block, request.output)

ServeInv == Stored /\ Table /\ Unserved /\ Cached /\ Asked /\ OnlyRecorded

(* The directory stream of a client.                                        *)
Opened ==
    listing # NoListing =>
        /\ DOMAIN listing = {"op", "ino", "offset", "names", "again"}
        /\ listing.ino \in DOMAIN ino_to_file /\ listing.offset \in Nat

-----------------------------------------------------------------------------
(* The directory as format found it: it records the regular files, each     *)
(* once and none a hard link of another, and the directories above them are *)
(* directories.                                                             *)
Formatted ==
    /\ \A i, j \in DOMAIN FileInfos : FileInfos[i].path = FileInfos[j].path => i = j
    /\ \A i \in DOMAIN FileInfos :
         LET path == FileInfos[i].path
         IN  path \in DOMAIN Tree /\ Tree[path].kind = "file" /\ Tree[path].object = path
    /\ \A p \in Directories : p \in DOMAIN Tree /\ Tree[p].kind = "dir"

(* Before the storage changes, handles are of the file of their inode,      *)
(* blocks are blocks of that file, and a read has its bytes so far.         *)
OwnHandles == {e \in FileHandles : e.data = ino_to_file[e.key].path}
OwnBlocks == {e \in VerifiedBlocks :
    e.data = Slice(Recorded(e.key[1]), e.key[2] * BlockSize, (e.key[2] + 1) * BlockSize)}
Unchanged ==
    changes = 0 =>
        /\ source = Tree
        /\ \A i \in DOMAIN FileInfos : data[FileInfos[i].path] = FileInfos[i].bytes
        /\ handle_cache \in Seq(OwnHandles) /\ block_cache \in Seq(OwnBlocks)
        /\ Reading => /\ request.handle = ino_to_file[request.ino].path
                      /\ request.output = Slice(Recorded(request.ino), request.offset,
                                                Least(request.block * BlockSize, ReadEndOf(request)))

(* A client has seen nothing of its directory yet, or everything.           *)
NothingListed(l) == l.op \in {"open", "failed"} /\ l.offset = 0 /\ l.names = {} /\ l.again = FALSE
AllListed(l) ==
    LET all == DirEntries(ino_to_file[l.ino], 0)
    IN  /\ l.op \in {"open", "failed", "done"} /\ l.offset = Len(all)
        /\ l.names = Elements(all) /\ l.again = FALSE
Streamed ==
    changes = 0 /\ listing # NoListing =>
        /\ listing.ino \in DOMAIN ino_to_file
        /\ NothingListed(listing) \/ AllListed(listing)

-----------------------------------------------------------------------------
(* Recorded files and blocks.                                               *)

(* Sequences of the same length with the same elements are equal.           *)
LEMMA SameSeq ==
    ASSUME NEW x \in Seq(Nat), NEW y \in Seq(Nat), Len(x) = Len(y), \A i \in 1 .. Len(y) : x[i] = y[i]
    PROVE  x = y
OBVIOUS

(* The bytes of whole blocks.                                               *)
LEMMA Times ==
    ASSUME NEW b \in Nat
    PROVE  /\ BlockSize \in Nat \ {0} /\ b * BlockSize \in Nat
           /\ BlockSize * b \in Nat /\ BlockSize * b = b * BlockSize
           /\ (b + 1) * BlockSize = b * BlockSize + BlockSize
BY FuseAssumption

(* A padded block is as long as a block, and begins with the block.         *)
LEMMA PadIs ==
    ASSUME NEW block \in Seq(Nat), Len(block) <= BlockSize
    PROVE  /\ Pad(block) \in Seq(Nat) /\ Len(Pad(block)) = BlockSize
           /\ SubSeq(Pad(block), 1, Len(block)) = block
<1>0. BlockSize \in Nat /\ Len(block) \in Nat
  BY FuseAssumption
<1>1. ASSUME NEW i \in 1 .. BlockSize PROVE (IF i <= Len(block) THEN block[i] ELSE 0) \in Nat
  BY <1>0
<1>2. Pad(block) \in [1 .. BlockSize -> Nat]
  BY <1>1 DEF Pad
<1>3. Pad(block) \in Seq(Nat) /\ Len(Pad(block)) = BlockSize
  BY <1>0, <1>2
<1>4. \A i \in 1 .. Len(block) : Pad(block)[i] = block[i]
  BY <1>0 DEF Pad
<1> HIDE DEF Pad
<1> DEFINE t == SubSeq(Pad(block), 1, Len(block))
<1>5. t \in Seq(Nat) /\ Len(t) = Len(block) /\ \A i \in 1 .. Len(block) : t[i] = Pad(block)[i]
  BY <1>0, <1>3
<1> HIDE DEF t
<1>6. t = block
  <2>1. \A i \in 1 .. Len(block) : t[i] = block[i]
    BY <1>4, <1>5, Zenon
  <2> QED
    BY <1>5, <2>1, SameSeq, Zenon
<1> QED
  BY <1>3, <1>6 DEF t

(* The level 1 hashes of a file.                                            *)
LEMMA LevelIs ==
    ASSUME NEW bytes \in Seq(Nat)
    PROVE  /\ DivCeil(Len(bytes), BlockSize) \in Nat
           /\ DOMAIN Level1(bytes) = 1 .. DivCeil(Len(bytes), BlockSize)
           /\ \A b \in DOMAIN Level1(bytes) :
                Level1(bytes)[b] = Pad(Slice(bytes, (b - 1) * BlockSize, b * BlockSize))
<1>1. DivCeil(Len(bytes), BlockSize) \in Nat
  <2>1. BlockSize \in Nat \ {0} /\ Len(bytes) + BlockSize - 1 \in Nat
    BY FuseAssumption
  <2>2. \A a \in Nat, b \in Nat \ {0} : a \div b \in Nat
    OBVIOUS
  <2> QED
    BY <2>1, <2>2 DEF DivCeil
<1> QED
  BY <1>1 DEF Level1

(* The entry of a recorded file.                                            *)
LEMMA FileIs ==
    ASSUME Table, NEW n, FileIno(n)
    PROVE  /\ n \in Nat /\ ino_to_file[n].kind = "file"
           /\ \E i \in DOMAIN FileInfos :
                /\ FileInfos[i].bytes \in Seq(Nat)
                /\ ino_to_file[n].path = FileInfos[i].path /\ ino_to_file[n].path \in Objects
                /\ ino_to_file[n].size = Len(FileInfos[i].bytes)
                /\ ino_to_file[n].tree = Level1(FileInfos[i].bytes)
<1>1. n \in DOMAIN ino_to_file /\ ino_to_file \in Seq(Entries)
  BY DEF Table, FileIno
<1>2. n \in Nat
  BY <1>1
<1>3. PICK i \in DOMAIN FileInfos : ino_to_file[n] = File(FileInfos[i])
  BY DEF FileIno, FileEntries
<1> QED
  BY <1>2, <1>3, FuseAssumption DEF File, Objects

(* Only recorded files have kind "file", and the others are directories.    *)
LEMMA KindIs ==
    ASSUME Table, NEW n \in DOMAIN ino_to_file
    PROVE  /\ ino_to_file[n].kind \in {"file", "dir"}
           /\ ino_to_file[n].kind = "file" => FileIno(n)
           /\ ino_to_file[n].kind = "dir" => \E p \in Directories : ino_to_file[n] = Dir(p)
<1>1. ino_to_file[n] \in Entries
  BY DEF Table
<1>2. CASE ino_to_file[n] \in FileEntries
  <2>1. PICK i \in DOMAIN FileInfos : ino_to_file[n] = File(FileInfos[i])
    BY <1>2 DEF FileEntries
  <2> QED
    BY <1>2, <2>1 DEF FileIno, File
<1>3. CASE \E p \in Directories : ino_to_file[n] = Dir(p)
  BY <1>3 DEF Dir
<1> QED
  BY <1>1, <1>2, <1>3 DEF Entries

(* What read_file copies from a verified block is its piece of the recorded *)
(* file, as long as what was there.                                         *)
LEMMA OverlapIs ==
    ASSUME NEW tree, NEW b \in Nat, NEW block \in Seq(Nat), verify_data_block(tree, b, block),
           NEW from \in Nat, NEW to \in Nat
    PROVE  LET start == b * BlockSize
               piece == Slice(block, Most(from, start) - start,
                              Least(Least(to, start + BlockSize) - start, Len(block)))
           IN  /\ piece = Piece(tree, from, to, b, Len(block)) /\ piece \in Seq(Nat)
               /\ Pad(SubSeq(tree[b + 1], 1, Len(block))) = tree[b + 1]
               /\ b + 1 \in DOMAIN tree /\ Len(block) \in 0 .. BlockSize
<1>1. /\ BlockSize \in Nat /\ Len(block) \in Nat /\ Len(block) <= BlockSize
      /\ b + 1 \in DOMAIN tree /\ tree[b + 1] = Pad(block)
  BY FuseAssumption DEF verify_data_block
<1>2. SubSeq(tree[b + 1], 1, Len(block)) = block
  BY <1>1, PadIs
<1> DEFINE start == b * BlockSize
<1>3. start \in Nat
  BY <1>1
<1> HIDE DEF start
<1>4. /\ Most(from, start) - start = Most(from - start, 0) /\ Most(from - start, 0) \in Nat
      /\ Least(Least(to, start + BlockSize) - start, Len(block)) \in Int
      /\ Least(Least(Least(to, start + BlockSize) - start, Len(block)), Len(block))
           = Least(Least(to - start, BlockSize), Len(block))
  BY <1>1, <1>3 DEF Most, Least
<1>5. Slice(block, Most(from, start) - start,
            Least(Least(to, start + BlockSize) - start, Len(block)))
        = Slice(block, Most(from - start, 0), Least(to - start, BlockSize))
  BY <1>4 DEF Slice
<1>6. Slice(block, Most(from, start) - start,
            Least(Least(to, start + BlockSize) - start, Len(block))) \in Seq(Nat)
  BY <1>4, SliceIn
<1>7. Piece(tree, from, to, b, Len(block))
        = Slice(block, Most(from - start, 0), Least(to - start, BlockSize))
  BY <1>2, Zenon DEF Piece, start
<1>8. Len(block) \in 0 .. BlockSize
  BY <1>1
<1>9. Pad(SubSeq(tree[b + 1], 1, Len(block))) = tree[b + 1]
  BY <1>1, <1>2, Zenon
<1> QED
  BY <1>1, <1>5, <1>6, <1>7, <1>8, <1>9, Zenon DEF start

(* The blocks of a range.                                                   *)
LEMMA Quotient ==
    ASSUME NEW a \in Nat, NEW b \in Nat \ {0}
    PROVE  a \div b \in Nat /\ b * (a \div b) <= a /\ a < b * (a \div b) + b
OBVIOUS

(* The first block of a range begins in or before it, and the last one ends *)
(* in or after it.                                                          *)
LEMMA RangeIs ==
    ASSUME NEW from \in Nat, NEW to \in Nat, from < to
    PROVE  /\ BlockSize \in Nat \ {0}
           /\ from \div BlockSize \in Nat /\ DivCeil(to, BlockSize) \in Nat
           /\ from \div BlockSize < DivCeil(to, BlockSize)
           /\ BlockSize * (from \div BlockSize) <= from
           /\ from < BlockSize * (from \div BlockSize) + BlockSize
           /\ to <= BlockSize * DivCeil(to, BlockSize)
           /\ BlockSize * DivCeil(to, BlockSize) < to + BlockSize
<1> DEFINE p == from \div BlockSize
           q == (to + BlockSize - 1) \div BlockSize
<1>1. BlockSize \in Nat \ {0} /\ to + BlockSize - 1 \in Nat
  BY FuseAssumption
<1>2. p \in Nat /\ BlockSize * p <= from /\ from < BlockSize * p + BlockSize
  BY <1>1, Quotient
<1>3. q \in Nat /\ BlockSize * q <= to + BlockSize - 1 /\ to + BlockSize - 1 < BlockSize * q + BlockSize
  BY <1>1, Quotient
<1> HIDE DEF p, q
<1>4. BlockSize * p \in Nat /\ BlockSize * q \in Nat
  BY <1>1, <1>2, <1>3
<1>5. p < q
  <2> SUFFICES ASSUME q <= p PROVE FALSE
    BY <1>2, <1>3
  <2>1. BlockSize * q <= BlockSize * p
    BY <1>1, <1>2, <1>3
  <2> QED
    BY <1>1, <1>2, <1>3, <1>4, <2>1
<1>6. to <= BlockSize * q /\ BlockSize * q < to + BlockSize
  BY <1>1, <1>3, <1>4
<1> QED
  BY <1>1, <1>2, <1>3, <1>5, <1>6 DEF p, q, DivCeil

(* A read begins with nothing.                                              *)
LEMMA CollectStart ==
    ASSUME NEW tree, NEW from \in Nat, NEW to \in Nat, from < to
    PROVE  Collected(tree, from, to, from \div BlockSize, <<>>)
<1> DEFINE first == from \div BlockSize
           last == DivCeil(to, BlockSize)
           len == [b \in Blocks(from, to) |-> 0]
           out == [b \in first - 1 .. last - 1 |-> <<>>]
<1>1. first \in Nat /\ last \in Nat /\ first < last /\ BlockSize \in Nat
  BY RangeIs
<1>2. len \in [Blocks(from, to) -> 0 .. BlockSize]
  BY <1>1
<1>3. out \in [first - 1 .. last - 1 -> Seq(Nat)]
  OBVIOUS
<1> HIDE DEF first, last
<1>4. out[first - 1] = <<>>
  BY <1>1
<1>5. first .. first - 1 = {}
  BY <1>1
<1> HIDE DEF len, out
<1>6. Collects(tree, from, to, first, <<>>, len, out)
  BY <1>4, <1>5, Zenon DEF Collects, first
<1> QED
  BY <1>2, <1>3, <1>6, Zenon DEF Collected, first, last

(* A verified block adds its piece.                                         *)
LEMMA CollectMore ==
    ASSUME NEW tree, NEW from \in Nat, NEW to \in Nat, from < to, NEW output,
           NEW k \in from \div BlockSize .. DivCeil(to, BlockSize) - 1,
           Collected(tree, from, to, k, output),
           NEW n \in 0 .. BlockSize, k + 1 \in DOMAIN tree,
           Pad(SubSeq(tree[k + 1], 1, n)) = tree[k + 1],
           Piece(tree, from, to, k, n) \in Seq(Nat)
    PROVE  Collected(tree, from, to, k + 1, output \o Piece(tree, from, to, k, n))
<1> DEFINE first == from \div BlockSize
           last == DivCeil(to, BlockSize)
           piece == Piece(tree, from, to, k, n)
<1>1. first \in Nat /\ last \in Nat /\ first < last
  BY RangeIs
<1>2. PICK len \in [Blocks(from, to) -> 0 .. BlockSize], out \in [first - 1 .. last - 1 -> Seq(Nat)] :
         Collects(tree, from, to, k, output, len, out)
  BY Zenon DEF Collected
<1> DEFINE len2 == [len EXCEPT ![k] = n]
           out2 == [out EXCEPT ![k] = output \o piece]
<1>3. k \in first .. last - 1 /\ k \in Blocks(from, to)
  BY DEF Blocks
<1>4. output = out[k - 1] /\ out[first - 1] = <<>>
  BY <1>2, Zenon DEF Collects
<1> HIDE DEF first, last, piece
<1>5. k \in Int /\ k - 1 \in first - 1 .. last - 1 /\ k \in first - 1 .. last - 1 /\ k + 1 - 1 = k
      /\ first - 1 # k
  BY <1>1, <1>3
<1>6. output \in Seq(Nat) /\ piece \in Seq(Nat) /\ output \o piece \in Seq(Nat)
  BY <1>2, <1>4, <1>5 DEF piece
<1>7. len2 \in [Blocks(from, to) -> 0 .. BlockSize] /\ out2 \in [first - 1 .. last - 1 -> Seq(Nat)]
  BY <1>2, <1>3, <1>5, <1>6, Zenon
<1>8. out2[first - 1] = <<>> /\ out2[k + 1 - 1] = output \o piece
  <2>1. first - 1 \in first - 1 .. last - 1
    BY <1>1
  <2> QED
    BY <1>2, <1>4, <1>5, <2>1, Zenon
<1>9. ASSUME NEW b \in first .. k
      PROVE  /\ b + 1 \in DOMAIN tree
             /\ Pad(SubSeq(tree[b + 1], 1, len2[b])) = tree[b + 1]
             /\ out2[b] = out2[b - 1] \o Piece(tree, from, to, b, len2[b])
  <2>1. CASE b = k
    <3>1. k - 1 # k /\ k - 1 \in first - 1 .. last - 1
      BY <1>5
    <3>2. len2[k] = n /\ out2[k] = output \o piece /\ out2[k - 1] = output
      BY <1>2, <1>3, <1>4, <1>5, <3>1, Zenon
    <3> QED
      BY <2>1, <3>2, Zenon DEF piece
  <2>2. CASE b # k
    <3>1. b \in first .. k - 1 /\ b \in first - 1 .. last - 1 /\ b - 1 \in first - 1 .. last - 1
          /\ b - 1 # k /\ b \in first .. last - 1
      BY <1>1, <1>3, <2>2
    <3>2. len2[b] = len[b] /\ out2[b] = out[b] /\ out2[b - 1] = out[b - 1]
      <4>1. b \in Blocks(from, to)
        BY <3>1 DEF Blocks, first, last
      <4> QED
        BY <1>2, <2>2, <3>1, <4>1, Zenon
    <3>3. /\ b + 1 \in DOMAIN tree
          /\ Pad(SubSeq(tree[b + 1], 1, len[b])) = tree[b + 1]
          /\ out[b] = out[b - 1] \o Piece(tree, from, to, b, len[b])
      BY <1>2, <3>1, Zenon DEF Collects, first
    <3> QED
      BY <3>2, <3>3, Zenon
  <2> QED
    BY <2>1, <2>2
<1> HIDE DEF len2, out2
<1>10. Collects(tree, from, to, k + 1, output \o piece, len2, out2)
  <2> DEFINE j == k + 1
  <2>1. j - 1 = k
    BY <1>5
  <2> HIDE DEF j
  <2>2. out2[first - 1] = <<>> /\ output \o piece = out2[j - 1]
    BY <1>5, <1>8, <2>1
  <2>3. Collects(tree, from, to, j, output \o piece, len2, out2)
    BY <1>9, <2>1, <2>2 DEF Collects, first
  <2> QED
    BY <2>3 DEF j
<1> QED
  BY <1>7, <1>10, Zenon DEF Collected, first, last, piece

(* What BytesRecorded says of a reply.                                      *)
IsAssembled(tree, from, to, output) ==
    /\ \A b \in Blocks(from, to) : b + 1 \in DOMAIN tree
    /\ \E len \in [Blocks(from, to) -> 0 .. BlockSize] :
         /\ \A b \in Blocks(from, to) : Pad(SubSeq(tree[b + 1], 1, len[b])) = tree[b + 1]
         /\ output = Assembled(tree, from, to, len)

(* A read that has come to the end of its range has assembled its output.   *)
LEMMA CollectEnd ==
    ASSUME NEW tree, NEW from \in Nat, NEW to \in Nat, from < to, NEW output,
           Collected(tree, from, to, DivCeil(to, BlockSize), output)
    PROVE  IsAssembled(tree, from, to, output)
<1> DEFINE first == from \div BlockSize
           last == DivCeil(to, BlockSize)
           D == first - 1 .. last - 1
<1>1. first \in Nat /\ last \in Nat /\ first < last
  BY RangeIs
<1>2. PICK len \in [Blocks(from, to) -> 0 .. BlockSize], out \in [D -> Seq(Nat)] :
         Collects(tree, from, to, last, output, len, out)
  BY Zenon DEF Collected
<1> DEFINE f == CHOOSE g : g = [b \in first - 1 .. last - 1 |->
                  IF b \in Blocks(from, to) THEN g[b - 1] \o Piece(tree, from, to, b, len[b]) ELSE <<>>]
<1>3. Assembled(tree, from, to, len) = f[last - 1]
  BY Zenon DEF Assembled
<1>4. Blocks(from, to) = first .. last - 1
  BY DEF Blocks
<1>5. /\ out[first - 1] = <<>> /\ output = out[last - 1]
      /\ \A b \in Blocks(from, to) :
           /\ b + 1 \in DOMAIN tree /\ Pad(SubSeq(tree[b + 1], 1, len[b])) = tree[b + 1]
           /\ out[b] = out[b - 1] \o Piece(tree, from, to, b, len[b])
  BY <1>2, <1>4, Zenon DEF Collects
<1> HIDE DEF first, last
<1>6. ASSUME NEW b \in D
      PROVE  out[b] = IF b \in Blocks(from, to) THEN out[b - 1] \o Piece(tree, from, to, b, len[b]) ELSE <<>>
  <2>1. b = first - 1 \/ b \in first .. last - 1
    BY <1>1
  <2>2. first - 1 \notin first .. last - 1
    BY <1>1
  <2> QED
    BY <1>4, <1>5, <2>1, <2>2, Zenon
<1>7. out = [b \in first - 1 .. last - 1 |->
               IF b \in Blocks(from, to) THEN out[b - 1] \o Piece(tree, from, to, b, len[b]) ELSE <<>>]
  <2>1. out = [b \in D |-> out[b]]
    BY <1>2
  <2> QED
    BY <1>6, <2>1, Zenon
<1>8. f = [b \in first - 1 .. last - 1 |->
             IF b \in Blocks(from, to) THEN f[b - 1] \o Piece(tree, from, to, b, len[b]) ELSE <<>>]
  BY <1>7, Zenon
<1> HIDE DEF f
<1> DEFINE T == {m \in Nat : first - 1 + m \in D => f[first - 1 + m] = out[first - 1 + m]}
<1>9. 0 \in T
  <2>1. first - 1 + 0 = first - 1 /\ first - 1 \in D /\ first - 1 \notin first .. last - 1
    BY <1>1
  <2>2. f[first - 1] = <<>>
    BY <1>4, <1>8, <2>1, Zenon
  <2> QED
    BY <1>5, <2>1, <2>2
<1>10. ASSUME NEW m \in T PROVE m + 1 \in T
  <2> DEFINE b == first + m
  <2>1. /\ b \in Int /\ b - 1 = first - 1 + m /\ b = first - 1 + (m + 1) /\ m + 1 \in Nat
    BY <1>1
  <2> SUFFICES ASSUME b \in D PROVE f[b] = out[b]
    BY <2>1
  <2>2. b \in first .. last - 1 /\ first - 1 + m \in D
    BY <1>1, <2>1
  <2>3. f[b - 1] = out[b - 1]
    BY <2>1, <2>2
  <2> HIDE DEF b
  <2>4. f[b] = f[b - 1] \o Piece(tree, from, to, b, len[b])
    BY <1>4, <1>8, <2>2, Zenon
  <2> QED
    BY <1>4, <1>5, <2>2, <2>3, <2>4, Zenon
<1>11. f[last - 1] = out[last - 1]
  <2>1. T = Nat
    BY <1>9, <1>10, NatSet, Zenon
  <2>2. last - first \in T
    <3> HIDE DEF T
    <3> QED
      BY <1>1, <2>1
  <2>3. first - 1 + (last - first) = last - 1 /\ last - 1 \in D
    BY <1>1
  <2> QED
    BY <2>2, <2>3
<1> QED
  BY <1>2, <1>3, <1>5, <1>11, Zenon DEF IsAssembled

-----------------------------------------------------------------------------
(* The first part: every reply has recorded bytes and names only.           *)

(* It holds when the table is begun.                                        *)
LEMMA ServeInit == Init => ServeInv
<1> SUFFICES ASSUME Init PROVE ServeInv
  OBVIOUS
<1>1. Stored
  <2>1. ASSUME NEW o \in Objects PROVE data[o] \in Seq(Nat)
    <3>1. CASE \E i \in DOMAIN FileInfos : FileInfos[i].path = o
      <4> DEFINE i == CHOOSE i \in DOMAIN FileInfos : FileInfos[i].path = o
      <4>1. i \in DOMAIN FileInfos
        BY <3>1
      <4>2. data[o] = FileInfos[i].bytes
        BY <3>1 DEF Init
      <4> QED
        BY <4>1, <4>2, FuseAssumption
    <3>2. CASE ~\E i \in DOMAIN FileInfos : FileInfos[i].path = o
      BY <3>2 DEF Init
    <3> QED
      BY <3>1, <3>2
  <2>2. data \in [Objects -> Seq(Nat)]
    <3>1. data = [o \in Objects |-> data[o]]
      BY DEF Init
    <3> QED
      BY <2>1, <3>1, Zenon
  <2> QED
    BY <2>2, FuseAssumption DEF Init, Stored
<1>2. Table
  <2>1. todo \in Seq(Elements(FileInfos))
    BY FuseAssumption DEF Init
  <2>2. Dir(Root) \in Entries
    BY DEF Entries, Directories
  <2>3. ino_to_file \in Seq(Entries)
    <3>1. ino_to_file = [n \in 1 .. 1 |-> Dir(Root)]
      BY DEF Init, RootIno
    <3> QED
      BY <2>2, <3>1
  <2>4. DOMAIN ino_to_file = {1} /\ ino_to_file[1] = Dir(Root)
    BY DEF Init, RootIno
  <2>5. \A p \in DOMAIN path_to_ino : p = Root /\ path_to_ino[p] = 1
    BY DEF Init, RootIno
  <2> QED
    BY <2>1, <2>3, <2>4, <2>5 DEF Table, Dir
<1>3. Unserved /\ Asked
  BY DEF Init, Unserved, Asked, Reading
<1>4. Cached
  BY DEF Init, Cached
<1>5. OnlyRecorded
  BY DEF Init, OnlyRecorded, BytesRecorded, ReadOk, IsRead, Idle
<1> QED
  BY <1>1, <1>2, <1>3, <1>4, <1>5 DEF ServeInv

(* A recorded file comes after directories above recorded files.            *)
LEMMA NewIs ==
    ASSUME NEW info \in Elements(FileInfos)
    PROVE  NewEntries(info) \in Seq(Entries)
<1>1. PICK k \in DOMAIN FileInfos : info = FileInfos[k]
  BY DEF Elements
<1> DEFINE above == Ancestors(info.path)
           missing == Within(above, Elements(above) \ DOMAIN path_to_ino)
<1>2. Len(info.path) \in Nat
  BY <1>1, FuseAssumption
<1>3. above \in Seq(Elements(above)) /\ Elements(above) \subseteq Directories
  <2>1. \E n \in Nat : DOMAIN above = 1 .. n /\ above = [i \in 1 .. n |-> above[i]]
    <3>1. DOMAIN above = 1 .. Len(info.path) - 1 /\ above = [i \in DOMAIN above |-> above[i]]
      BY DEF Ancestors
    <3> HIDE DEF above
    <3>2. \E n \in Nat : 1 .. Len(info.path) - 1 = 1 .. n
      <4>1. CASE Len(info.path) = 0
        <5>1. 1 .. Len(info.path) - 1 = 1 .. 0
          BY <4>1
        <5> QED
          BY <5>1
      <4>2. CASE Len(info.path) # 0
        <5>1. Len(info.path) - 1 \in Nat
          BY <1>2, <4>2
        <5> QED
          BY <5>1
      <4> QED
        BY <4>1, <4>2
    <3> QED
      BY <3>1, <3>2
  <2>2. Elements(above) \subseteq Directories
    BY <1>1 DEF Directories
  <2> HIDE DEF above
  <2>3. above \in Seq(Elements(above))
    BY <2>1 DEF Elements
  <2> QED
    BY <2>2, <2>3
<1> HIDE DEF above
<1>4. missing \in Seq(Elements(above)) /\ Len(missing) \in Nat
  BY <1>3, WithinIs
<1> DEFINE n == Len(missing)
           new == [i \in 1 .. n + 1 |-> IF i <= n THEN Dir(missing[i]) ELSE File(info)]
<1>5. ASSUME NEW i \in 1 .. n + 1 PROVE (IF i <= n THEN Dir(missing[i]) ELSE File(info)) \in Entries
  <2>1. CASE i <= n
    <3>1. missing[i] \in Directories
      BY <1>3, <1>4, <2>1
    <3> HIDE DEF missing
    <3> QED
      BY <2>1, <3>1 DEF Entries
  <2>2. CASE ~(i <= n)
    <3>1. File(info) \in FileEntries
      BY <1>1 DEF FileEntries
    <3> HIDE DEF n
    <3> QED
      BY <2>2, <3>1 DEF Entries
  <2> QED
    BY <2>1, <2>2
<1>6. n \in Nat
  BY <1>4
<1>7. new \in Seq(Entries)
  <2> HIDE DEF n, missing
  <2>1. new \in [1 .. n + 1 -> Entries]
    BY <1>5
  <2> QED
    BY <1>6, <2>1
<1> QED
  BY <1>7, Zenon DEF NewEntries, above

(* Registering a file.                                                      *)
LEMMA RegisterServe ==
    ASSUME ServeInv, RegisterFile
    PROVE  ServeInv'
<1> DEFINE new == NewEntries(Head(todo))
           last == Len(ino_to_file)
<1>1. todo \in Seq(Elements(FileInfos)) /\ todo # <<>> /\ ino_to_file \in Seq(Entries)
  BY DEF ServeInv, Table, RegisterFile
<1>2. new \in Seq(Entries) /\ Len(new) \in Nat /\ DOMAIN new = 1 .. Len(new)
  BY <1>1, NewIs
<1>3. last \in Nat /\ DOMAIN ino_to_file = 1 .. last
  BY <1>1
<1>4. Cardinality(DOMAIN ino_to_file) = last
  <2> HIDE DEF last
  <2>1. Cardinality(1 .. last) = IF 1 > last THEN 0 ELSE last - 1 + 1
    BY <1>3, FS_Interval
  <2> QED
    BY <1>3, <2>1
<1>5. /\ path_to_ino' = [p \in DOMAIN path_to_ino \cup {new[i].path : i \in DOMAIN new} |->
            IF \E i \in DOMAIN new : new[i].path = p
            THEN last + CHOOSE i \in DOMAIN new : new[i].path = p ELSE path_to_ino[p]]
      /\ ino_to_file' = [n \in 1 .. last + Len(new) |->
            IF n <= last THEN ino_to_file[n] ELSE new[n - last]]
      /\ todo' = Tail(todo)
      /\ UNCHANGED <<source, data, changes, block_cache, handle_cache, request, reply, listing>>
  <2> HIDE DEF new, last
  <2>1. UNCHANGED <<source, data, changes, block_cache, handle_cache, request, reply, listing>>
    BY DEF RegisterFile, storage, caches
  <2> QED
    BY <1>4, <2>1, Zenon DEF RegisterFile, new
<1> HIDE DEF new, last
<1>6. todo' \in Seq(Elements(FileInfos))
  BY <1>1, <1>5
<1>7. ino_to_file' \in Seq(Entries) /\ DOMAIN ino_to_file' = 1 .. last + Len(new)
  <2>1. ASSUME NEW n \in 1 .. last + Len(new)
        PROVE  (IF n <= last THEN ino_to_file[n] ELSE new[n - last]) \in Entries
    BY <1>1, <1>2, <1>3
  <2>2. ino_to_file' \in [1 .. last + Len(new) -> Entries]
    BY <1>5, <2>1
  <2>3. last + Len(new) \in Nat
    BY <1>2, <1>3
  <2> QED
    BY <2>2, <2>3
<1>8. ASSUME NEW p \in DOMAIN path_to_ino'
      PROVE  path_to_ino'[p] \in DOMAIN ino_to_file' /\ ino_to_file'[path_to_ino'[p]].path = p
  <2>1. CASE \E i \in DOMAIN new : new[i].path = p
    <3>1. PICK i \in DOMAIN new : new[i].path = p /\ path_to_ino'[p] = last + i
      <4> DEFINE i == CHOOSE i \in DOMAIN new : new[i].path = p
      <4>1. i \in DOMAIN new /\ new[i].path = p
        BY <2>1
      <4>2. path_to_ino'[p] = last + i
        BY <1>5, <2>1, Zenon
      <4> QED
        BY <4>1, <4>2
    <3>2. last + i \in 1 .. last + Len(new) /\ ~(last + i <= last) /\ (last + i) - last = i
      BY <1>2, <1>3
    <3>3. ino_to_file'[last + i] = new[i]
      BY <1>5, <3>2
    <3> QED
      BY <1>7, <3>1, <3>2, <3>3
  <2>2. CASE ~\E i \in DOMAIN new : new[i].path = p
    <3>1. p \in DOMAIN path_to_ino /\ path_to_ino'[p] = path_to_ino[p]
      BY <1>5, <2>2
    <3>2. path_to_ino[p] \in 1 .. last /\ ino_to_file[path_to_ino[p]].path = p
      BY <1>3, <3>1 DEF ServeInv, Table
    <3>3. \A m \in 1 .. last : m \in 1 .. last + Len(new) /\ m <= last
      BY <1>2, <1>3
    <3>4. ino_to_file'[path_to_ino[p]] = ino_to_file[path_to_ino[p]]
      BY <1>5, <3>2, <3>3
    <3> QED
      BY <1>7, <3>1, <3>2, <3>3, <3>4
  <2> QED
    BY <2>1, <2>2
<1>9. Table'
  BY <1>6, <1>7, <1>8 DEF Table
<1>10. Stored'
  BY <1>5 DEF ServeInv, Stored
<1>11. request = Idle /\ reply = Idle /\ listing = NoListing /\ block_cache = <<>> /\ handle_cache = <<>>
  BY <1>1 DEF ServeInv, Unserved
<1>12. Unserved' /\ Asked' /\ Cached'
  <2>1. block_cache' = <<>> /\ handle_cache' = <<>> /\ request' = Idle
    BY <1>5, <1>11
  <2>2. Cached'
    BY <2>1 DEF Cached
  <2>3. Asked'
    BY <2>1 DEF Asked, Reading
  <2> QED
    BY <1>5, <1>11, <2>2, <2>3 DEF Unserved
<1>13. OnlyRecorded'
  <2>1. reply'.op = "idle"
    BY <1>5, <1>11 DEF Idle
  <2> QED
    BY <2>1 DEF OnlyRecorded, BytesRecorded, ReadOk, IsRead
<1> QED
  BY <1>9, <1>10, <1>12, <1>13 DEF ServeInv

(* Once the table is complete, it stays.                                    *)
LEMMA TableKept ==
    ASSUME Table, UNCHANGED verifier
    PROVE  /\ Table' /\ UNCHANGED <<FileHandles, VerifiedBlocks>>
           /\ \A n : FileIno(n)' <=> FileIno(n)
<1>1. UNCHANGED <<todo, path_to_ino, ino_to_file>>
  BY DEF verifier
<1>2. Table'
  BY <1>1 DEF Table
<1>3. ASSUME NEW n PROVE FileIno(n)' <=> FileIno(n)
  BY <1>1 DEF FileIno
<1>4. FileHandles' = FileHandles /\ VerifiedBlocks' = VerifiedBlocks
  BY <1>1, Zenon DEF FileHandles, VerifiedBlocks, FileIno
<1> QED
  BY <1>2, <1>3, <1>4

(* A read in progress that a step leaves alone.                             *)
LEMMA AskedKept ==
    ASSUME Asked, UNCHANGED <<request, ino_to_file>>
    PROVE  Asked'
BY DEF Asked, Reading, EndBlock, FileIno, ReadEndOf

(* A reply that a step leaves alone.                                        *)
LEMMA ReplyKept ==
    ASSUME OnlyRecorded, UNCHANGED <<reply, path_to_ino, ino_to_file>>
    PROVE  OnlyRecorded'
<1>1. BytesRecorded'
  BY Zenon DEF OnlyRecorded, BytesRecorded, ReadOk, IsRead, ReadEndOf
<1> QED
  BY <1>1 DEF OnlyRecorded, Child

(* A reply without bytes and names.                                         *)
LEMMA OtherReply ==
    ASSUME reply'.op \notin {"read", "readdir"}
    PROVE  OnlyRecorded'
BY DEF OnlyRecorded, BytesRecorded, ReadOk, IsRead

(* Steps that touch neither the caches nor a read in progress.              *)
LEMMA MetadataServe ==
    ASSUME ServeInv,
           \/ \E ino \in DOMAIN ino_to_file :
                \/ Getattr(ino) \/ Readlink(ino) \/ OpenDir(ino)
                \/ \E i \in DOMAIN Order : Lookup(ino, Order[i])
           \/ CloseDir
    PROVE  ServeInv'
<1>1. todo = <<>> /\ UNCHANGED <<verifier, storage, caches, request>>
  BY DEF Getattr, Readlink, OpenDir, Lookup, CloseDir, Serving
<1>2. reply' = reply \/ reply'.op \notin {"read", "readdir"}
  BY DEF Getattr, Readlink, OpenDir, Lookup, CloseDir, Reply
<1>3. Table' /\ UNCHANGED <<FileHandles, VerifiedBlocks>>
  BY <1>1, TableKept DEF ServeInv
<1>4. UNCHANGED <<todo, path_to_ino, ino_to_file, source, data, changes, block_cache, handle_cache, request>>
  BY <1>1 DEF verifier, storage, caches
<1>5. Stored' /\ Unserved' /\ Cached'
  BY <1>1, <1>3, <1>4 DEF ServeInv, Stored, Unserved, Cached
<1>6. Asked'
  BY <1>4, AskedKept DEF ServeInv
<1>7. OnlyRecorded'
  BY <1>2, <1>4, ReplyKept, OtherReply DEF ServeInv
<1> QED
  BY <1>3, <1>5, <1>6, <1>7 DEF ServeInv

(* The storage below changes.                                               *)
LEMMA StorageServe ==
    ASSUME ServeInv,
           \/ \E object \in Objects, bytes \in Contents : ChangeContents(object, bytes)
           \/ \E r \in Replacements : Replace(r[1], r[2])
    PROVE  ServeInv'
<1>1. UNCHANGED <<verifier, caches, request, reply, listing>> /\ changes' = changes + 1
  BY DEF ChangeContents, Replace
<1>2. Table' /\ UNCHANGED <<FileHandles, VerifiedBlocks>>
  BY <1>1, TableKept DEF ServeInv
<1>3. UNCHANGED <<todo, path_to_ino, ino_to_file, block_cache, handle_cache, request, reply, listing>>
  BY <1>1 DEF verifier, caches
<1>4. Stored'
  <2>1. CASE \E object \in Objects, bytes \in Contents : ChangeContents(object, bytes)
    <3>1. PICK object \in Objects, bytes \in Contents : ChangeContents(object, bytes)
      BY <2>1
    <3>2. data' = [data EXCEPT ![object] = bytes] /\ source' = source /\ bytes \in Seq(Nat)
      BY <3>1, FuseAssumption DEF ChangeContents
    <3> QED
      BY <1>1, <3>2 DEF ServeInv, Stored
  <2>2. CASE \E r \in Replacements : Replace(r[1], r[2])
    <3>1. PICK r \in Replacements : Replace(r[1], r[2])
      BY <2>2
    <3>2. source' = [source EXCEPT ![r[1]] = r[2]] /\ data' = data /\ r[2].object \in Objects
      BY <3>1, FuseAssumption DEF Replace
    <3> QED
      BY <1>1, <3>2 DEF ServeInv, Stored
  <2> QED
    BY <2>1, <2>2
<1>5. Unserved' /\ Cached'
  BY <1>2, <1>3 DEF ServeInv, Unserved, Cached
<1>6. Asked' /\ OnlyRecorded'
  BY <1>3, AskedKept, ReplyKept DEF ServeInv
<1> QED
  BY <1>2, <1>4, <1>5, <1>6 DEF ServeInv

(* open_file_cached keeps handles of recorded files.                        *)
LEMMA HandleServe ==
    ASSUME Stored, Table, Cached, NEW ino, FileIno(ino)
    PROVE  /\ Handle(ino) \in Objects
           /\ OpenFileCached(ino) => handle_cache' \in Seq(FileHandles)
<1>1. handle_cache \in Seq(FileHandles) /\ ino \in Nat
  BY FileIs DEF Cached
<1>2. Root \in Objects
  BY DEF Objects
<1>3. CASE Holds(handle_cache, ino)
  <2>1. Entry(handle_cache, ino) \in FileHandles
    BY <1>1, <1>3, EntryIn
  <2>2. Handle(ino) \in Objects
    BY <1>3, <2>1 DEF Handle, FileHandles
  <2>3. Touch(handle_cache, ino) \in Seq(FileHandles)
    BY <1>1, <1>3, TouchIn
  <2> QED
    BY <1>3, <2>2, <2>3 DEF OpenFileCached
<1>4. CASE ~Holds(handle_cache, ino)
  <2>1. Handle(ino) \in Objects
    BY <1>2, <1>4 DEF Handle, NodeAt, Absent, Stored
  <2>2. [key |-> ino, data |-> Handle(ino)] \in FileHandles
    BY <1>1, <2>1 DEF FileHandles
  <2>3. Put(handle_cache, ino, Handle(ino), HandleCacheSize) \in Seq(FileHandles)
    BY <1>1, <2>2, PutIn, FuseAssumption
  <2> QED
    BY <1>1, <1>4, <2>1, <2>3 DEF OpenFileCached
<1> QED
  BY <1>3, <1>4

(* Opening a file.                                                          *)
LEMMA OpenServe ==
    ASSUME ServeInv, NEW ino \in DOMAIN ino_to_file, Open(ino)
    PROVE  ServeInv'
<1>1. /\ todo = <<>> /\ UNCHANGED <<verifier, storage, block_cache, request>>
      /\ reply'.op = "open" /\ ino_to_file[ino].kind = "file" /\ OpenFileCached(ino)
  BY DEF Open, Serving, Reply
<1>2. Table' /\ UNCHANGED <<FileHandles, VerifiedBlocks>>
  BY <1>1, TableKept DEF ServeInv
<1>3. UNCHANGED <<todo, path_to_ino, ino_to_file, source, data, changes, request>>
  BY <1>1 DEF verifier, storage
<1>4. handle_cache' \in Seq(FileHandles)
  BY <1>1, KindIs, HandleServe DEF ServeInv
<1>5. Stored' /\ Unserved' /\ Cached'
  BY <1>1, <1>2, <1>3, <1>4 DEF ServeInv, Stored, Unserved, Cached
<1>6. Asked' /\ OnlyRecorded'
  BY <1>1, <1>3, AskedKept, OtherReply DEF ServeInv
<1> QED
  BY <1>2, <1>5, <1>6 DEF ServeInv

(* A read that is refused or fails, and one of no bytes.                    *)
LEMMA ErrorReply ==
    ASSUME NEW ino, NEW offset, NEW size, NEW error,
           ReadError(ino, offset, size, error) \/ (size = 0 /\ ReadReply(ino, offset, size, <<>>))
    PROVE  OnlyRecorded'
<1>1. reply'.op = "read"
  BY DEF ReadError, ReadReply, Reply
<1>2. CASE ReadError(ino, offset, size, error)
  <2>1. reply'.result = [offset |-> offset, size |-> size, error |-> error]
    BY <1>2 DEF ReadError, Reply
  <2>2. "bytes" \notin DOMAIN (reply'.result)
    BY <2>1
  <2> QED
    BY <1>1, <2>2 DEF OnlyRecorded, BytesRecorded, ReadOk
<1>3. CASE size = 0 /\ ReadReply(ino, offset, size, <<>>)
  <2>1. reply'.result.size = 0
    BY <1>3 DEF ReadReply, Reply
  <2> QED
    BY <1>1, <2>1 DEF OnlyRecorded, BytesRecorded
<1> QED
  BY <1>2, <1>3

(* A read is accepted with nothing collected yet, or answered at once.      *)
LEMMA ReadBeginServe ==
    ASSUME ServeInv, NEW ino \in DOMAIN ino_to_file, NEW range \in ReadRanges,
           ReadBegin(ino, range[1], range[2])
    PROVE  ServeInv'
<1> DEFINE offset == range[1]
           size == range[2]
<1>1. offset \in Int /\ size \in Nat
  BY FuseAssumption
<1>2. todo = <<>> /\ request = Idle /\ UNCHANGED <<verifier, storage, block_cache, listing>>
  BY DEF ReadBegin, Serving
<1>3. Table' /\ UNCHANGED <<FileHandles, VerifiedBlocks>>
  BY <1>2, TableKept DEF ServeInv
<1>4. UNCHANGED <<todo, path_to_ino, ino_to_file, source, data, changes, block_cache>>
  BY <1>2 DEF verifier, storage
<1>5. Stored' /\ Unserved'
  BY <1>2, <1>4 DEF ServeInv, Stored, Unserved
<1> DEFINE started == /\ ~(offset < 0) /\ size # 0 /\ ino_to_file[ino].kind # "dir" /\ OpenFileCached(ino)
                      /\ request' = [op |-> "read", ino |-> ino, offset |-> offset, size |-> size,
                                     block |-> offset \div BlockSize, handle |-> Handle(ino),
                                     output |-> <<>>]
                      /\ UNCHANGED reply
           answered == /\ \/ \E e : ReadError(ino, offset, size, e)
                          \/ size = 0 /\ ReadReply(ino, offset, size, <<>>)
                       /\ UNCHANGED request
                       /\ \/ UNCHANGED handle_cache
                          \/ ino_to_file[ino].kind # "dir" /\ OpenFileCached(ino)
<1>6. started \/ answered
  BY Zenon DEF ReadBegin
<1>7. FileIno(ino) \/ ino_to_file[ino].kind = "dir"
  BY KindIs DEF ServeInv
<1>8. Cached'
  <2>1. OpenFileCached(ino) /\ FileIno(ino) => handle_cache' \in Seq(FileHandles)
    BY HandleServe DEF ServeInv
  <2> QED
    BY <1>3, <1>4, <1>6, <1>7, <2>1 DEF ServeInv, Cached
<1>9. CASE answered
  <2>1. Asked'
    BY <1>4, <1>9, AskedKept DEF ServeInv
  <2>2. OnlyRecorded'
    BY <1>9, ErrorReply
  <2> QED
    BY <1>3, <1>5, <1>8, <2>1, <2>2 DEF ServeInv
<1>10. CASE started
  <2>1. offset \in Nat /\ size \in Nat \ {0} /\ offset + size \in Nat /\ offset < offset + size
    BY <1>1, <1>10
  <2>2. FileIno(ino) /\ ino \in Nat /\ Handle(ino) \in Objects
    BY <1>7, <1>10, FileIs, HandleServe DEF ServeInv
  <2>3. /\ offset \div BlockSize \in Nat
        /\ offset \div BlockSize \in offset \div BlockSize .. DivCeil(offset + size, BlockSize)
    <3> HIDE DEF offset, size
    <3>1. /\ offset \div BlockSize \in Nat /\ DivCeil(offset + size, BlockSize) \in Nat
          /\ offset \div BlockSize < DivCeil(offset + size, BlockSize)
      BY <2>1, RangeIs
    <3> QED
      BY <3>1
  <2>4. Collected(ino_to_file[ino].tree, offset, offset + size, offset \div BlockSize, <<>>)
    BY <2>1, CollectStart
  <2> HIDE DEF offset, size
  <2>5. request' = [op |-> "read", ino |-> ino, offset |-> offset, size |-> size,
                    block |-> offset \div BlockSize, handle |-> Handle(ino), output |-> <<>>]
    BY <1>10
  <2>6. Asked'
    <3>1. request' \in [op : {"read"}, ino : Nat, offset : Nat, size : Nat \ {0}, block : Nat,
                        handle : Objects, output : Seq(Nat)]
      BY <2>1, <2>2, <2>3, <2>5
    <3>2. /\ request'.ino = ino /\ request'.offset = offset /\ request'.size = size
          /\ request'.block = offset \div BlockSize /\ request'.output = <<>>
      BY <2>5
    <3>3. FileIno(ino)'
      BY <1>4, <2>2 DEF FileIno
    <3> QED
      BY <1>4, <2>3, <2>4, <3>1, <3>2, <3>3, Zenon DEF Asked, EndBlock, ReadEndOf, FileIno
  <2>7. OnlyRecorded'
    BY <1>4, <1>10, ReplyKept DEF ServeInv
  <2> QED
    BY <1>3, <1>5, <1>8, <2>6, <2>7 DEF ServeInv
<1> QED
  BY <1>6, <1>9, <1>10

(* What a read in progress has.                                             *)
LEMMA RequestIs ==
    ASSUME ServeInv, Reading
    PROVE  /\ todo = <<>> /\ FileIno(request.ino) /\ request.ino \in Nat
           /\ request.offset \in Nat /\ request.size \in Nat \ {0} /\ request.block \in Nat
           /\ request.handle \in Objects /\ request.output \in Seq(Nat)
           /\ ReadEndOf(request) \in Nat /\ request.offset < ReadEndOf(request)
           /\ EndBlock = DivCeil(ReadEndOf(request), BlockSize) /\ EndBlock \in Nat
           /\ request.offset \div BlockSize \in Nat
           /\ request.offset \div BlockSize <= request.block /\ request.block <= EndBlock
           /\ Collected(ino_to_file[request.ino].tree, request.offset, ReadEndOf(request),
                        request.block, request.output)
<1>1. todo = <<>>
  BY DEF ServeInv, Unserved, Reading
<1>2. /\ FileIno(request.ino) /\ request.ino \in Nat
      /\ request.offset \in Nat /\ request.size \in Nat \ {0} /\ request.block \in Nat
      /\ request.handle \in Objects /\ request.output \in Seq(Nat)
      /\ request.block \in request.offset \div BlockSize .. EndBlock
      /\ Collected(ino_to_file[request.ino].tree, request.offset, ReadEndOf(request),
                   request.block, request.output)
  BY DEF ServeInv, Asked
<1>3. ReadEndOf(request) \in Nat /\ request.offset < ReadEndOf(request)
  BY <1>2 DEF ReadEndOf
<1>4. EndBlock = DivCeil(ReadEndOf(request), BlockSize)
  BY DEF EndBlock, ReadEndOf
<1>5. request.offset \div BlockSize \in Nat /\ DivCeil(ReadEndOf(request), BlockSize) \in Nat
  BY <1>2, <1>3, RangeIs
<1>6. request.offset \div BlockSize <= request.block /\ request.block <= EndBlock
  BY <1>2, <1>4, <1>5
<1> QED
  BY <1>1, <1>2, <1>3, <1>4, <1>5, <1>6

(* The request after a block.                                               *)
LEMMA Extended ==
    ASSUME ServeInv, Reading, NEW block, Extend(block), Overlap(block) \in Seq(Nat)
    PROVE  /\ request' \in [op : {"read"}, ino : Nat, offset : Nat, size : Nat \ {0}, block : Nat,
                            handle : Objects, output : Seq(Nat)]
           /\ request'.ino = request.ino /\ request'.offset = request.offset
           /\ request'.size = request.size /\ request'.handle = request.handle
           /\ request'.block = request.block + 1
           /\ request'.output = request.output \o Overlap(block)
<1> DEFINE R == [op : {"read"}, ino : Nat, offset : Nat, size : Nat \ {0}, block : Nat,
                 handle : Objects, output : Seq(Nat)]
           out == request.output \o Overlap(block)
           r == [request EXCEPT !.output = out]
<1>1. request \in R
  BY DEF ServeInv, Asked
<1>2. request' = [r EXCEPT !.block = request.block + 1]
  BY Zenon DEF Extend
<1>3. out \in Seq(Nat) /\ request.block + 1 \in Nat
  <2>1. request.output \in Seq(Nat) /\ request.block \in Nat
    BY <1>1
  <2> QED
    BY <2>1
<1> HIDE DEF out
<1>4. /\ r \in R /\ r.ino = request.ino /\ r.offset = request.offset /\ r.size = request.size
      /\ r.handle = request.handle /\ r.output = out
  BY <1>1, <1>3
<1> HIDE DEF r
<1>5. /\ request' \in R /\ request'.ino = r.ino /\ request'.offset = r.offset /\ request'.size = r.size
      /\ request'.handle = r.handle /\ request'.output = r.output
      /\ request'.block = request.block + 1
  BY <1>2, <1>3, <1>4
<1> QED
  BY <1>4, <1>5 DEF out

(* A verified block is copied.                                              *)
LEMMA ExtendServe ==
    ASSUME ServeInv, Reading, request.block < EndBlock, NEW block \in Seq(Nat),
           verify_data_block(ino_to_file[request.ino].tree, request.block, block),
           Extend(block), UNCHANGED ino_to_file
    PROVE  Asked' /\ Overlap(block) \in Seq(Nat)
<1> DEFINE tree == ino_to_file[request.ino].tree
           b == request.block
           from == request.offset
           to == ReadEndOf(request)
<1>1. /\ b \in Nat /\ from \in Nat /\ to \in Nat /\ from < to /\ FileIno(request.ino)
      /\ EndBlock = DivCeil(to, BlockSize) /\ EndBlock \in Nat /\ from \div BlockSize \in Nat
      /\ from \div BlockSize <= b
      /\ Collected(tree, from, to, b, request.output)
  BY RequestIs
<1>2. /\ Overlap(block) = Piece(tree, from, to, b, Len(block)) /\ Overlap(block) \in Seq(Nat)
      /\ Pad(SubSeq(tree[b + 1], 1, Len(block))) = tree[b + 1]
      /\ b + 1 \in DOMAIN tree /\ Len(block) \in 0 .. BlockSize
  <2> HIDE DEF tree, b, from, to
  <2>1. verify_data_block(tree, b, block)
    BY DEF tree, b
  <2>2. LET start == b * BlockSize
            piece == Slice(block, Most(from, start) - start,
                           Least(Least(to, start + BlockSize) - start, Len(block)))
        IN  /\ piece = Piece(tree, from, to, b, Len(block)) /\ piece \in Seq(Nat)
            /\ Pad(SubSeq(tree[b + 1], 1, Len(block))) = tree[b + 1]
            /\ b + 1 \in DOMAIN tree /\ Len(block) \in 0 .. BlockSize
    BY <1>1, <2>1, OverlapIs
  <2> QED
    BY <2>2, Zenon DEF Overlap, b, from, to, ReadEndOf
<1>3. b \in from \div BlockSize .. DivCeil(to, BlockSize) - 1 /\ b + 1 \in from \div BlockSize .. EndBlock
  <2> HIDE DEF b, from, to
  <2>1. b < EndBlock
    BY DEF b
  <2> QED
    BY <1>1, <2>1
<1>4. Collected(tree, from, to, b + 1, request.output \o Overlap(block))
  <2> HIDE DEF tree, b, from, to
  <2> QED
    BY <1>1, <1>2, <1>3, CollectMore
<1>5. /\ request' \in [op : {"read"}, ino : Nat, offset : Nat, size : Nat \ {0}, block : Nat,
                       handle : Objects, output : Seq(Nat)]
      /\ request'.ino = request.ino /\ request'.offset = from /\ request'.size = request.size
      /\ request'.block = b + 1 /\ request'.output = request.output \o Overlap(block)
  BY <1>2, Extended
<1>6. ReadEndOf(request)' = to /\ EndBlock' = EndBlock /\ FileIno(request.ino)'
  BY <1>1, <1>5, Zenon DEF ReadEndOf, EndBlock, FileIno
<1> QED
  BY <1>2, <1>3, <1>4, <1>5, <1>6, Zenon DEF Asked

(* One block of a read.                                                     *)
LEMMA ReadBlockServe ==
    ASSUME ServeInv, ReadBlock
    PROVE  ServeInv'
<1> DEFINE key == BlockKey(request.ino, request.block)
           raw == Pread(request.handle, request.block)
           tree == ino_to_file[request.ino].tree
<1>1. /\ Reading /\ request.block < EndBlock
      /\ UNCHANGED <<verifier, storage, handle_cache, listing>>
  BY DEF ReadBlock
<1>2. UNCHANGED <<todo, path_to_ino, ino_to_file, source, data, changes, handle_cache, listing>>
  BY <1>1 DEF verifier, storage
<1>3. /\ todo = <<>> /\ FileIno(request.ino) /\ request.ino \in Nat /\ request.block \in Nat
      /\ request.handle \in Objects
  BY <1>1, RequestIs
<1>4. Table' /\ UNCHANGED <<FileHandles, VerifiedBlocks>>
  BY <1>1, TableKept DEF ServeInv
<1>5. Stored' /\ Unserved'
  BY <1>2, <1>3 DEF ServeInv, Stored, Unserved
<1>6. handle_cache' \in Seq(FileHandles)' /\ block_cache \in Seq(VerifiedBlocks)
  BY <1>2, <1>4 DEF ServeInv, Cached
<1>7. CASE /\ Holds(block_cache, key) /\ block_cache' = Touch(block_cache, key)
           /\ Extend(Entry(block_cache, key).data) /\ UNCHANGED reply
  <2>1. Entry(block_cache, key) \in VerifiedBlocks /\ Entry(block_cache, key).key = key
    BY <1>6, <1>7, EntryIn
  <2>2. key[1] = request.ino /\ key[2] = request.block
    BY DEF BlockKey
  <2>3. /\ Entry(block_cache, key).data \in Seq(Nat)
        /\ verify_data_block(tree, request.block, Entry(block_cache, key).data)
    BY <2>1, <2>2, Zenon DEF VerifiedBlocks
  <2>4. Asked'
    BY <1>1, <1>2, <1>7, <2>3, ExtendServe
  <2>5. block_cache' \in Seq(VerifiedBlocks)
    BY <1>6, <1>7, TouchIn
  <2>6. OnlyRecorded'
    BY <1>2, <1>7, ReplyKept DEF ServeInv
  <2> QED
    BY <1>4, <1>5, <1>6, <2>4, <2>5, <2>6 DEF ServeInv, Cached
<1>8. CASE /\ ~Holds(block_cache, key) /\ verify_data_block(tree, request.block, raw)
           /\ block_cache' = Put(block_cache, key, raw, BlockCacheSize)
           /\ Extend(raw) /\ UNCHANGED reply
  <2>1. raw \in Seq(Nat)
    <3>1. data[request.handle] \in Seq(Nat)
      BY <1>3 DEF ServeInv, Stored
    <3>2. request.block * BlockSize \in Nat /\ (request.block + 1) * BlockSize \in Int
      BY <1>3, FuseAssumption
    <3> QED
      BY <3>1, <3>2, SliceIn DEF Pread
  <2>2. [key |-> key, data |-> raw] \in VerifiedBlocks
    <3>1. key \in Nat \X Nat /\ key[1] = request.ino /\ key[2] = request.block
      BY <1>3 DEF BlockKey
    <3> HIDE DEF key, raw
    <3> QED
      BY <1>3, <1>8, <2>1, <3>1 DEF VerifiedBlocks
  <2>3. block_cache' \in Seq(VerifiedBlocks)
    BY <1>6, <1>8, <2>2, PutIn, FuseAssumption
  <2>4. Asked'
    BY <1>1, <1>2, <1>8, <2>1, ExtendServe
  <2>5. OnlyRecorded'
    BY <1>2, <1>8, ReplyKept DEF ServeInv
  <2> QED
    BY <1>4, <1>5, <1>6, <2>3, <2>4, <2>5 DEF ServeInv, Cached
<1>9. CASE ReadFails /\ UNCHANGED block_cache
  <2>1. OnlyRecorded'
    BY <1>9, ErrorReply DEF ReadFails
  <2>2. Asked'
    BY <1>9 DEF ReadFails, Asked, Reading
  <2> QED
    BY <1>4, <1>5, <1>6, <1>9, <2>1, <2>2 DEF ServeInv, Cached
<1> QED
  BY <1>7, <1>8, <1>9, Zenon DEF ReadBlock

(* A failing system call.                                                   *)
LEMMA PreadFailsServe ==
    ASSUME ServeInv, PreadFails
    PROVE  ServeInv'
<1>1. /\ Reading /\ ReadFails /\ changes' = changes + 1
      /\ UNCHANGED <<verifier, source, data, caches, listing>>
  BY DEF PreadFails
<1>2. UNCHANGED <<todo, path_to_ino, ino_to_file, source, data, block_cache, handle_cache, listing>>
  BY <1>1 DEF verifier, caches
<1>3. todo = <<>>
  BY <1>1, RequestIs
<1>4. Table' /\ UNCHANGED <<FileHandles, VerifiedBlocks>>
  BY <1>1, TableKept DEF ServeInv
<1>5. Stored' /\ Unserved' /\ Cached'
  BY <1>1, <1>2, <1>3, <1>4 DEF ServeInv, Stored, Unserved, Cached
<1>6. OnlyRecorded' /\ Asked'
  BY <1>1, ErrorReply DEF ReadFails, Asked, Reading
<1> QED
  BY <1>4, <1>5, <1>6 DEF ServeInv

(* A read that is complete.                                                 *)
LEMMA ReadEndServe ==
    ASSUME ServeInv, ReadEnd
    PROVE  ServeInv'
<1> DEFINE from == request.offset
           to == ReadEndOf(request)
           tree == ino_to_file[request.ino].tree
<1>1. /\ Reading /\ request.block = EndBlock /\ request' = Idle
      /\ UNCHANGED <<verifier, storage, caches, listing>>
      /\ reply' = [op |-> "read", ino |-> request.ino,
                   result |-> [offset |-> from, size |-> request.size, bytes |-> request.output]]
  BY DEF ReadEnd, ReadReply, Reply
<1>2. UNCHANGED <<todo, path_to_ino, ino_to_file, source, data, changes, block_cache, handle_cache, listing>>
  BY <1>1 DEF verifier, caches, storage
<1>3. /\ todo = <<>> /\ from \in Nat /\ to \in Nat /\ from < to
      /\ Collected(tree, from, to, DivCeil(to, BlockSize), request.output)
  BY <1>1, RequestIs
<1>4. Table' /\ UNCHANGED <<FileHandles, VerifiedBlocks>>
  BY <1>1, TableKept DEF ServeInv
<1>5. Stored' /\ Unserved' /\ Cached'
  BY <1>2, <1>3, <1>4 DEF ServeInv, Stored, Unserved, Cached
<1>6. Asked'
  BY <1>1 DEF Asked, Reading
<1>7. IsAssembled(tree, from, to, request.output)
  <2> HIDE DEF from, to, tree
  <2> QED
    BY <1>3, CollectEnd
<1>8. /\ reply'.op = "read" /\ reply'.result.offset = from /\ ReadEndOf(reply.result)' = to
      /\ reply'.result.bytes = request.output /\ ino_to_file'[reply'.ino].tree = tree
  BY <1>1, <1>2 DEF ReadEndOf
<1>9. BytesRecorded'
  BY <1>7, <1>8, Zenon DEF BytesRecorded, IsAssembled
<1> QED
  BY <1>4, <1>5, <1>6, <1>8, <1>9 DEF ServeInv, OnlyRecorded

(* The entries of a directory that readdir shows.                           *)
Visible(dir) == {name \in Elements(Order) : Shown(dir, name)}

(* The entries that readdir pushes.                                         *)
LEMMA EntriesAre ==
    ASSUME NEW dir, NEW offset \in Nat
    PROVE  LET named == Within(Order, Visible(dir))
               all == DirEntries(dir, offset)
           IN  /\ named \in Seq(Elements(Order)) /\ Len(named) <= Len(Order) /\ Len(named) \in Nat
               /\ Elements(named) = Visible(dir)
               /\ all \in Seq(Elements(Order) \cup {".", ".."})
               /\ Elements(all) \subseteq Visible(dir) \cup {".", ".."}
               /\ offset = 0 => /\ Elements(all) = Visible(dir) \cup {".", ".."}
                                /\ Len(all) = Len(named) + 2
               /\ offset >= 2 => all = named
<1> DEFINE named == Within(Order, Visible(dir))
           all == DirEntries(dir, offset)
           dot == IF offset <= 0 THEN <<".">> ELSE <<>>
           dots == IF offset <= 1 THEN <<"..">> ELSE <<>>
           E == Elements(Order) \cup {".", ".."}
<1>1. Order \in Seq(Elements(Order))
  BY FuseAssumption
<1>2. named \in Seq(Elements(Order)) /\ Len(named) <= Len(Order)
      /\ Elements(named) = Elements(Order) \cap Visible(dir)
  BY <1>1, WithinIs
<1>3. Elements(named) = Visible(dir)
  BY <1>2 DEF Visible
<1>4. all = dot \o dots \o named
  BY Zenon DEF DirEntries, Visible
<1> HIDE DEF named, all
<1>5. named \in Seq(E) /\ dot \in Seq(E) /\ dots \in Seq(E) /\ Len(named) \in Nat
  <2>1. named \in Seq(E) /\ Len(named) \in Nat
    BY <1>2
  <2>2. dot \in Seq(E) /\ dots \in Seq(E)
    OBVIOUS
  <2> QED
    BY <2>1, <2>2
<1>6. Elements(dot) \subseteq {".", ".."} /\ Elements(dots) \subseteq {".", ".."}
  BY DEF Elements
<1>7. offset = 0 => dot = <<".">> /\ dots = <<"..">>
  OBVIOUS
<1>8. offset >= 2 => dot = <<>> /\ dots = <<>>
  OBVIOUS
<1> HIDE DEF dot, dots, E
<1>9. dot \o dots \in Seq(E) /\ all \in Seq(E)
  BY <1>4, <1>5
<1>10. ASSUME NEW s \in Seq(E), NEW t \in Seq(E)
       PROVE  Elements(s \o t) = Elements(s) \cup Elements(t)
  <2>1. ASSUME NEW x PROVE x \in Elements(s \o t) <=> x \in Elements(s) \cup Elements(t)
    <3>1. ASSUME NEW i \in DOMAIN (s \o t) PROVE (s \o t)[i] \in Elements(s) \cup Elements(t)
      <4>1. i \in 1 .. Len(s) + Len(t) /\ Len(s) \in Nat /\ Len(t) \in Nat
        OBVIOUS
      <4>2. CASE i <= Len(s)
        BY <4>1, <4>2 DEF Elements
      <4>3. CASE i > Len(s)
        <5>1. i - Len(s) \in DOMAIN t /\ (s \o t)[i] = t[i - Len(s)]
          BY <4>1, <4>3
        <5> QED
          BY <5>1 DEF Elements
      <4> QED
        BY <4>1, <4>2, <4>3
    <3>2. ASSUME NEW i \in DOMAIN s PROVE s[i] \in Elements(s \o t)
      <4>1. i \in DOMAIN (s \o t) /\ (s \o t)[i] = s[i]
        OBVIOUS
      <4> QED
        BY <4>1, Zenon DEF Elements
    <3>3. ASSUME NEW i \in DOMAIN t PROVE t[i] \in Elements(s \o t)
      <4>1. Len(s) + i \in DOMAIN (s \o t) /\ (s \o t)[Len(s) + i] = t[i]
        OBVIOUS
      <4> QED
        BY <4>1, Zenon DEF Elements
    <3> QED
      BY <3>1, <3>2, <3>3, Zenon DEF Elements
  <2> QED
    BY <2>1
<1>11. Elements(all) = Elements(dot) \cup Elements(dots) \cup Elements(named)
  <2>1. Elements(dot \o dots) = Elements(dot) \cup Elements(dots)
    BY <1>5, <1>10, Zenon
  <2>2. Elements((dot \o dots) \o named) = Elements(dot \o dots) \cup Elements(named)
    BY <1>5, <1>9, <1>10, Zenon
  <2> QED
    BY <1>4, <2>1, <2>2, Zenon
<1>12. Elements(all) \subseteq Visible(dir) \cup {".", ".."}
  BY <1>3, <1>6, <1>11
<1>13. offset = 0 => Elements(all) = Visible(dir) \cup {".", ".."} /\ Len(all) = Len(named) + 2
  <2> SUFFICES ASSUME offset = 0 PROVE Elements(all) = Visible(dir) \cup {".", ".."} /\ Len(all) = Len(named) + 2
    OBVIOUS
  <2>1. dot = <<".">> /\ dots = <<"..">>
    BY <1>7
  <2>2. Elements(dot) = {"."} /\ Elements(dots) = {".."} /\ Len(dot \o dots) = 2
    BY <2>1 DEF Elements
  <2>3. Len(all) = Len(dot \o dots) + Len(named)
    BY <1>4, <1>5, <1>9
  <2> QED
    BY <1>3, <1>5, <1>11, <2>2, <2>3
<1>14. offset >= 2 => all = named
  <2> SUFFICES ASSUME offset >= 2 PROVE all = named
    OBVIOUS
  <2>1. all = <<>> \o <<>> \o named
    BY <1>4, <1>8
  <2> QED
    BY <1>5, <2>1
<1> QED
  BY <1>2, <1>3, <1>5, <1>9, <1>12, <1>13, <1>14, Zenon DEF named, all, E

(* A reply to readdir has names of the directory itself and of entries that *)
(* the table has.                                                           *)
LEMMA ReaddirServe ==
    ASSUME ServeInv, Opened, Readdir
    PROVE  ServeInv'
<1> DEFINE dir == ino_to_file[listing.ino]
           all == DirEntries(dir, listing.offset)
           page == Slice(all, listing.offset, listing.offset + PageSize)
<1>1. /\ todo = <<>> /\ UNCHANGED <<verifier, storage, caches, request>>
      /\ \/ \E e : reply' = [op |-> "readdir", ino |-> listing.ino, result |-> [error |-> e]]
         \/ reply' = [op |-> "readdir", ino |-> listing.ino, result |-> [names |-> page]]
  BY Zenon DEF Readdir, Serving, Reply
<1>2. UNCHANGED <<todo, path_to_ino, ino_to_file, source, data, changes, block_cache, handle_cache, request>>
  BY <1>1 DEF verifier, caches, storage
<1>3. Table' /\ UNCHANGED <<FileHandles, VerifiedBlocks>>
  BY <1>1, TableKept DEF ServeInv
<1>4. Stored' /\ Unserved' /\ Cached' /\ Asked'
  BY <1>1, <1>2, <1>3, AskedKept DEF ServeInv, Stored, Unserved, Cached
<1>5. CASE \E e : reply' = [op |-> "readdir", ino |-> listing.ino, result |-> [error |-> e]]
  <2>1. reply'.op = "readdir" /\ "names" \notin DOMAIN (reply'.result)
    <3>1. PICK e : reply' = [op |-> "readdir", ino |-> listing.ino, result |-> [error |-> e]]
      BY <1>5
    <3>2. reply'.op = "readdir" /\ reply'.result = [error |-> e]
      BY <3>1
    <3> QED
      BY <3>2
  <2>2. OnlyRecorded'
    BY <2>1 DEF OnlyRecorded, BytesRecorded, ReadOk, IsRead
  <2> QED
    BY <1>3, <1>4, <2>2 DEF ServeInv
<1>6. CASE reply' = [op |-> "readdir", ino |-> listing.ino, result |-> [names |-> page]]
  <2>1. ASSUME NEW i \in DOMAIN page
        PROVE  page[i] \in {".", ".."} \/ Child(dir, page[i]) \in DOMAIN path_to_ino
    <3>1. listing.offset \in Nat /\ PageSize \in Nat
      BY FuseAssumption DEF Opened, Readdir
    <3>2. all \in Seq(Elements(Order) \cup {".", ".."}) /\ Elements(all) \subseteq Visible(dir) \cup {".", ".."}
      BY <3>1, EntriesAre, Zenon
    <3>3. page[i] \in Elements(all)
      <4> HIDE DEF all
      <4> DEFINE m == Least(listing.offset + PageSize, Len(all)) - listing.offset
      <4>1. /\ page \in Seq(Elements(Order) \cup {".", ".."}) /\ Len(page) = Most(m, 0)
            /\ \A j \in 1 .. Len(page) : page[j] = all[listing.offset + j]
        BY <3>1, <3>2, SliceIn
      <4> HIDE DEF page
      <4>2. i \in 1 .. Len(page) /\ i \in Nat /\ Len(all) \in Nat /\ DOMAIN all = 1 .. Len(all)
        BY <3>2, <4>1
      <4>3. listing.offset + i \in DOMAIN all
        BY <3>1, <4>1, <4>2 DEF Most, Least
      <4> QED
        BY <4>1, <4>2, <4>3, Zenon DEF Elements
    <3> HIDE DEF page, all
    <3>4. page[i] \in {".", ".."} \/ Shown(dir, page[i])
      BY <3>2, <3>3 DEF Visible
    <3> QED
      BY <3>4 DEF Shown
  <2>2. /\ reply'.op = "readdir" /\ reply'.result.names = page /\ ino_to_file'[reply'.ino] = dir
    BY <1>2, <1>6
  <2> HIDE DEF page, dir
  <2>3. OnlyRecorded'
    BY <1>2, <2>1, <2>2, Zenon DEF OnlyRecorded, BytesRecorded, ReadOk, IsRead, Child
  <2> QED
    BY <1>3, <1>4, <2>3 DEF ServeInv
<1> QED
  BY <1>1, <1>5, <1>6

(* The stream is of a directory of the table.                               *)
LEMMA OpenedNext ==
    ASSUME ServeInv, Opened, [Next]_vars
    PROVE  Opened'
<1>1. CASE UNCHANGED <<listing, ino_to_file>>
  BY <1>1 DEF Opened
<1>2. CASE RegisterFile
  <2>1. listing' = NoListing
    BY <1>2 DEF RegisterFile, ServeInv, Unserved
  <2> QED
    BY <2>1 DEF Opened
<1>3. CASE \E ino \in DOMAIN ino_to_file : OpenDir(ino)
  <2>1. PICK ino \in DOMAIN ino_to_file : OpenDir(ino)
    BY <1>3
  <2>2. /\ listing' = [op |-> "open", ino |-> ino, offset |-> 0, names |-> {}, again |-> FALSE]
        /\ ino_to_file' = ino_to_file
    BY <2>1 DEF OpenDir, verifier
  <2> QED
    BY <2>2 DEF Opened
<1>4. CASE CloseDir
  BY <1>4 DEF CloseDir, Opened
<1>5. CASE Readdir
  <2> DEFINE page == Slice(DirEntries(ino_to_file[listing.ino], listing.offset),
                           listing.offset, listing.offset + PageSize)
  <2>1. /\ DOMAIN listing = {"op", "ino", "offset", "names", "again"}
        /\ listing.ino \in DOMAIN ino_to_file /\ listing.offset \in Nat /\ ino_to_file' = ino_to_file
    BY <1>5 DEF Opened, Readdir, verifier
  <2>2. Len(page) \in Nat
    <3> DEFINE all == DirEntries(ino_to_file[listing.ino], listing.offset)
    <3>1. all \in Seq(Elements(Order) \cup {".", ".."})
      BY <2>1, EntriesAre, Zenon
    <3> HIDE DEF all
    <3>2. page \in Seq(Elements(Order) \cup {".", ".."})
      BY <2>1, <3>1, SliceIn, FuseAssumption DEF all
    <3> HIDE DEF page
    <3> QED
      BY <3>2
  <2> HIDE DEF page
  <2>3. \/ \E op : listing' = [listing EXCEPT !.op = op]
        \/ \E names, again : listing' = [[[listing EXCEPT !.names = names] EXCEPT !.again = again]
                                            EXCEPT !.offset = listing.offset + Len(page)]
    BY <1>5, Zenon DEF Readdir, Cookie, page
  <2>4. /\ DOMAIN listing' = {"op", "ino", "offset", "names", "again"}
        /\ listing'.ino = listing.ino
        /\ listing'.offset = listing.offset \/ listing'.offset = listing.offset + Len(page)
    BY <2>1, <2>3, Zenon
  <2>5. listing'.offset \in Nat
    BY <2>1, <2>2, <2>4
  <2> QED
    BY <2>1, <2>4, <2>5 DEF Opened
<1>6. UNCHANGED <<listing, ino_to_file>> \/ RegisterFile \/ (\E ino \in DOMAIN ino_to_file : OpenDir(ino))
      \/ CloseDir \/ Readdir
  <2>1. CASE UNCHANGED vars
    BY <2>1 DEF vars, verifier
  <2>2. CASE Next
    BY <2>2 DEF Next, Getattr, Open, Readlink, Lookup, ReadBegin, ReadBlock, PreadFails, ReadEnd,
       ChangeContents, Replace, verifier
  <2> QED
    BY <2>1, <2>2
<1> QED
  BY <1>1, <1>2, <1>3, <1>4, <1>5, <1>6

(* Every step keeps it.                                                     *)
LEMMA ServeNext == ServeInv /\ Opened /\ [Next]_vars => (ServeInv /\ Opened)'
<1> SUFFICES ASSUME ServeInv, Opened, [Next]_vars PROVE ServeInv'
  BY OpenedNext
<1>1. CASE UNCHANGED vars
  <2>1. UNCHANGED <<todo, path_to_ino, ino_to_file, source, data, changes, block_cache, handle_cache,
                    request, reply, listing>>
    BY <1>1 DEF vars, verifier, storage, caches
  <2>2. Table' /\ UNCHANGED <<FileHandles, VerifiedBlocks>>
    BY <2>1, TableKept DEF ServeInv, verifier
  <2>3. Stored' /\ Unserved' /\ Cached'
    BY <2>1, <2>2 DEF ServeInv, Stored, Unserved, Cached
  <2>4. Asked' /\ OnlyRecorded'
    BY <2>1, AskedKept, ReplyKept DEF ServeInv
  <2> QED
    BY <2>2, <2>3, <2>4 DEF ServeInv
<1>2. CASE Next
  <2>1. CASE RegisterFile
    BY <2>1, RegisterServe
  <2>2. ASSUME NEW ino \in DOMAIN ino_to_file, Open(ino) PROVE ServeInv'
    BY <2>2, OpenServe
  <2>3. ASSUME NEW ino \in DOMAIN ino_to_file, NEW range \in ReadRanges, ReadBegin(ino, range[1], range[2])
        PROVE ServeInv'
    BY <2>3, ReadBeginServe
  <2>4. CASE ReadBlock \/ PreadFails \/ ReadEnd \/ Readdir
    BY <2>4, ReadBlockServe, PreadFailsServe, ReadEndServe, ReaddirServe
  <2>5. CASE \/ \E object \in Objects, bytes \in Contents : ChangeContents(object, bytes)
             \/ \E r \in Replacements : Replace(r[1], r[2])
    BY <2>5, StorageServe
  <2>6. CASE \/ \E ino \in DOMAIN ino_to_file :
                  \/ Getattr(ino) \/ Readlink(ino) \/ OpenDir(ino)
                  \/ \E i \in DOMAIN Order : Lookup(ino, Order[i])
             \/ CloseDir
    BY <2>6, MetadataServe
  <2> QED
    BY <1>2, <2>1, <2>2, <2>3, <2>4, <2>5, <2>6, Zenon DEF Next
<1> QED
  BY <1>1, <1>2

(* The invariant holds in every reachable state.                            *)
LEMMA Serves == Spec => [](ServeInv /\ Opened)
<1>1. Init => ServeInv /\ Opened
  BY ServeInit DEF Init, Opened
<1> QED
  BY <1>1, ServeNext, PTL DEF Spec

(* For any recorded files, block size, caches and storage, which may change *)
(* before and within a request: a successful read returns recorded bytes,   *)
(* up to zeros at the end of a block, and readdir shows recorded names only *)
(* (read_file, readdir).                                                    *)
THEOREM ServesOnlyRecorded == Spec => []OnlyRecorded
<1>1. ServeInv => OnlyRecorded
  BY DEF ServeInv
<1> QED
  BY <1>1, Serves, PTL

-----------------------------------------------------------------------------
(* The second part: exact reads while nothing changes.                      *)

(* A recorded file and its node.                                            *)
LEMMA RecordedIs ==
    ASSUME Formatted, Table, NEW n, FileIno(n)
    PROVE  LET path == ino_to_file[n].path
           IN  /\ Recorded(n) \in Seq(Nat)
               /\ ino_to_file[n].tree = Level1(Recorded(n)) /\ ino_to_file[n].size = Len(Recorded(n))
               /\ path \in DOMAIN Tree /\ Tree[path].kind = "file" /\ Tree[path].object = path
               /\ (\A i \in DOMAIN FileInfos : data[FileInfos[i].path] = FileInfos[i].bytes)
                     => data[path] = Recorded(n)
<1>1. PICK i \in DOMAIN FileInfos :
         /\ FileInfos[i].bytes \in Seq(Nat)
         /\ ino_to_file[n].path = FileInfos[i].path
         /\ ino_to_file[n].size = Len(FileInfos[i].bytes)
         /\ ino_to_file[n].tree = Level1(FileInfos[i].bytes)
  BY FileIs
<1> DEFINE j == CHOOSE j \in DOMAIN FileInfos : FileInfos[j].path = ino_to_file[n].path
<1>2. j \in DOMAIN FileInfos /\ FileInfos[j].path = FileInfos[i].path
  BY <1>1
<1>3. Recorded(n) = FileInfos[j].bytes
  BY Zenon DEF Recorded
<1> HIDE DEF j
<1>4. j = i
  BY <1>2 DEF Formatted
<1> QED
  BY <1>1, <1>3, <1>4 DEF Formatted

(* A block of a file is accepted exactly when the file has it.              *)
LEMMA OwnBlock ==
    ASSUME NEW bytes \in Seq(Nat), NEW b \in Nat
    PROVE  LET raw == Slice(bytes, b * BlockSize, (b + 1) * BlockSize)
           IN  /\ raw \in Seq(Nat)
               /\ verify_data_block(Level1(bytes), b, raw) <=> b < DivCeil(Len(bytes), BlockSize)
<1> DEFINE raw == Slice(bytes, b * BlockSize, (b + 1) * BlockSize)
           m == b * BlockSize
<1>1. BlockSize \in Nat /\ m \in Nat /\ (b + 1) * BlockSize = m + BlockSize
  BY FuseAssumption
<1>2. /\ raw \in Seq(Nat)
      /\ Len(raw) = Most(Least((b + 1) * BlockSize, Len(bytes)) - m, 0)
  <2>1. b * BlockSize \in Nat /\ (b + 1) * BlockSize \in Int
    BY <1>1
  <2> QED
    BY <2>1, SliceIn
<1> HIDE DEF m
<1>3. Len(raw) <= BlockSize
  BY <1>1, <1>2 DEF Most, Least
<1>4. /\ DivCeil(Len(bytes), BlockSize) \in Nat
      /\ DOMAIN Level1(bytes) = 1 .. DivCeil(Len(bytes), BlockSize)
      /\ \A c \in DOMAIN Level1(bytes) :
           Level1(bytes)[c] = Pad(Slice(bytes, (c - 1) * BlockSize, c * BlockSize))
  BY LevelIs
<1>5. b + 1 \in DOMAIN Level1(bytes) <=> b < DivCeil(Len(bytes), BlockSize)
  BY <1>4
<1>6. b + 1 \in DOMAIN Level1(bytes) => Level1(bytes)[b + 1] = Pad(raw)
  <2>1. (b + 1) - 1 = b
    OBVIOUS
  <2> QED
    BY <1>4, <2>1
<1> HIDE DEF raw
<1>7. verify_data_block(Level1(bytes), b, raw) <=> b < DivCeil(Len(bytes), BlockSize)
  BY <1>3, <1>5, <1>6 DEF verify_data_block
<1> QED
  BY <1>2, <1>7, Zenon DEF raw

(* The place of an element in the second of two sequences.                  *)
LEMMA SecondPlace ==
    ASSUME NEW from \in Nat, NEW m \in Nat, NEW k \in Nat, NEW la \in Nat, NEW lp \in Nat, NEW lb \in Nat,
           NEW i \in 1 .. la + lp, i > la,
           lp > 0 => from + la = m + k /\ k + lp <= lb
    PROVE  \E j \in 1 .. lp : i = la + j /\ k + j \in 1 .. lb /\ m + (k + j) = from + i
<1>1. i - la \in 1 .. lp /\ i = la + (i - la) /\ lp > 0
  OBVIOUS
<1>2. k + (i - la) \in 1 .. lb /\ m + (k + (i - la)) = from + i
  BY <1>1
<1> QED
  BY <1>1, <1>2

(* The elements of a concatenation.                                         *)
LEMMA BothAre ==
    ASSUME NEW x \in Seq(Nat), NEW y \in Seq(Nat)
    PROVE  /\ x \o y \in Seq(Nat) /\ Len(x \o y) = Len(x) + Len(y)
           /\ \A i \in 1 .. Len(x) : (x \o y)[i] = x[i]
           /\ \A i \in 1 .. Len(y) : (x \o y)[Len(x) + i] = y[i]
OBVIOUS

(* The lesser of two integers is one.                                       *)
LEMMA LeastIn ==
    ASSUME NEW a \in Int, NEW b \in Int
    PROVE  Least(a, b) \in Int
BY DEF Least

(* A slice of bytes, with its length and its elements.                      *)
SliceOf(t, s, a, b) ==
    /\ t = Slice(s, a, b) /\ t \in Seq(Nat) /\ Len(t) \in Nat
    /\ Len(t) = Most(Least(b, Len(s)) - a, 0)
    /\ \A i \in 1 .. Len(t) : t[i] = s[a + i]

(* Every slice is one.                                                      *)
LEMMA SliceExists ==
    ASSUME NEW s \in Seq(Nat), NEW a \in Nat, NEW b \in Int
    PROVE  \E t : SliceOf(t, s, a, b)
<1>1. SliceOf(Slice(s, a, b), s, a, b)
  BY SliceIn DEF SliceOf
<1> QED
  BY <1>1

(* What the block of the bytes m to m + size adds to the range so far.      *)
Continued(s, from, to, m, size) ==
    LET block == Slice(s, m, m + size)
        piece == Slice(block, Most(from, m) - m, Least(Least(to, m + size) - m, Len(block)))
    IN  Slice(s, from, Least(m, to)) \o piece = Slice(s, from, Least(m + size, to))

(* The bytes of a range up to a block, and those of the block in the range, *)
(* are the bytes up to the next block.                                      *)
LEMMA NextPiece ==
    ASSUME NEW s \in Seq(Nat), NEW from \in Nat, NEW to \in Nat, from < to,
           NEW m \in Nat, NEW size \in Nat, m < to, from < m + size
    PROVE  Continued(s, from, to, m, size)
<1>1. Len(s) \in Nat /\ m \in Int /\ to \in Int /\ m + size \in Int
  OBVIOUS
<1>2. PICK k \in Nat : k = Most(from, m) - m
  BY DEF Most
<1>3. Least(m, to) \in Int /\ Least(m + size, to) \in Int /\ Least(to, m + size) \in Int
  BY <1>1, LeastIn, Zenon
<1>4. PICK block : SliceOf(block, s, m, m + size)
  BY <1>1, SliceExists, Zenon
<1>5. PICK before : SliceOf(before, s, from, Least(m, to))
  BY <1>3, SliceExists, Zenon
<1>6. PICK result : SliceOf(result, s, from, Least(m + size, to))
  BY <1>3, SliceExists, Zenon
<1>7. block \in Seq(Nat) /\ Len(block) \in Nat
  BY <1>4, Zenon DEF SliceOf
<1>8. PICK kb \in Int : kb = Least(Least(to, m + size) - m, Len(block))
  <2>1. Least(to, m + size) - m \in Int /\ Len(block) \in Int
    BY <1>1, <1>3, <1>7
  <2> QED
    BY <2>1, LeastIn, Zenon
<1>9. PICK piece : SliceOf(piece, block, k, kb)
  BY <1>7, SliceExists, Zenon
<1>10. PICK n \in Nat, la \in Nat, lb \in Nat, lp \in Nat, lr \in Nat :
         n = Len(s) /\ la = Len(before) /\ lb = Len(block) /\ lp = Len(piece) /\ lr = Len(result)
  BY <1>1, <1>4, <1>5, <1>6, <1>9, Zenon DEF SliceOf
<1>11. /\ lb = Most(Least(m + size, n) - m, 0) /\ la = Most(Least(Least(m, to), n) - from, 0)
       /\ lr = Most(Least(Least(m + size, to), n) - from, 0)
       /\ kb = Least(Least(to, m + size) - m, lb) /\ lp = Most(Least(kb, lb) - k, 0)
  BY <1>4, <1>5, <1>6, <1>8, <1>9, <1>10, Zenon DEF SliceOf
<1>12. la + lp = lr /\ (lp > 0 => from + la = m + k /\ k + lp <= lb)
  <2>1. PICK e \in Nat : /\ e = Least(m + size, to) /\ e = Least(to, m + size)
                         /\ from < e /\ m <= e /\ e <= m + size
    BY DEF Least
  <2>2. la = Most(Least(m, n) - from, 0)
    BY <1>11 DEF Least
  <2>3. lb = Most(Least(m + size, n) - m, 0) /\ kb = Least(e - m, lb)
    BY <1>11, <2>1, Zenon
  <2>4. kb = Most(Least(e, n) - m, 0) /\ kb <= lb
    <3>1. CASE n < m
      BY <2>1, <2>3, <3>1 DEF Most, Least
    <3>2. CASE m <= n
      <4>1. lb = Least(m + size, n) - m
        BY <2>3, <3>2 DEF Most, Least
      <4> QED
        BY <2>1, <2>3, <3>2, <4>1 DEF Most, Least
    <3> QED
      BY <3>1, <3>2
  <2>5. lp = Most(kb - k, 0)
    BY <1>11, <2>4 DEF Least
  <2>6. lr = Most(Least(e, n) - from, 0)
    BY <1>11, <2>1, Zenon
  <2>7. PICK c \in Nat : c = Least(e, n) /\ c <= n /\ c <= e /\ (m <= n => m <= c) /\ (n < m => c = n)
    BY <2>1 DEF Least
  <2>8. kb = Most(c - m, 0) /\ lr = Most(c - from, 0)
    BY <2>4, <2>6, <2>7, Zenon
  <2>9. CASE from < m
    <3>1. k = 0
      BY <1>2, <2>9 DEF Most
    <3>2. CASE n < m
      BY <2>2, <2>4, <2>5, <2>7, <2>8, <2>9, <3>1, <3>2 DEF Most, Least
    <3>3. CASE m <= n
      BY <2>2, <2>4, <2>5, <2>7, <2>8, <2>9, <3>1, <3>3 DEF Most, Least
    <3> QED
      BY <3>2, <3>3
  <2>10. CASE m <= from
    <3>1. k = from - m /\ la = 0
      BY <1>2, <2>2, <2>10 DEF Most, Least
    <3> QED
      BY <2>4, <2>5, <2>7, <2>8, <2>10, <3>1 DEF Most
  <2> QED
    BY <2>9, <2>10
<1>13. PICK both \in Seq(Nat) :
         /\ both = before \o piece /\ Len(both) = lr
         /\ \A i \in 1 .. la : both[i] = before[i]
         /\ \A i \in 1 .. lp : both[la + i] = piece[i]
  <2>1. before \in Seq(Nat) /\ piece \in Seq(Nat)
    BY <1>5, <1>9, Zenon DEF SliceOf
  <2>2. /\ before \o piece \in Seq(Nat) /\ Len(before \o piece) = Len(before) + Len(piece)
        /\ \A i \in 1 .. Len(before) : (before \o piece)[i] = before[i]
        /\ \A i \in 1 .. Len(piece) : (before \o piece)[Len(before) + i] = piece[i]
    BY <2>1, BothAre, Zenon
  <2>3. Len(before \o piece) = lr
    BY <1>10, <1>12, <2>2
  <2> QED
    BY <1>10, <2>2, <2>3, Zenon
<1>14. /\ \A i \in 1 .. la : before[i] = s[from + i]
       /\ \A i \in 1 .. lb : block[i] = s[m + i]
       /\ \A i \in 1 .. lp : piece[i] = block[k + i]
       /\ \A i \in 1 .. lr : result[i] = s[from + i]
  BY <1>4, <1>5, <1>6, <1>9, <1>10, Zenon DEF SliceOf
<1>15. ASSUME NEW i \in 1 .. lr PROVE both[i] = result[i]
  <2>1. CASE i \in 1 .. la
    BY <1>13, <1>14, <2>1, Zenon
  <2>2. CASE i > la
    <3>1. PICK j \in 1 .. lp : i = la + j /\ k + j \in 1 .. lb /\ m + (k + j) = from + i
      BY <1>12, <2>2, SecondPlace
    <3>2. both[i] = piece[j] /\ piece[j] = block[k + j] /\ block[k + j] = s[m + (k + j)]
      BY <1>13, <1>14, <3>1, Zenon
    <3> QED
      BY <1>14, <3>1, <3>2, Zenon
  <2>3. i \in 1 .. la \/ i > la
    OBVIOUS
  <2> QED
    BY <2>1, <2>2, <2>3
<1>16. both = result
  <2>1. result \in Seq(Nat) /\ Len(result) = Len(both) /\ \A i \in 1 .. Len(result) : both[i] = result[i]
    BY <1>6, <1>10, <1>13, <1>15, Zenon DEF SliceOf
  <2> QED
    BY <2>1, SameSeq, Zenon
<1> QED
  BY <1>2, <1>4, <1>5, <1>6, <1>8, <1>9, <1>13, <1>16, Zenon DEF SliceOf, Continued

(* The second invariant.                                                    *)
ExactInv == Unchanged /\ ReadExact

(* What the caches may hold depends on the table alone.                     *)
LEMMA OwnKept ==
    ASSUME Table, UNCHANGED verifier
    PROVE  UNCHANGED <<OwnHandles, OwnBlocks>> /\ \A n : Recorded(n)' = Recorded(n)
<1>1. UNCHANGED <<todo, path_to_ino, ino_to_file>> /\ UNCHANGED <<FileHandles, VerifiedBlocks>>
  BY TableKept DEF verifier
<1>2. ASSUME NEW n PROVE Recorded(n)' = Recorded(n)
  BY <1>1 DEF Recorded
<1>3. OwnHandles' = OwnHandles
  BY <1>1, Zenon DEF OwnHandles
<1>4. OwnBlocks' = OwnBlocks
  BY <1>1, Zenon DEF OwnBlocks, Recorded
<1> QED
  BY <1>2, <1>3, <1>4

(* The answer to a read that a step leaves alone.                           *)
LEMMA ExactKept ==
    ASSUME ReadExact, UNCHANGED <<reply, changes, ino_to_file>>
    PROVE  ReadExact'
BY DEF ReadExact, ReadOk, IsRead, ReadEndOf, Recorded

(* Other answers, and answers after a change.                               *)
LEMMA NotExact ==
    ASSUME reply'.op # "read" \/ changes' # 0
    PROVE  ReadExact'
BY DEF ReadExact, IsRead

(* A change of the storage ends it.                                         *)
LEMMA ChangeExact ==
    ASSUME ServeInv, changes' = changes + 1
    PROVE  ExactInv'
<1>1. changes' # 0
  BY DEF ServeInv, Stored
<1> QED
  BY <1>1, NotExact DEF ExactInv, Unchanged

(* It holds when the table is begun, and while files are registered.        *)
LEMMA ExactInit == Formatted /\ Init => ExactInv
<1> SUFFICES ASSUME Formatted, Init PROVE ExactInv
  OBVIOUS
<1>1. ASSUME NEW i \in DOMAIN FileInfos PROVE data[FileInfos[i].path] = FileInfos[i].bytes
  <2> DEFINE o == FileInfos[i].path
             j == CHOOSE j \in DOMAIN FileInfos : FileInfos[j].path = o
  <2>1. j \in DOMAIN FileInfos /\ FileInfos[j].path = o
    OBVIOUS
  <2>2. o \in Objects /\ data[o] = FileInfos[j].bytes
    BY DEF Init, Objects
  <2> HIDE DEF j
  <2>3. j = i
    BY <2>1 DEF Formatted
  <2> QED
    BY <2>2, <2>3
<1>2. ReadExact
  BY DEF Init, ReadExact, IsRead, Idle
<1>3. handle_cache \in Seq(OwnHandles) /\ block_cache \in Seq(OwnBlocks)
  BY DEF Init
<1> QED
  BY <1>1, <1>2, <1>3 DEF Init, ExactInv, Unchanged, Reading

(* Registering a file.                                                      *)
LEMMA RegisterExact ==
    ASSUME ServeInv, ExactInv, RegisterFile
    PROVE  ExactInv'
<1>1. /\ todo # <<>>
      /\ UNCHANGED <<source, data, changes, block_cache, handle_cache, request, reply>>
  BY DEF RegisterFile, storage, caches
<1>2. block_cache' = <<>> /\ handle_cache' = <<>> /\ request' = Idle /\ reply' = Idle
  BY <1>1 DEF ServeInv, Unserved
<1>3. handle_cache' \in Seq(OwnHandles') /\ block_cache' \in Seq(OwnBlocks')
  BY <1>2
<1>4. ReadExact'
  BY <1>2, NotExact DEF Idle
<1> QED
  BY <1>1, <1>2, <1>3, <1>4 DEF ExactInv, Unchanged, Reading

(* Steps that touch neither the storage, the caches nor a read.             *)
LEMMA OtherExact ==
    ASSUME ServeInv, ExactInv, UNCHANGED <<verifier, storage, caches, request>>,
           reply' = reply \/ reply'.op # "read"
    PROVE  ExactInv'
<1>1. UNCHANGED <<source, data, changes, block_cache, handle_cache, request, ino_to_file>>
  BY DEF verifier, storage, caches
<1>2. UNCHANGED <<OwnHandles, OwnBlocks>> /\ \A n : Recorded(n)' = Recorded(n)
  BY OwnKept DEF ServeInv
<1>3. ReadExact'
  BY <1>1, ExactKept, NotExact DEF ExactInv
<1>4. Unchanged'
  BY <1>1, <1>2 DEF ExactInv, Unchanged, Reading, ReadEndOf
<1> QED
  BY <1>3, <1>4 DEF ExactInv

(* The handle of a file is of that file.                                    *)
LEMMA HandleExact ==
    ASSUME Formatted, ServeInv, ExactInv, changes = 0, NEW ino, FileIno(ino)
    PROVE  /\ Openable(ino) /\ Handle(ino) = ino_to_file[ino].path
           /\ OpenFileCached(ino) => handle_cache' \in Seq(OwnHandles)
<1> DEFINE path == ino_to_file[ino].path
<1>1. handle_cache \in Seq(OwnHandles) /\ source = Tree
  BY DEF ExactInv, Unchanged
<1>2. path \in DOMAIN Tree /\ Tree[path].kind = "file" /\ Tree[path].object = path
  BY RecordedIs, Zenon DEF ServeInv
<1>3. NodeAt(ino_to_file[ino]) = Tree[path]
  BY <1>1, <1>2 DEF NodeAt
<1>4. CASE Holds(handle_cache, ino)
  <2>1. Entry(handle_cache, ino) \in OwnHandles /\ Entry(handle_cache, ino).key = ino
    BY <1>1, <1>4, EntryIn
  <2>2. Handle(ino) = path
    BY <1>4, <2>1 DEF Handle, OwnHandles
  <2>3. Touch(handle_cache, ino) \in Seq(OwnHandles)
    BY <1>1, <1>4, TouchIn
  <2> QED
    BY <1>4, <2>2, <2>3 DEF OpenFileCached, Openable
<1>5. CASE ~Holds(handle_cache, ino)
  <2>1. Handle(ino) = path /\ Openable(ino)
    BY <1>2, <1>3, <1>5 DEF Handle, Openable
  <2>2. [key |-> ino, data |-> Handle(ino)] \in OwnHandles
    <3>1. ino \in Nat /\ path \in Objects
      BY FileIs DEF ServeInv
    <3> QED
      BY <2>1, <3>1 DEF OwnHandles, FileHandles
  <2>3. Put(handle_cache, ino, Handle(ino), HandleCacheSize) \in Seq(OwnHandles)
    BY <1>1, <2>2, PutIn, FuseAssumption
  <2> QED
    BY <1>5, <2>1, <2>3 DEF OpenFileCached
<1> QED
  BY <1>4, <1>5

(* Opening a file.                                                          *)
LEMMA OpenExact ==
    ASSUME Formatted, ServeInv, ExactInv, NEW ino \in DOMAIN ino_to_file, Open(ino)
    PROVE  ExactInv'
<1>1. /\ UNCHANGED <<verifier, storage, block_cache, request>>
      /\ reply'.op = "open" /\ ino_to_file[ino].kind = "file" /\ OpenFileCached(ino)
  BY DEF Open, Reply
<1>2. UNCHANGED <<source, data, changes, ino_to_file>>
  BY <1>1 DEF verifier, storage
<1>3. UNCHANGED <<OwnHandles, OwnBlocks>> /\ \A n : Recorded(n)' = Recorded(n)
  BY <1>1, OwnKept DEF ServeInv
<1>4. ReadExact'
  BY <1>1, NotExact
<1>5. changes = 0 => handle_cache' \in Seq(OwnHandles)
  BY <1>1, KindIs, HandleExact DEF ServeInv
<1>6. Unchanged'
  BY <1>1, <1>2, <1>3, <1>5 DEF ExactInv, Unchanged, Reading, ReadEndOf
<1> QED
  BY <1>4, <1>6 DEF ExactInv

(* A read is accepted: nothing of its range lies before its first block.    *)
LEMMA ReadBeginExact ==
    ASSUME Formatted, ServeInv, ExactInv, NEW ino \in DOMAIN ino_to_file, NEW range \in ReadRanges,
           ReadBegin(ino, range[1], range[2])
    PROVE  ExactInv'
<1> DEFINE offset == range[1]
           size == range[2]
<1>1. offset \in Int /\ size \in Nat
  BY FuseAssumption
<1>2. request = Idle /\ UNCHANGED <<verifier, storage, block_cache>>
  BY DEF ReadBegin, Serving
<1>3. UNCHANGED <<source, data, changes, block_cache, ino_to_file>>
  BY <1>2 DEF verifier, storage
<1>4. UNCHANGED <<OwnHandles, OwnBlocks>> /\ \A n : Recorded(n)' = Recorded(n)
  BY <1>2, OwnKept DEF ServeInv
<1> SUFFICES ASSUME changes = 0 PROVE ExactInv'
  BY <1>3 DEF ExactInv, Unchanged, ReadExact
<1> DEFINE started == /\ ~(offset < 0) /\ size # 0 /\ ino_to_file[ino].kind # "dir" /\ OpenFileCached(ino)
                      /\ request' = [op |-> "read", ino |-> ino, offset |-> offset, size |-> size,
                                     block |-> offset \div BlockSize, handle |-> Handle(ino),
                                     output |-> <<>>]
                      /\ UNCHANGED reply
           empty == /\ size = 0 /\ ReadReply(ino, offset, size, <<>>)
                    /\ UNCHANGED <<request, handle_cache>>
           refused == /\ offset < 0 \/ ino_to_file[ino].kind = "dir"
                      /\ \E e : ReadError(ino, offset, size, e)
                      /\ UNCHANGED <<request, handle_cache>>
           unopened == ino_to_file[ino].kind # "dir" /\ ~Openable(ino)
<1>5. started \/ empty \/ refused \/ unopened
  BY Zenon DEF ReadBegin
<1>6. CASE unopened
  BY <1>6, KindIs, HandleExact DEF ServeInv
<1>7. CASE empty \/ refused
  <2>1. ReadExact'
    <3>1. CASE empty
      BY <1>1, <3>1 DEF ReadReply, Reply, ReadExact
    <3>2. CASE refused
      <4>1. PICK e : ReadError(ino, offset, size, e)
        BY <3>2
      <4>2. reply'.ino = ino /\ reply'.result.offset = offset
        BY <4>1 DEF ReadError, Reply
      <4>3. offset < 0 => ~(offset >= 0)
        BY <1>1
      <4>4. ~IsRead'
        BY <1>3, <3>2, <4>2, <4>3 DEF IsRead
      <4> QED
        BY <4>4 DEF ReadExact
    <3> QED
      BY <1>7, <3>1, <3>2
  <2>2. UNCHANGED <<request, handle_cache>>
    BY <1>7
  <2>3. Unchanged'
    BY <1>3, <1>4, <2>2 DEF ExactInv, Unchanged, Reading, ReadEndOf
  <2> QED
    BY <2>1, <2>3 DEF ExactInv
<1>8. CASE started
  <2>1. FileIno(ino)
    BY <1>8, KindIs DEF ServeInv
  <2>2. Handle(ino) = ino_to_file[ino].path /\ handle_cache' \in Seq(OwnHandles)
    BY <1>8, <2>1, HandleExact
  <2>3. ReadExact'
    BY <1>3, <1>8, ExactKept DEF ExactInv
  <2>4. Slice(Recorded(ino), offset, Least((offset \div BlockSize) * BlockSize, offset + size)) = <<>>
    <3> DEFINE bytes == Recorded(ino)
               m == (offset \div BlockSize) * BlockSize
    <3>1. bytes \in Seq(Nat)
      BY <2>1, RecordedIs, Zenon DEF ServeInv
    <3>0. ~(offset < 0) /\ size # 0 /\ offset \in Int /\ size \in Nat
      BY <1>1, <1>8, Zenon
    <3> HIDE DEF offset, size, bytes
    <3>2. offset \in Nat /\ size \in Nat \ {0} /\ offset + size \in Nat /\ offset < offset + size
      BY <3>0
    <3>3. m \in Nat /\ m <= offset
      <4>1. BlockSize \in Nat \ {0}
        BY FuseAssumption
      <4>2. /\ offset \div BlockSize \in Nat /\ BlockSize * (offset \div BlockSize) <= offset
        BY <3>2, <4>1, Quotient
      <4> QED
        BY <3>2, <4>1, <4>2
    <3> HIDE DEF m
    <3>4. Least(m, offset + size) \in Int /\ Least(Least(m, offset + size), Len(bytes)) - offset <= 0
          /\ Least(Least(m, offset + size), Len(bytes)) \in Int
      BY <3>1, <3>2, <3>3 DEF Least
    <3>5. Most(Least(Least(m, offset + size), Len(bytes)) - offset, 0) = 0
      BY <3>2, <3>4 DEF Most
    <3>6. /\ Slice(bytes, offset, Least(m, offset + size)) \in Seq(Nat)
          /\ Len(Slice(bytes, offset, Least(m, offset + size))) = 0
      BY <3>1, <3>2, <3>4, <3>5, SliceIn, Zenon
    <3> QED
      BY <3>6 DEF bytes, m
  <2>5. /\ request'.ino = ino /\ request'.offset = offset /\ request'.size = size
        /\ request'.block = offset \div BlockSize /\ request'.handle = Handle(ino)
        /\ request'.output = <<>>
    BY <1>8
  <2>6. Unchanged'
    <3>1. ReadEndOf(request)' = offset + size
      BY <2>5 DEF ReadEndOf
    <3>2. Recorded(request.ino)' = Recorded(ino)
      BY <1>3, <2>5 DEF Recorded
    <3> HIDE DEF offset, size, started
    <3> QED
      BY <1>3, <1>4, <2>2, <2>4, <2>5, <3>1, <3>2 DEF ExactInv, Unchanged
  <2> QED
    BY <2>3, <2>6 DEF ExactInv
<1> QED
  BY <1>5, <1>6, <1>7, <1>8

(* The block just read continues the range.                                 *)
LEMMA ExtendExact ==
    ASSUME Formatted, ServeInv, ExactInv, changes = 0, Reading, request.block < EndBlock,
           NEW block, Extend(block), UNCHANGED <<ino_to_file>>,
           block = Slice(Recorded(request.ino), request.block * BlockSize,
                         (request.block + 1) * BlockSize)
    PROVE  /\ request'.handle = ino_to_file'[request'.ino].path
           /\ request'.output = Slice(Recorded(request.ino)', request'.offset,
                                      Least(request'.block * BlockSize, ReadEndOf(request)'))
<1> DEFINE s == Recorded(request.ino)
           b == request.block
           from == request.offset
           to == ReadEndOf(request)
           m == b * BlockSize
           piece == Slice(block, Most(from, m) - m, Least(Least(to, m + BlockSize) - m, Len(block)))
<1>1. /\ b \in Nat /\ from \in Nat /\ to \in Nat /\ from < to /\ FileIno(request.ino)
      /\ EndBlock = DivCeil(to, BlockSize) /\ EndBlock \in Nat /\ from \div BlockSize \in Nat
      /\ from \div BlockSize <= b
  BY RequestIs
<1>2. s \in Seq(Nat)
  BY <1>1, RecordedIs, Zenon DEF ServeInv
<1>3. request.handle = ino_to_file[request.ino].path /\ request.output = Slice(s, from, Least(m, to))
  BY DEF ExactInv, Unchanged
<1>4. Overlap(block) = piece
  BY Zenon DEF Overlap, ReadEndOf
<1>5. b < EndBlock
  OBVIOUS
<1> HIDE DEF s, b, from, to
<1>6. BlockSize \in Nat \ {0} /\ m \in Nat /\ (b + 1) * BlockSize = m + BlockSize
  BY <1>1, Times, Zenon
<1>7. /\ BlockSize * (from \div BlockSize) \in Nat /\ BlockSize * EndBlock \in Nat
      /\ from < BlockSize * (from \div BlockSize) + BlockSize
      /\ BlockSize * EndBlock < to + BlockSize
  <2>1. from < BlockSize * (from \div BlockSize) + BlockSize
        /\ BlockSize * DivCeil(to, BlockSize) < to + BlockSize
    BY <1>1, RangeIs, Zenon
  <2> QED
    BY <1>1, <2>1, Times, Zenon
<1>8. BlockSize * (from \div BlockSize) <= m /\ m + BlockSize <= BlockSize * EndBlock
  <2>1. BlockSize * (from \div BlockSize) <= BlockSize * b /\ BlockSize * b = m
    BY <1>1, <1>6
  <2>2. PICK d \in Nat : EndBlock = b + 1 + d
    <3>1. EndBlock - (b + 1) \in Nat /\ EndBlock = b + 1 + (EndBlock - (b + 1))
      BY <1>1, <1>5
    <3> QED
      BY <3>1
  <2>3. BlockSize * (b + 1 + d) = m + BlockSize + BlockSize * d /\ BlockSize * d \in Nat
    BY <1>1, <1>6, <2>2
  <2> QED
    BY <1>6, <2>1, <2>2, <2>3
<1>9. m < to /\ from < m + BlockSize
  BY <1>1, <1>6, <1>7, <1>8
<1>10. block = Slice(s, m, m + BlockSize)
  BY <1>6, Zenon DEF s, b
<1> HIDE DEF m
<1>11. Slice(s, from, Least(m, to)) \o piece = Slice(s, from, Least(m + BlockSize, to))
  <2>1. Continued(s, from, to, m, BlockSize)
    <3>1. BlockSize \in Nat
      BY FuseAssumption
    <3> QED
      BY <1>1, <1>2, <1>6, <1>9, <3>1, NextPiece, Zenon
  <2> QED
    BY <1>10, <2>1, Zenon DEF Continued
<1>12. piece \in Seq(Nat)
  <2>1. block \in Seq(Nat) /\ Len(block) \in Nat
    BY <1>2, <1>6, <1>10, SliceIn
  <2>2. Most(from, m) - m \in Nat /\ Least(Least(to, m + BlockSize) - m, Len(block)) \in Int
    BY <1>1, <1>6, <2>1 DEF Most, Least
  <2> QED
    BY <2>1, <2>2, SliceIn
<1> HIDE DEF piece
<1>13. /\ request'.ino = request.ino /\ request'.offset = from /\ request'.size = request.size
       /\ request'.handle = request.handle /\ request'.block = b + 1
       /\ request'.output = request.output \o piece
  BY <1>4, <1>12, Extended DEF b, from
<1>14. ReadEndOf(request)' = to /\ Recorded(request.ino)' = s
  BY <1>13, Zenon DEF ReadEndOf, Recorded, to, s, from
<1> QED
  BY <1>3, <1>6, <1>11, <1>13, <1>14, Zenon

(* A block is read from the cache or from the storage; one past the last    *)
(* of the file ends the read with an error.                                 *)
LEMMA ReadBlockExact ==
    ASSUME Formatted, ServeInv, ExactInv, ReadBlock
    PROVE  ExactInv'
<1> DEFINE key == BlockKey(request.ino, request.block)
           raw == Pread(request.handle, request.block)
           tree == ino_to_file[request.ino].tree
           s == Recorded(request.ino)
           own == Slice(s, request.block * BlockSize, (request.block + 1) * BlockSize)
<1>1. /\ Reading /\ request.block < EndBlock
      /\ UNCHANGED <<verifier, storage, handle_cache, listing>>
  BY DEF ReadBlock
<1>2. UNCHANGED <<source, data, changes, handle_cache, ino_to_file>>
  BY <1>1 DEF verifier, storage
<1>3. UNCHANGED <<OwnHandles, OwnBlocks>> /\ \A n : Recorded(n)' = Recorded(n)
  BY <1>1, OwnKept DEF ServeInv
<1> SUFFICES ASSUME changes = 0 PROVE ExactInv'
  BY <1>2 DEF ExactInv, Unchanged, ReadExact
<1>4. /\ FileIno(request.ino) /\ request.ino \in Nat /\ request.block \in Nat
      /\ EndBlock = DivCeil(ReadEndOf(request), BlockSize) /\ EndBlock \in Nat
  BY <1>1, RequestIs
<1>5. /\ block_cache \in Seq(OwnBlocks) /\ request.handle = ino_to_file[request.ino].path
      /\ \A i \in DOMAIN FileInfos : data[FileInfos[i].path] = FileInfos[i].bytes
  BY <1>1 DEF ExactInv, Unchanged
<1>6. s \in Seq(Nat) /\ tree = Level1(s) /\ data[ino_to_file[request.ino].path] = s
  BY <1>4, <1>5, RecordedIs, Zenon DEF ServeInv
<1>7. raw = own
  BY <1>5, <1>6, Zenon DEF Pread
<1>8. own \in Seq(Nat) /\ (verify_data_block(tree, request.block, own) <=> request.block < DivCeil(Len(s), BlockSize))
  <2> HIDE DEF s, tree
  <2>1. verify_data_block(Level1(s), request.block, own) <=> request.block < DivCeil(Len(s), BlockSize)
    BY <1>4, <1>6, OwnBlock, Zenon
  <2> QED
    BY <1>4, <1>6, <2>1, OwnBlock, Zenon
<1>9. key \in Nat \X Nat /\ key[1] = request.ino /\ key[2] = request.block
  BY <1>4 DEF BlockKey
<1>10. ASSUME Extend(own), block_cache' \in Seq(OwnBlocks), UNCHANGED reply
       PROVE  ExactInv'
  <2>1. /\ request'.handle = ino_to_file'[request'.ino].path
        /\ request'.output = Slice(Recorded(request.ino)', request'.offset,
                                   Least(request'.block * BlockSize, ReadEndOf(request)'))
    BY <1>1, <1>2, <1>10, ExtendExact
  <2>2. ReadExact'
    BY <1>2, <1>10, ExactKept DEF ExactInv
  <2>3. Unchanged'
    BY <1>2, <1>3, <1>10, <2>1 DEF ExactInv, Unchanged
  <2> QED
    BY <2>2, <2>3 DEF ExactInv
<1>11. CASE /\ Holds(block_cache, key) /\ block_cache' = Touch(block_cache, key)
            /\ Extend(Entry(block_cache, key).data) /\ UNCHANGED reply
  <2>1. Entry(block_cache, key) \in OwnBlocks /\ Entry(block_cache, key).key = key
    BY <1>5, <1>11, EntryIn
  <2>2. Entry(block_cache, key).data = own
    BY <1>9, <2>1, Zenon DEF OwnBlocks
  <2>3. block_cache' \in Seq(OwnBlocks)
    BY <1>5, <1>11, TouchIn
  <2> QED
    BY <1>10, <1>11, <2>2, <2>3, Zenon
<1>12. CASE /\ ~Holds(block_cache, key) /\ verify_data_block(tree, request.block, raw)
            /\ block_cache' = Put(block_cache, key, raw, BlockCacheSize)
            /\ Extend(raw) /\ UNCHANGED reply
  <2>1. [key |-> key, data |-> raw] \in OwnBlocks
    <3>1. raw \in Seq(Nat) /\ raw = Slice(Recorded(key[1]), key[2] * BlockSize, (key[2] + 1) * BlockSize)
          /\ FileIno(key[1]) /\ verify_data_block(ino_to_file[key[1]].tree, key[2], raw)
      BY <1>4, <1>7, <1>8, <1>9, <1>12, Zenon
    <3> HIDE DEF key, raw
    <3> QED
      BY <1>9, <3>1 DEF OwnBlocks, VerifiedBlocks
  <2>2. block_cache' \in Seq(OwnBlocks)
    BY <1>5, <1>12, <2>1, PutIn, FuseAssumption
  <2> QED
    BY <1>7, <1>10, <1>12, <2>2, Zenon
<1>13. CASE ~verify_data_block(tree, request.block, raw) /\ ReadFails /\ UNCHANGED block_cache
  <2>1. ~(request.block < DivCeil(Len(s), BlockSize))
    BY <1>7, <1>8, <1>13, Zenon
  <2>2. ~(EndBlock <= DivCeil(Len(s), BlockSize))
    <3>1. DivCeil(Len(s), BlockSize) \in Nat
      BY <1>6, LevelIs
    <3> HIDE DEF s
    <3> QED
      BY <1>1, <1>4, <2>1, <3>1
  <2>3. /\ reply' = [op |-> "read", ino |-> request.ino,
                     result |-> [offset |-> request.offset, size |-> request.size, error |-> "EIO"]]
        /\ request' = Idle
    BY <1>13 DEF ReadFails, ReadError, Reply
  <2>4. /\ "bytes" \notin DOMAIN (reply'.result) /\ reply'.ino = request.ino
        /\ ReadEndOf(reply.result)' = ReadEndOf(request)
    BY <2>3 DEF ReadEndOf
  <2>5. ReadExact'
    BY <1>3, <1>4, <2>2, <2>4 DEF ReadExact, ReadOk
  <2>6. Unchanged'
    BY <1>2, <1>3, <1>13, <2>3 DEF ExactInv, Unchanged, Reading
  <2> QED
    BY <2>5, <2>6 DEF ExactInv
<1> QED
  BY <1>11, <1>12, <1>13, Zenon DEF ReadBlock

(* The answer of a read that got all its blocks.                            *)
LEMMA ReadEndExact ==
    ASSUME Formatted, ServeInv, ExactInv, ReadEnd
    PROVE  ExactInv'
<1> DEFINE from == request.offset
           to == ReadEndOf(request)
           tree == ino_to_file[request.ino].tree
           s == Recorded(request.ino)
<1>1. /\ Reading /\ request.block = EndBlock /\ request' = Idle
      /\ UNCHANGED <<verifier, storage, caches, listing>>
      /\ reply' = [op |-> "read", ino |-> request.ino,
                   result |-> [offset |-> from, size |-> request.size, bytes |-> request.output]]
  BY DEF ReadEnd, ReadReply, Reply
<1>2. UNCHANGED <<ino_to_file, source, data, changes, block_cache, handle_cache>>
  BY <1>1 DEF verifier, caches, storage
<1>3. UNCHANGED <<OwnHandles, OwnBlocks>> /\ \A n : Recorded(n)' = Recorded(n)
  BY <1>1, OwnKept DEF ServeInv
<1> SUFFICES ASSUME changes = 0 PROVE ExactInv'
  BY <1>2 DEF ExactInv, Unchanged, ReadExact
<1>4. /\ from \in Nat /\ to \in Nat /\ from < to /\ FileIno(request.ino)
      /\ EndBlock = DivCeil(to, BlockSize) /\ EndBlock \in Nat
      /\ Collected(tree, from, to, DivCeil(to, BlockSize), request.output)
  BY <1>1, RequestIs
<1>5. s \in Seq(Nat) /\ tree = Level1(s)
  BY <1>4, RecordedIs, Zenon DEF ServeInv
<1>6. request.output = Slice(s, from, Least(EndBlock * BlockSize, to))
  BY <1>1 DEF ExactInv, Unchanged
<1>7. /\ reply'.ino = request.ino /\ reply'.result.offset = from /\ ReadEndOf(reply.result)' = to
      /\ reply'.result.bytes = request.output /\ "bytes" \in DOMAIN (reply'.result)
  BY <1>1 DEF ReadEndOf
<1>8. Unchanged'
  BY <1>1, <1>2, <1>3 DEF ExactInv, Unchanged, Reading
<1>9. IsAssembled(tree, from, to, request.output)
  <2> HIDE DEF from, to, tree
  <2> QED
    BY <1>4, CollectEnd
<1> HIDE DEF from, to, tree, s
<1>10. Least(EndBlock * BlockSize, to) = to
  <2>1. BlockSize \in Nat /\ to <= BlockSize * DivCeil(to, BlockSize)
    BY <1>4, RangeIs
  <2>2. EndBlock * BlockSize = BlockSize * EndBlock /\ BlockSize * EndBlock \in Nat
    BY <1>4, <2>1
  <2> QED
    BY <1>4, <2>1, <2>2 DEF Least
<1>11. DivCeil(to, BlockSize) <= DivCeil(Len(s), BlockSize)
  <2> DEFINE last == DivCeil(to, BlockSize)
             b == last - 1
  <2>1. /\ last \in Nat /\ from \div BlockSize \in Nat /\ from \div BlockSize < last
    BY <1>4, RangeIs
  <2>2. b \in Blocks(from, to)
    <3>1. Blocks(from, to) = from \div BlockSize .. last - 1
      BY DEF Blocks
    <3> HIDE DEF last
    <3> QED
      BY <2>1, <3>1
  <2>3. b + 1 \in DOMAIN tree
    BY <1>9, <2>2, Zenon DEF IsAssembled
  <2>4. DOMAIN tree = 1 .. DivCeil(Len(s), BlockSize) /\ DivCeil(Len(s), BlockSize) \in Nat
    BY <1>5, LevelIs
  <2> HIDE DEF last
  <2> QED
    BY <2>1, <2>3, <2>4 DEF last
<1>12. Recorded(reply.ino)' = s
  BY <1>2, <1>7 DEF Recorded, s
<1>13. ReadExact'
  BY <1>6, <1>7, <1>10, <1>11, <1>12, Zenon DEF ReadExact, ReadOk
<1> QED
  BY <1>8, <1>13 DEF ExactInv

(* Every step keeps it.                                                     *)
LEMMA ExactNext == Formatted /\ ServeInv /\ ExactInv /\ [Next]_vars => ExactInv'
<1> SUFFICES ASSUME Formatted, ServeInv, ExactInv, [Next]_vars PROVE ExactInv'
  OBVIOUS
<1>1. CASE UNCHANGED vars
  <2>1. UNCHANGED <<verifier, storage, caches, request, reply>>
    BY <1>1 DEF vars
  <2> QED
    BY <2>1, OtherExact
<1>2. CASE Next
  <2>1. CASE RegisterFile
    BY <2>1, RegisterExact
  <2>2. ASSUME NEW ino \in DOMAIN ino_to_file, Open(ino) PROVE ExactInv'
    BY <2>2, OpenExact
  <2>3. ASSUME NEW ino \in DOMAIN ino_to_file, NEW range \in ReadRanges, ReadBegin(ino, range[1], range[2])
        PROVE ExactInv'
    BY <2>3, ReadBeginExact
  <2>4. CASE ReadBlock
    BY <2>4, ReadBlockExact
  <2>5. CASE ReadEnd
    BY <2>5, ReadEndExact
  <2>6. CASE \/ PreadFails
             \/ \E object \in Objects, bytes \in Contents : ChangeContents(object, bytes)
             \/ \E r \in Replacements : Replace(r[1], r[2])
    <3>1. changes' = changes + 1
      BY <2>6 DEF PreadFails, ChangeContents, Replace
    <3> QED
      BY <3>1, ChangeExact
  <2>7. CASE \/ \E ino \in DOMAIN ino_to_file :
                  \/ Getattr(ino) \/ Readlink(ino) \/ OpenDir(ino)
                  \/ \E i \in DOMAIN Order : Lookup(ino, Order[i])
             \/ Readdir \/ CloseDir
    <3>1. UNCHANGED <<verifier, storage, caches, request>> /\ (reply' = reply \/ reply'.op # "read")
      <4>1. ASSUME NEW ino, Getattr(ino) \/ Readlink(ino) \/ OpenDir(ino)
            PROVE  UNCHANGED <<verifier, storage, caches, request>> /\ (reply' = reply \/ reply'.op # "read")
        BY <4>1 DEF Getattr, Readlink, OpenDir, Reply
      <4>2. ASSUME NEW ino, NEW name, Lookup(ino, name)
            PROVE  UNCHANGED <<verifier, storage, caches, request>> /\ (reply' = reply \/ reply'.op # "read")
        BY <4>2 DEF Lookup, Reply
      <4>3. ASSUME Readdir \/ CloseDir
            PROVE  UNCHANGED <<verifier, storage, caches, request>> /\ (reply' = reply \/ reply'.op # "read")
        BY <4>3 DEF Readdir, CloseDir, Reply
      <4> QED
        BY <2>7, <4>1, <4>2, <4>3, Zenon
    <3> QED
      BY <3>1, OtherExact
  <2> QED
    BY <1>2, <2>1, <2>2, <2>3, <2>4, <2>5, <2>6, <2>7, Zenon DEF Next
<1> QED
  BY <1>1, <1>2

(* The second invariant holds in every reachable state.                     *)
LEMMA Exact == Formatted => (Spec => []ExactInv)
<1> SUFFICES ASSUME Formatted PROVE Spec => []ExactInv
  OBVIOUS
<1>1. Init => ExactInv
  BY ExactInit
<1>2. ServeInv /\ ExactInv /\ [Next]_vars => ExactInv'
  BY ExactNext
<1> QED
  BY <1>1, <1>2, Serves, PTL DEF Spec

(* For any recorded files, block size, cache sizes and read range, while    *)
(* nothing changes below: a read within the blocks of its file succeeds     *)
(* with exactly the recorded bytes of the range, whatever the caches hold   *)
(* or have evicted, and one that needs a block past the last is refused     *)
(* (read_file). Formatted is what format leaves: every recorded path once,  *)
(* a regular file below directories.                                        *)
THEOREM ReadsExact == Formatted => (Spec => []ReadExact)
<1>1. ExactInv => ReadExact
  BY DEF ExactInv
<1> QED
  BY <1>1, Exact, PTL

-----------------------------------------------------------------------------
(* The last part: directory streams.                                        *)

(* A reply holds a whole directory.                                         *)
OnePage == Len(Order) + 2 <= PageSize

(* The entries depend on the table and the storage alone.                   *)
LEMMA EntriesKept ==
    ASSUME UNCHANGED <<verifier, storage>>
    PROVE  \A dir, offset : DirEntries(dir, offset)' = DirEntries(dir, offset)
BY Zenon DEF DirEntries, Shown, Child, SizeMatches, NodeSize, verifier, storage

(* A stream that a step leaves alone.                                       *)
LEMMA StreamKept ==
    ASSUME Streamed, listing' = listing, UNCHANGED <<verifier, storage>>
    PROVE  Streamed'
<1>1. UNCHANGED <<ino_to_file, changes>>
  BY DEF verifier, storage
<1> QED
  BY <1>1, EntriesKept DEF Streamed, NothingListed, AllListed

(* The first reply has every entry and the second one has none.             *)
LEMMA ReaddirStream ==
    ASSUME OnePage, Opened, Streamed, Readdir
    PROVE  Streamed'
<1> DEFINE dir == ino_to_file[listing.ino]
           all == DirEntries(dir, 0)
           page == Slice(DirEntries(dir, listing.offset), listing.offset, listing.offset + PageSize)
<1>1. /\ listing # NoListing /\ listing.op = "open" /\ UNCHANGED <<verifier, storage>>
  BY DEF Readdir
<1>2. UNCHANGED <<ino_to_file, changes>>
  BY <1>1 DEF verifier, storage
<1>3. /\ DOMAIN listing = {"op", "ino", "offset", "names", "again"}
      /\ listing.ino \in DOMAIN ino_to_file /\ listing.offset \in Nat
  BY <1>1 DEF Opened
<1> SUFFICES ASSUME changes = 0 PROVE Streamed'
  BY <1>2 DEF Streamed
<1>4. NothingListed(listing) \/ AllListed(listing)
  BY <1>1 DEF Streamed
<1>5. PageSize \in Nat /\ Len(Order) \in Nat
  BY FuseAssumption
<1> DEFINE named == Within(Order, Visible(dir))
<1>6. /\ Len(named) <= Len(Order) /\ Len(named) \in Nat /\ named \in Seq(Elements(Order))
      /\ all \in Seq(Elements(Order) \cup {".", ".."}) /\ Len(all) = Len(named) + 2
  <2>1. 0 \in Nat
    OBVIOUS
  <2> QED
    BY <2>1, EntriesAre, Zenon
<1>7. \A d, offset : DirEntries(d, offset)' = DirEntries(d, offset)
  BY <1>1, EntriesKept
<1>8. ASSUME NEW op \in {"failed", "done"}, listing' = [listing EXCEPT !.op = op],
             op = "done" => AllListed(listing)
      PROVE  Streamed'
  <2>1. /\ listing'.op = op /\ listing'.ino = listing.ino /\ listing'.offset = listing.offset
        /\ listing'.names = listing.names /\ listing'.again = listing.again
    BY <1>3, <1>8, Zenon
  <2>2. AllListed(listing) => AllListed(listing)'
    BY <1>2, <1>7, <1>8, <2>1 DEF AllListed
  <2>3. NothingListed(listing) => (op = "failed" /\ NothingListed(listing)') \/ AllListed(listing)
    BY <1>8, <2>1 DEF NothingListed
  <2> QED
    BY <1>2, <1>3, <1>4, <2>1, <2>2, <2>3 DEF Streamed
<1>9. CASE NothingListed(listing)
  <2>1. listing.offset = 0 /\ listing.names = {} /\ listing.again = FALSE
    BY <1>9 DEF NothingListed
  <2>2. page = all
    <3>1. 0 + PageSize = PageSize /\ PageSize \in Int /\ Least(PageSize, Len(all)) = Len(all) /\ Len(all) \in Nat
      BY <1>5, <1>6 DEF OnePage, Least
    <3>2. page = SubSeq(all, 0 + 1, Len(all))
      BY <2>1, <3>1, Zenon DEF Slice
    <3> HIDE DEF all, page
    <3> QED
      BY <1>6, <3>1, <3>2
  <2>3. page # <<>>
    <3> HIDE DEF all, page
    <3> QED
      BY <1>6, <2>2
  <2> DEFINE names == listing.names \cup Elements(page)
             again == listing.again \/ Elements(page) \cap listing.names # {}
             offset == listing.offset + Len(page)
  <2>4. \/ listing' = [listing EXCEPT !.op = "failed"]
        \/ listing' = [[[listing EXCEPT !.names = names] EXCEPT !.again = again] EXCEPT !.offset = offset]
    <3> HIDE DEF page, names, again, offset
    <3> QED
      BY <2>3, Zenon DEF Readdir, Cookie, page, names, again, offset
  <2>5. CASE listing' = [listing EXCEPT !.op = "failed"]
    BY <1>8, <2>5
  <2>6. CASE listing' = [[[listing EXCEPT !.names = names] EXCEPT !.again = again] EXCEPT !.offset = offset]
    <3>1. names = Elements(all) /\ again = FALSE /\ offset = Len(all)
      <4>1. again = FALSE
        BY <2>1, Zenon
      <4> HIDE DEF all, page
      <4> QED
        BY <1>6, <2>1, <2>2, <4>1
    <3> HIDE DEF names, again, offset
    <3>2. /\ listing'.op = listing.op /\ listing'.ino = listing.ino /\ listing'.offset = offset
          /\ listing'.names = names /\ listing'.again = again
      BY <1>3, <2>6, Zenon
    <3>3. AllListed(listing)'
      BY <1>1, <1>2, <1>7, <3>1, <3>2 DEF AllListed
    <3> QED
      BY <1>2, <1>3, <3>2, <3>3 DEF Streamed
  <2> QED
    BY <2>4, <2>5, <2>6
<1>10. CASE AllListed(listing)
  <2>1. listing.offset = Len(all)
    BY <1>10 DEF AllListed
  <2>2. DirEntries(dir, listing.offset) = named
    <3>1. listing.offset >= 2
      <4> HIDE DEF all, named
      <4> QED
        BY <1>6, <2>1
    <3> QED
      BY <1>3, <3>1, EntriesAre, Zenon
  <2>3. page = <<>>
    <3> HIDE DEF all, named
    <3>1. /\ page \in Seq(Elements(Order))
          /\ Len(page) = Most(Least(listing.offset + PageSize, Len(named)) - listing.offset, 0)
      <4>1. listing.offset + PageSize \in Int
        BY <1>3, <1>5
      <4>2. page = Slice(named, listing.offset, listing.offset + PageSize)
        BY <2>2, Zenon
      <4> HIDE DEF page
      <4> QED
        BY <1>3, <1>6, <4>1, <4>2, SliceIn
    <3> HIDE DEF page
    <3>2. Len(page) = 0
      BY <1>3, <1>5, <1>6, <2>1, <3>1 DEF Most, Least
    <3> QED
      BY <3>1, <3>2
  <2>4. \E op \in {"failed", "done"} : listing' = [listing EXCEPT !.op = op]
    <3>1. listing' = [listing EXCEPT !.op = "failed"] \/ listing' = [listing EXCEPT !.op = "done"]
      <4> HIDE DEF page
      <4> QED
        BY <2>3, Zenon DEF Readdir, page
    <3> QED
      BY <3>1
  <2> QED
    BY <1>8, <1>10, <2>4
<1> QED
  BY <1>4, <1>9, <1>10

(* Every step keeps the stream whole.                                       *)
LEMMA StreamNext == OnePage /\ ServeInv /\ Opened /\ Streamed /\ [Next]_vars => Streamed'
<1> SUFFICES ASSUME OnePage, ServeInv, Opened, Streamed, [Next]_vars PROVE Streamed'
  OBVIOUS
<1>1. CASE listing' = listing /\ UNCHANGED <<verifier, storage>>
  BY <1>1, StreamKept
<1>2. CASE RegisterFile
  <2>1. listing' = NoListing
    BY <1>2 DEF RegisterFile, ServeInv, Unserved
  <2> QED
    BY <2>1 DEF Streamed
<1>3. CASE \E ino \in DOMAIN ino_to_file : OpenDir(ino)
  <2>1. PICK ino \in DOMAIN ino_to_file : OpenDir(ino)
    BY <1>3
  <2>2. /\ listing' = [op |-> "open", ino |-> ino, offset |-> 0, names |-> {}, again |-> FALSE]
        /\ ino_to_file' = ino_to_file
    BY <2>1 DEF OpenDir, verifier
  <2>3. NothingListed(listing)' /\ listing'.ino \in DOMAIN ino_to_file'
    BY <2>2 DEF NothingListed
  <2> QED
    BY <2>3 DEF Streamed
<1>4. CASE CloseDir
  BY <1>4 DEF CloseDir, Streamed
<1>5. CASE Readdir
  BY <1>5, ReaddirStream
<1>6. CASE changes' = changes + 1
  <2>1. changes' # 0
    BY <1>6 DEF ServeInv, Stored
  <2> QED
    BY <2>1 DEF Streamed
<1>7. \/ listing' = listing /\ UNCHANGED <<verifier, storage>>
      \/ RegisterFile \/ (\E ino \in DOMAIN ino_to_file : OpenDir(ino))
      \/ CloseDir \/ Readdir \/ changes' = changes + 1
  <2>1. CASE UNCHANGED vars
    BY <2>1 DEF vars
  <2>2. CASE Next
    BY <2>2 DEF Next, Getattr, Open, Readlink, Lookup, ReadBegin, ReadBlock, PreadFails, ReadEnd,
       ChangeContents, Replace
  <2> QED
    BY <2>1, <2>2
<1> QED
  BY <1>1, <1>2, <1>3, <1>4, <1>5, <1>6, <1>7

(* While nothing changes, readdir shows every recorded entry.               *)
LEMMA AllShown ==
    ASSUME Formatted, ServeInv, ExactInv, changes = 0, NEW dir, NEW name
    PROVE  Shown(dir, name) <=> Child(dir, name) \in DOMAIN path_to_ino
<1> DEFINE child == Child(dir, name)
           file == ino_to_file[path_to_ino[child]]
<1>1. /\ source = Tree
      /\ \A i \in DOMAIN FileInfos : data[FileInfos[i].path] = FileInfos[i].bytes
  BY DEF ExactInv, Unchanged
<1> SUFFICES ASSUME child \in DOMAIN path_to_ino PROVE Shown(dir, name)
  BY DEF Shown
<1>2. path_to_ino[child] \in DOMAIN ino_to_file /\ file.path = child
  BY DEF ServeInv, Table
<1> DEFINE n == path_to_ino[child]
<1> HIDE DEF n
<1>3. ino_to_file[n].kind = "file" \/ \E p \in Directories : ino_to_file[n] = Dir(p)
  BY <1>2, KindIs DEF ServeInv, n
<1>4. CASE ino_to_file[n].kind = "file"
  <2>1. FileIno(n)
    BY <1>2, <1>4, KindIs DEF ServeInv, n
  <2>2. /\ child \in DOMAIN Tree /\ Tree[child].kind = "file" /\ Tree[child].object = child
        /\ ino_to_file[n].size = Len(Recorded(n)) /\ data[child] = Recorded(n)
    BY <1>1, <1>2, <2>1, RecordedIs, Zenon DEF ServeInv, n
  <2>3. SizeMatches(file, Tree[child])
    BY <1>4, <2>2 DEF SizeMatches, NodeSize, n
  <2> QED
    BY <1>1, <2>2, <2>3 DEF Shown
<1>5. CASE \E p \in Directories : ino_to_file[n] = Dir(p)
  <2>1. PICK p \in Directories : ino_to_file[n] = Dir(p)
    BY <1>5
  <2>2. p = child
    <3>1. Dir(p).path = p
      BY DEF Dir
    <3> QED
      BY <1>2, <2>1, <3>1, Zenon DEF n
  <2>3. child \in DOMAIN Tree /\ Tree[child].kind = "dir"
    BY <2>2 DEF Formatted
  <2>4. SizeMatches(file, Tree[child])
    BY <2>3 DEF SizeMatches
  <2> QED
    BY <1>1, <2>3, <2>4 DEF Shown
<1> QED
  BY <1>3, <1>4, <1>5

(* For any recorded files whose directories fit in one reply of readdir: a  *)
(* client that reads a directory to its end while nothing changes below has *)
(* seen ., .. and every recorded entry, each once (readdir). Past that size *)
(* it fails, as the run fuse_pages shows: the offset also skips entries of  *)
(* a list that no longer begins with . and ...                              *)
THEOREM ListsComplete == Formatted /\ OnePage => (Spec => []ListingComplete)
<1> SUFFICES ASSUME Formatted, OnePage PROVE Spec => []ListingComplete
  OBVIOUS
<1>1. Init => Streamed
  BY DEF Init, Streamed
<1>2. ServeInv /\ Opened /\ Streamed /\ [Next]_vars => Streamed'
  BY StreamNext
<1>3. ServeInv /\ ExactInv /\ Streamed => ListingComplete
  <2> SUFFICES ASSUME ServeInv, ExactInv, Streamed,
                      listing # NoListing /\ listing.op = "done" /\ changes = 0
               PROVE  LET dir == ino_to_file[listing.ino]
                          recorded == {name \in Elements(Order) : Child(dir, name) \in DOMAIN path_to_ino}
                      IN  listing.names = recorded \cup {".", ".."} /\ ~listing.again
    BY DEF ListingComplete
  <2> DEFINE dir == ino_to_file[listing.ino]
             recorded == {name \in Elements(Order) : Child(dir, name) \in DOMAIN path_to_ino}
             all == DirEntries(dir, 0)
  <2>1. AllListed(listing)
    BY DEF Streamed, NothingListed
  <2>2. listing.names = Elements(all) /\ listing.again = FALSE
    BY <2>1 DEF AllListed
  <2>3. Visible(dir) = recorded
    BY AllShown, Zenon DEF Visible
  <2>4. Elements(all) = Visible(dir) \cup {".", ".."}
    <3>1. 0 \in Nat
      OBVIOUS
    <3> QED
      BY <3>1, EntriesAre, Zenon
  <2> QED
    BY <2>2, <2>3, <2>4, Zenon
<1>4. Spec => []ExactInv
  BY Exact
<1> QED
  BY <1>1, <1>2, <1>3, <1>4, Serves, PTL DEF Spec

=============================================================================
