----------------------------- MODULE VerityFuse -----------------------------
(***************************************************************************)
(* The verity-fuse filesystem: the inode table it builds from the recorded *)
(* files, the requests it serves one at a time, the two LRU caches in      *)
(* front of the underlying directory, and that directory, whose storage    *)
(* may change between any two system calls.                                *)
(*                                                                         *)
(* A hash is the padded block it is the hash of: two blocks have one hash  *)
(* exactly when they are equal after zero padding.                         *)
(***************************************************************************)
EXTENDS Integers, Sequences, FiniteSets

CONSTANTS
    FileInfos,          \* the recorded files, in order: path and contents
    BlockSize,
    BlockCacheSize,     \* the block_cache_capacity option
    HandleCacheSize,
    Order,              \* the names of a directory in the order of readdir(3)
    PageSize,           \* entries that fit in one readdir reply
    ReadRanges,         \* <<offset, size>> of the reads the kernel sends
    Listed,             \* paths of the directories that get listed
    Tree,               \* the underlying directory when it was formatted
    Contents,           \* what the contents of an underlying file may become
    Replacements,       \* <<path, node>>: what a path may come to name
    MaxChanges          \* bound on the changes of the underlying storage

VARIABLES
    todo,           \* recorded files that are still to be registered
    path_to_ino,
    ino_to_file,
    source,         \* path -> node of the underlying directory
    data,           \* object -> contents of the underlying files
    block_cache,    \* LRU, most recent first: [key, data]
    handle_cache,   \* LRU, most recent first: [key, data], data an object
    request,        \* the read in progress
    reply,          \* the last reply to the kernel
    listing,        \* the directory stream of a client: ino, offset, the names seen
    changes

verifier == <<todo, path_to_ino, ino_to_file>>
storage == <<source, data, changes>>
caches == <<block_cache, handle_cache>>
vars == <<verifier, storage, caches, request, reply, listing>>

Root == <<>>
RootIno == 1
Idle == [op |-> "idle"]
NoListing == [op |-> "none"]
Objects == {FileInfos[i].path : i \in DOMAIN FileInfos} \cup {Root}
Elements(s) == {s[i] : i \in DOMAIN s}
Absent == [kind |-> "absent", object |-> Root, size |-> 0]

ASSUME FuseAssumption ==
    /\ BlockSize \in Nat \ {0}
    /\ BlockCacheSize \in Nat /\ HandleCacheSize \in Nat
    /\ PageSize \in Nat \ {0} /\ MaxChanges \in Nat
    /\ FileInfos \in Seq(Elements(FileInfos)) /\ Order \in Seq(Elements(Order))
    /\ \A i \in DOMAIN FileInfos : /\ FileInfos[i].path \in Seq(Elements(FileInfos[i].path))
                                  /\ FileInfos[i].bytes \in Seq(Nat)
    /\ \A bytes \in Contents : bytes \in Seq(Nat)
    /\ ReadRanges \subseteq Int \X Nat
    /\ \A p \in DOMAIN Tree : Tree[p].object \in Objects
    /\ \A r \in Replacements : r[2].object \in Objects

-----------------------------------------------------------------------------
(* Sequences of bytes.                                                      *)

Least(a, b) == IF a < b THEN a ELSE b
Most(a, b) == IF a < b THEN b ELSE a
DivCeil(a, b) == (a + b - 1) \div b
Slice(s, from, to) == SubSeq(s, from + 1, Least(to, Len(s)))

(* The elements of a sequence that are in a set, in order.                  *)
Within(s, S) ==
    LET f[i \in 0 .. Len(s)] ==
            IF i = 0 THEN <<>> ELSE IF s[i] \in S THEN Append(f[i - 1], s[i]) ELSE f[i - 1]
    IN  f[Len(s)]

(* update_padded: a short block hashes as if zeros filled it.               *)
Pad(block) == [i \in 1 .. BlockSize |-> IF i <= Len(block) THEN block[i] ELSE 0]

(* The level 1 hashes that format recorded for a file with these contents.  *)
Level1(bytes) ==
    [b \in 1 .. DivCeil(Len(bytes), BlockSize)
        |-> Pad(Slice(bytes, (b - 1) * BlockSize, b * BlockSize))]

verify_data_block_Whole(tree, block_index, block) ==
    /\ Len(block) = BlockSize
    /\ block_index + 1 \in DOMAIN tree
    /\ tree[block_index + 1] = Pad(block)

verify_data_block(tree, block_index, block) ==
    /\ Len(block) <= BlockSize
    /\ block_index + 1 \in DOMAIN tree
    /\ tree[block_index + 1] = Pad(block)

-----------------------------------------------------------------------------
(* The LRU caches: a sequence of entries, the most recently used first.     *)

Holds(cache, key) == \E i \in DOMAIN cache : cache[i].key = key
Position(cache, key) == CHOOSE i \in DOMAIN cache : cache[i].key = key
Entry(cache, key) == cache[Position(cache, key)]
Without(cache, key) ==
    IF Holds(cache, key)
    THEN SubSeq(cache, 1, Position(cache, key) - 1)
         \o SubSeq(cache, Position(cache, key) + 1, Len(cache))
    ELSE cache

(* LruCache::get: the entry becomes the most recent one.                    *)
Touch(cache, key) == <<Entry(cache, key)>> \o Without(cache, key)

(* LruCache::put: the least recent entry leaves a full cache, whose         *)
(* capacity is at least one (NonZeroUsize::MIN).                            *)
Put(cache, key, value, capacity) ==
    Slice(<<[key |-> key, data |-> value]>> \o Without(cache, key), 0, Most(capacity, 1))

BlockKey(ino, block_index) == <<ino, block_index>>

-----------------------------------------------------------------------------
(* The inode table: VerityVerifier::new registers each recorded file after  *)
(* the directories above it that are not registered yet, nearest first.     *)

Ancestors(path) == [n \in 1 .. Len(path) - 1 |-> SubSeq(path, 1, Len(path) - n)]
Dir(path) == [kind |-> "dir", path |-> path, size |-> 0, tree |-> <<>>]
File(info) == [kind |-> "file", path |-> info.path,
               size |-> Len(info.bytes), tree |-> Level1(info.bytes)]

NewEntries(info) ==
    LET above == Ancestors(info.path)
        missing == Within(above, Elements(above) \ DOMAIN path_to_ino)
    IN  [i \in 1 .. Len(missing) + 1 |->
            IF i <= Len(missing) THEN Dir(missing[i]) ELSE File(info)]

RegisterFile ==
    /\ todo # <<>>
    /\ LET new  == NewEntries(Head(todo))
           last == Cardinality(DOMAIN ino_to_file)
           Ino(p) == last + CHOOSE i \in DOMAIN new : new[i].path = p
       IN  /\ path_to_ino' = [p \in DOMAIN path_to_ino \cup {new[i].path : i \in DOMAIN new} |->
                                IF \E i \in DOMAIN new : new[i].path = p
                                THEN Ino(p) ELSE path_to_ino[p]]
           /\ ino_to_file' = [n \in 1 .. last + Len(new) |->
                                IF n <= last THEN ino_to_file[n] ELSE new[n - last]]
    /\ todo' = Tail(todo)
    /\ UNCHANGED <<storage, caches, request, reply, listing>>

(* The filesystem is mounted and waits for the next request.                *)
Serving == todo = <<>> /\ request = Idle

-----------------------------------------------------------------------------
(* Metadata: lookup, getattr, open and readlink.                            *)

(* get_metadata and check_metadata_file_size: the error of a path that is   *)
(* gone, or of a file or link whose size is not the recorded one.           *)
NodeAt(file) == IF file.path \in DOMAIN source THEN source[file.path] ELSE Absent
NodeSize(node) == IF node.kind = "file" THEN Len(data[node.object]) ELSE node.size
SizeMatches(file, node) ==
    node.kind \in {"file", "link"} => file.kind = "file" /\ NodeSize(node) = file.size

metadata_to_attr(ino, node) ==
    IF node.kind = "other" THEN [error |-> "EOPNOTSUPP"]
    ELSE [ino |-> ino, kind |-> node.kind, size |-> NodeSize(node)]

Attr(ino) ==
    LET file == ino_to_file[ino] node == NodeAt(file)
    IN  IF node.kind = "absent" THEN [error |-> "ENOENT"]
        ELSE IF ~SizeMatches(file, node) THEN [error |-> "EIO"]
        ELSE metadata_to_attr(ino, node)

Reply(op, ino, result) == reply' = [op |-> op, ino |-> ino, result |-> result]

Lookup(parent, name) ==
    /\ Serving
    /\ ino_to_file[parent].kind = "dir"
    /\ LET child == Append(ino_to_file[parent].path, name)
       IN  Reply("lookup", parent,
                 IF child \in DOMAIN path_to_ino THEN Attr(path_to_ino[child])
                 ELSE [error |-> "ENOENT"])
    /\ UNCHANGED <<verifier, storage, caches, request, listing>>

Getattr(ino) ==
    /\ Serving
    /\ Reply("getattr", ino, Attr(ino))
    /\ UNCHANGED <<verifier, storage, caches, request, listing>>

Readlink(ino) ==
    /\ Serving
    /\ LET node == NodeAt(ino_to_file[ino])
       IN  Reply("readlink", ino,
                 CASE node.kind = "link"   -> [target |-> node.object]
                   [] node.kind = "absent" -> [error |-> "ENOENT"]
                   [] OTHER                -> [error |-> "EINVAL"])
    /\ UNCHANGED <<verifier, storage, caches, request, listing>>

(* open_file_cached: a cached handle, or the object that the path names now *)
(* (a link is followed); nothing is cached when the path is gone.           *)
Openable(ino) == Holds(handle_cache, ino) \/ NodeAt(ino_to_file[ino]).kind # "absent"
Handle(ino) ==
    IF Holds(handle_cache, ino) THEN Entry(handle_cache, ino).data
    ELSE NodeAt(ino_to_file[ino]).object
OpenFileCached(ino) ==
    handle_cache' = IF Holds(handle_cache, ino) THEN Touch(handle_cache, ino)
                    ELSE IF Openable(ino) THEN Put(handle_cache, ino, Handle(ino), HandleCacheSize)
                    ELSE handle_cache

Open(ino) ==
    /\ Serving
    /\ ino_to_file[ino].kind = "file"
    /\ OpenFileCached(ino)
    /\ Reply("open", ino, IF Openable(ino) THEN [fh |-> 0] ELSE [error |-> "EIO"])
    /\ UNCHANGED <<verifier, storage, block_cache, request, listing>>

-----------------------------------------------------------------------------
(* read_file: the blocks that overlap the range, one at a time; each comes  *)
(* from the cache or is read through the handle and verified.               *)

ReadReply(ino, offset, size, bytes) ==
    Reply("read", ino, [offset |-> offset, size |-> size, bytes |-> bytes])
ReadError(ino, offset, size, error) ==
    Reply("read", ino, [offset |-> offset, size |-> size, error |-> error])

ReadBegin(ino, offset, size) ==
    /\ Serving
    /\ LET refused == IF offset < 0 THEN "EINVAL"
                      ELSE IF size = 0 THEN "empty"
                      ELSE IF ino_to_file[ino].kind = "dir" THEN "EISDIR"
                      ELSE IF ~Openable(ino) THEN "EIO" ELSE "no"
       IN  /\ IF refused \in {"no", "EIO"} THEN OpenFileCached(ino) ELSE UNCHANGED handle_cache
           /\ IF refused = "no"
              THEN /\ request' = [op |-> "read", ino |-> ino, offset |-> offset, size |-> size,
                                  block |-> offset \div BlockSize, handle |-> Handle(ino),
                                  output |-> <<>>]
                   /\ UNCHANGED reply
              ELSE /\ IF refused = "empty" THEN ReadReply(ino, offset, size, <<>>)
                      ELSE ReadError(ino, offset, size, refused)
                   /\ UNCHANGED request
    /\ UNCHANGED <<verifier, storage, block_cache, listing>>

Reading == request # Idle
EndBlock == DivCeil(request.offset + request.size, BlockSize)

(* The bytes of the block that the range covers, clamped to what the block  *)
(* really holds.                                                            *)
Overlap(block) ==
    LET block_offset == request.block * BlockSize
        src_start == Most(request.offset, block_offset) - block_offset
        src_end   == Least(request.offset + request.size, block_offset + BlockSize) - block_offset
    IN  Slice(block, src_start, Least(src_end, Len(block)))

Extend(block) ==
    request' = [request EXCEPT !.output = @ \o Overlap(block), !.block = @ + 1]

(* The read fails: nothing of what was collected is returned.               *)
ReadFails ==
    /\ ReadError(request.ino, request.offset, request.size, "EIO")
    /\ request' = Idle

Pread(handle, block_index) ==
    Slice(data[handle], block_index * BlockSize, (block_index + 1) * BlockSize)

(* Mutant: a block that does not verify is logged and returned all the same. *)
ReadBlock_WarnsOnly ==
    /\ Reading /\ request.block < EndBlock
    /\ LET key == BlockKey(request.ino, request.block)
           raw == Pread(request.handle, request.block)
       IN  IF Holds(block_cache, key)
           THEN block_cache' = Touch(block_cache, key) /\ Extend(Entry(block_cache, key).data)
           ELSE /\ block_cache' =
                     IF verify_data_block(ino_to_file[request.ino].tree, request.block, raw)
                     THEN Put(block_cache, key, raw, BlockCacheSize) ELSE block_cache
                /\ Extend(raw)
    /\ UNCHANGED <<reply, verifier, storage, handle_cache, listing>>

ReadBlock ==
    /\ Reading /\ request.block < EndBlock
    /\ LET key == BlockKey(request.ino, request.block)
           raw == Pread(request.handle, request.block)
       IN  \/ /\ Holds(block_cache, key)
              /\ block_cache' = Touch(block_cache, key)
              /\ Extend(Entry(block_cache, key).data)
              /\ UNCHANGED reply
           \/ /\ ~Holds(block_cache, key)
              /\ verify_data_block(ino_to_file[request.ino].tree, request.block, raw)
              /\ block_cache' = Put(block_cache, key, raw, BlockCacheSize)
              /\ Extend(raw)
              /\ UNCHANGED reply
           \/ /\ ~Holds(block_cache, key)
              /\ ~verify_data_block(ino_to_file[request.ino].tree, request.block, raw)
              /\ ReadFails
              /\ UNCHANGED block_cache
    /\ UNCHANGED <<verifier, storage, handle_cache, listing>>

(* A system call of the storage fails under pread_all (EINTR is retried).   *)
PreadFails ==
    /\ Reading /\ request.block < EndBlock
    /\ ~Holds(block_cache, BlockKey(request.ino, request.block))
    /\ changes < MaxChanges /\ changes' = changes + 1
    /\ ReadFails
    /\ UNCHANGED <<verifier, source, data, caches, listing>>

ReadEnd ==
    /\ Reading /\ request.block = EndBlock
    /\ ReadReply(request.ino, request.offset, request.size, request.output)
    /\ request' = Idle
    /\ UNCHANGED <<verifier, storage, caches, listing>>

-----------------------------------------------------------------------------
(* readdir: a client opens a directory stream and asks for replies from the *)
(* cookie of the last entry it got, until a reply is empty.                 *)

OpenDir(ino) ==
    /\ Serving /\ listing = NoListing
    /\ ino_to_file[ino].path \in Listed
    /\ listing' = [op |-> "open", ino |-> ino, offset |-> 0, names |-> {}, again |-> FALSE]
    /\ UNCHANGED <<verifier, storage, caches, request, reply>>

Child(dir, name) == Append(dir.path, name)
Shown_FilesOnly(dir, name) ==
    /\ Child(dir, name) \in DOMAIN source \cap DOMAIN path_to_ino
    /\ LET node == source[Child(dir, name)]
       IN  /\ node.kind = "file"
           /\ SizeMatches(ino_to_file[path_to_ino[Child(dir, name)]], node)

Shown(dir, name) ==
    /\ Child(dir, name) \in DOMAIN source \cap DOMAIN path_to_ino
    /\ LET node == source[Child(dir, name)]
       IN  /\ node.kind \notin {"absent", "other"}
           /\ SizeMatches(ino_to_file[path_to_ino[Child(dir, name)]], node)

(* The entries from this offset on, as readdir pushes them.                 *)
DirEntries(dir, offset) ==
    LET visible == {name \in Elements(Order) : Shown(dir, name)}
    IN  (IF offset <= 0 THEN <<".">> ELSE <<>>)
        \o (IF offset <= 1 THEN <<"..">> ELSE <<>>)
        \o Within(Order, visible)

(* The cookie of the i-th entry of a reply.                                 *)
Cookie(offset, i) == offset + i

Readdir ==
    /\ Serving /\ listing # NoListing /\ listing.op = "open"
    /\ LET dir  == ino_to_file[listing.ino]
           node == NodeAt(dir)
           error == IF node.kind = "absent" THEN "ENOENT"
                    ELSE IF ~SizeMatches(dir, node) THEN "EIO"
                    ELSE IF node.kind # "dir" THEN "ENOTDIR" ELSE "no"
           page == Slice(DirEntries(dir, listing.offset), listing.offset, listing.offset + PageSize)
       IN  IF error # "no"
           THEN /\ Reply("readdir", listing.ino, [error |-> error])
                /\ listing' = [listing EXCEPT !.op = "failed"]
           ELSE /\ Reply("readdir", listing.ino, [names |-> page])
                /\ listing' = IF page = <<>> THEN [listing EXCEPT !.op = "done"]
                              ELSE [listing EXCEPT !.names = @ \cup Elements(page),
                                                   !.again = @ \/ Elements(page) \cap listing.names # {},
                                                   !.offset = Cookie(listing.offset, Len(page))]
    /\ UNCHANGED <<verifier, storage, caches, request>>

CloseDir ==
    /\ Serving /\ listing # NoListing /\ listing.op \in {"done", "failed"}
    /\ listing' = NoListing
    /\ UNCHANGED <<verifier, storage, caches, request, reply>>

-----------------------------------------------------------------------------
(* The storage below: contents change in place, or a path names another     *)
(* object, at any moment, a read in progress included.                      *)

ChangeContents(object, bytes) ==
    /\ changes < MaxChanges /\ changes' = changes + 1
    /\ data' = [data EXCEPT ![object] = bytes]
    /\ UNCHANGED <<verifier, source, caches, request, reply, listing>>

Replace(path, node) ==
    /\ changes < MaxChanges /\ changes' = changes + 1
    /\ source' = [source EXCEPT ![path] = node]
    /\ UNCHANGED <<verifier, data, caches, request, reply, listing>>

Init ==
    /\ todo = FileInfos
    /\ path_to_ino = [p \in {Root} |-> RootIno]
    /\ ino_to_file = [n \in {RootIno} |-> Dir(Root)]
    /\ source = Tree
    /\ data = [o \in Objects |->
                IF \E i \in DOMAIN FileInfos : FileInfos[i].path = o
                THEN FileInfos[CHOOSE i \in DOMAIN FileInfos : FileInfos[i].path = o].bytes
                ELSE <<>>]
    /\ block_cache = <<>> /\ handle_cache = <<>>
    /\ request = Idle /\ reply = Idle /\ listing = NoListing
    /\ changes = 0

Next ==
    \/ RegisterFile
    \/ \E ino \in DOMAIN ino_to_file :
         \/ Getattr(ino) \/ Open(ino) \/ Readlink(ino) \/ OpenDir(ino)
         \/ \E i \in DOMAIN Order : Lookup(ino, Order[i])
         \/ \E range \in ReadRanges : ReadBegin(ino, range[1], range[2])
    \/ ReadBlock \/ PreadFails \/ ReadEnd
    \/ Readdir \/ CloseDir
    \/ \E object \in Objects, bytes \in Contents : ChangeContents(object, bytes)
    \/ \E r \in Replacements : Replace(r[1], r[2])

Spec == Init /\ [][Next]_vars

-----------------------------------------------------------------------------
Recorded(ino) ==
    FileInfos[CHOOSE i \in DOMAIN FileInfos : FileInfos[i].path = ino_to_file[ino].path].bytes
IsRead == reply.op = "read" /\ ino_to_file[reply.ino].kind = "file" /\ reply.result.offset >= 0
ReadOk == IsRead /\ "bytes" \in DOMAIN reply.result
ReadEndOf(r) == r.offset + r.size

(* While nothing changes below, a read that stays within the blocks of the  *)
(* file succeeds with exactly the recorded bytes of its range, cut at the   *)
(* end of the file, whatever blocks and handles the caches hold or have     *)
(* evicted (read_file). One that needs a block past the last is refused.    *)
ReadExact ==
    IsRead /\ changes = 0 /\ reply.result.size > 0 =>
        /\ ReadOk <=> DivCeil(ReadEndOf(reply.result), BlockSize)
                         <= DivCeil(Len(Recorded(reply.ino)), BlockSize)
        /\ ReadOk => reply.result.bytes =
                       Slice(Recorded(reply.ino), reply.result.offset, ReadEndOf(reply.result))

(* The bytes of the range from .. to when the block b has the first len[b]  *)
(* bytes of what was hashed.                                                *)
Blocks(from, to) == from \div BlockSize .. DivCeil(to, BlockSize) - 1
Piece(tree, from, to, b, n) ==
    Slice(SubSeq(tree[b + 1], 1, n),
          Most(from - b * BlockSize, 0), Least(to - b * BlockSize, BlockSize))
Assembled(tree, from, to, len) ==
    LET out[b \in (from \div BlockSize) - 1 .. DivCeil(to, BlockSize) - 1] ==
            IF b \in Blocks(from, to) THEN out[b - 1] \o Piece(tree, from, to, b, len[b]) ELSE <<>>
    IN  out[DivCeil(to, BlockSize) - 1]

(* The bytes of a successful read are, block for block, the recorded ones   *)
(* but for zeros at the end of the block.                                   *)
BytesRecorded ==
    ReadOk /\ reply.result.size > 0 =>
        LET from == reply.result.offset
            to   == ReadEndOf(reply.result)
            tree == ino_to_file[reply.ino].tree
        IN  /\ \A b \in Blocks(from, to) : b + 1 \in DOMAIN tree
            /\ \E len \in [Blocks(from, to) -> 0 .. BlockSize] :
                 /\ \A b \in Blocks(from, to) : Pad(SubSeq(tree[b + 1], 1, len[b])) = tree[b + 1]
                 /\ reply.result.bytes = Assembled(tree, from, to, len)

(* Whatever the storage did before or during a request, a successful read   *)
(* returns recorded bytes, up to zeros at the end of a block (that is all a *)
(* level 1 hash tells: update_padded), and no reply of readdir shows a name *)
(* that was not recorded in that directory.                                 *)
OnlyRecorded ==
    /\ BytesRecorded
    /\ reply.op = "readdir" /\ "names" \in DOMAIN reply.result =>
        \A i \in DOMAIN reply.result.names :
            \/ reply.result.names[i] \in {".", ".."}
            \/ Child(ino_to_file[reply.ino], reply.result.names[i]) \in DOMAIN path_to_ino

(* A client that reads a directory to its end while nothing changes below   *)
(* has seen ., .. and every recorded entry of the directory, each once      *)
(* (readdir).                                                               *)
ListingComplete ==
    (listing # NoListing /\ listing.op = "done" /\ changes = 0) =>
        LET dir == ino_to_file[listing.ino]
            recorded == {name \in Elements(Order) : Child(dir, name) \in DOMAIN path_to_ino}
        IN  listing.names = recorded \cup {".", ".."} /\ ~listing.again

=============================================================================
