----------------------------- MODULE VerityDir ------------------------------
(***************************************************************************)
(* A data directory of cryptpilot-verity and its metadata file: format,    *)
(* verify, open and close run as separate processes and may overlap, a     *)
(* format may be killed at any step, and the storage below may change      *)
(* files and metadata at any time. The Go reader of verity-go checks the   *)
(* same metadata file.                                                     *)
(*                                                                         *)
(* Hashes are abstract and collision free: the root hash of a Merkle tree  *)
(* is the tree, a descriptor hash is the descriptor. Two contents may      *)
(* share a tree and differ in size, as files that end in zeros do.         *)
(***************************************************************************)
EXTENDS Naturals, Sequences, FiniteSets

CONSTANTS
    Paths,          \* sequence of the paths of the data directory, sorted
    MetaNamed,      \* those whose file name is that of a metadata file
    MetaInside,     \* the metadata path lies in the directory, under a name of its own
    Contents,       \* contents of a file: [tree, size]
    WalkErrors,     \* whether the walk of the directory may fail
    Openers,        \* processes that run open
    MaxFormats,     \* bounds: formats, and changes of the storage
    MaxChanges

VARIABLES
    files,          \* path -> contents
    meta,           \* the metadata file
    writes,         \* times the metadata file was written
    format,         \* the format in progress
    published,      \* root hashes that format wrote, with what was hashed
    latest,         \* the last of them, until another format begins
    opener,         \* opener -> the open in progress
    mounts,         \* stack of mounted filesystems at the mount point
    verify,         \* the verify in progress, or the last one
    calm,           \* nothing changed below since the last format began
    formats, changes

vars == <<files, meta, writes, format, published, latest, opener, mounts, verify, calm,
          formats, changes>>

Gone == [tree |-> <<"gone", 0>>, size |-> 0]
MetaPath == "metadata"
NoPath == "missing"
NoHash == <<<<"missing", 0>>, 0>>
NoFile == [state |-> "none", version |-> 0, infos |-> {}]
Torn == [state |-> "torn", version |-> 0, infos |-> {}]
Idle == [pc |-> "idle"]
Failed == [state |-> "error", pairs |-> {}, count |-> 0]
NoneLatest == [hash |-> Failed, contents |-> <<>>]

Elements(s) == {s[i] : i \in DOMAIN s}

(* The two reserved paths name no file, and no content has the hash that    *)
(* stands for a missing one.                                                *)
ASSUME VerityDirAssumption ==
    /\ MetaInside \in BOOLEAN /\ WalkErrors \in BOOLEAN
    /\ MaxFormats \in Nat /\ MaxChanges \in Nat
    /\ Paths \in Seq(Elements(Paths)) /\ {MetaPath, NoPath} \cap Elements(Paths) = {}
    /\ \A c \in Contents : c = [tree |-> c.tree, size |-> c.size] /\ c.tree # NoHash[1]

-----------------------------------------------------------------------------
(* The metadata file.                                                       *)

calculate_fsverity_hash_NoSize(path, content) ==
    [path |-> path, root |-> content.tree, size |-> content.size, tree |-> content.tree,
     descriptor_hash |-> <<content.tree, 0>>]

(* calculate_fsverity_hash: what is recorded for a file.                    *)
calculate_fsverity_hash(path, content) ==
    [path |-> path, root |-> content.tree, size |-> content.size, tree |-> content.tree,
     descriptor_hash |-> <<content.tree, content.size>>]

serialize_metadata(infos) == [state |-> "whole", version |-> 1, infos |-> infos]

(* deserialize_metadata: whether a file is parsed into file infos.          *)
deserialize_metadata(m) ==
    /\ m.state = "whole" /\ m.version = 1
    /\ \A i \in m.infos : i.path # NoPath /\ i.descriptor_hash # NoHash

(* calculate_metadata_hash: the sorted list of paths and descriptor hashes. *)
calculate_metadata_hash(m) ==
    IF m.state # "whole" \/ \E i \in m.infos : i.path = NoPath \/ i.descriptor_hash = NoHash
    THEN Failed
    ELSE [state |-> "hash", count |-> Cardinality(m.infos),
          pairs |-> {<<i.path, i.descriptor_hash>> : i \in m.infos}]

verify_self_DescriptorOnly(i) == i.descriptor_hash = <<i.root, i.size>>

(* FileVerityInfo::verify_self: the descriptor has its hash, and the level  *)
(* 1 hashes have the root hash of the descriptor.                           *)
verify_self(i) ==
    /\ i.descriptor_hash = <<i.root, i.size>>
    /\ i.tree = i.root

(* What open and verify demand of a metadata file they have read.           *)
Accepts(m, hash) ==
    /\ calculate_metadata_hash(m) = hash /\ hash # Failed
    /\ deserialize_metadata(m)
    /\ \A i \in m.infos : verify_self(i)

(* The Go reader: missing strings are empty ones, and a file that is not a  *)
(* flatbuffer is a ParseError of DeserializeMetadata.                       *)
GoMetadataHash(m) ==
    [state |-> "hash", count |-> Cardinality(m.infos),
     pairs |-> {<<i.path, i.descriptor_hash>> : i \in m.infos}]
GoDeserialize(m) == m.state = "whole" /\ m.version = 1
GoVerifySelf_TreeOnly(i) == i.tree = i.root

GoVerifySelf(i) == i.descriptor_hash = <<i.root, i.size>> /\ i.tree = i.root
GoAccepts(m, hash) ==
    GoDeserialize(m) /\ GoMetadataHash(m) = hash /\ \A i \in m.infos : GoVerifySelf(i)

-----------------------------------------------------------------------------
(* format                                                                   *)

(* A metadata file inside the directory is one of its files.                *)
Present(path) ==
    IF path = MetaPath THEN MetaInside /\ meta # NoFile ELSE files[path] # Gone
Read(path) ==
    IF path = MetaPath THEN [tree |-> <<"meta", writes>>, size |-> 0] ELSE files[path]
Walked == IF MetaInside THEN Append(Paths, MetaPath) ELSE Paths

FormatBegin(force) ==
    /\ format = Idle /\ formats < MaxFormats
    /\ meta = NoFile \/ force
    /\ format' = [pc |-> "walk", todo |-> {}, contents |-> [p \in {} |-> Gone]]
    /\ formats' = formats + 1
    /\ latest' = NoneLatest /\ calm' = TRUE
    /\ verify' = [verify EXCEPT !.sure = FALSE]
    /\ UNCHANGED <<files, meta, writes, published, opener, mounts, changes>>

(* collect_files, then the sort: the walk ends silently at its first error. *)
(* The files to be hashed are kept as their places in the order.            *)
Collected(path) == Present(path) /\ path \notin MetaNamed
CollectFiles ==
    /\ format.pc = "walk"
    /\ \E found \in {Elements(Walked)} \cup (IF WalkErrors THEN SUBSET Elements(Walked) ELSE {}) :
         format' = [format EXCEPT !.pc = "hash",
                      !.todo = {n \in DOMAIN Walked : Walked[n] \in found /\ Collected(Walked[n])}]
    /\ UNCHANGED <<files, meta, writes, published, latest, opener, mounts, verify, calm,
                   formats, changes>>

HashFile ==
    /\ format.pc = "hash"
    /\ \E n \in format.todo :
         /\ \A k \in format.todo : n <= k
         /\ LET p == Walked[n]
            IN  format' = IF Present(p)
                          THEN [format EXCEPT !.todo = @ \ {n},
                                  !.contents = [q \in DOMAIN @ \cup {p} |-> IF q = p THEN Read(p) ELSE @[q]]]
                          ELSE Idle
    /\ UNCHANGED <<files, meta, writes, published, latest, opener, mounts, verify, calm,
                   formats, changes>>

(* fs::write truncates the file before it fills it.                         *)
WriteBegin ==
    /\ format.pc = "hash" /\ format.todo = {}
    /\ format' = [format EXCEPT !.pc = "write"]
    /\ meta' = Torn /\ writes' = writes + 1
    /\ UNCHANGED <<files, published, latest, opener, mounts, verify, calm, formats, changes>>

FileInfos(contents) == {calculate_fsverity_hash(p, contents[p]) : p \in DOMAIN contents}
WriteMetadata ==
    /\ format.pc = "write"
    /\ meta' = serialize_metadata(FileInfos(format.contents))
    /\ format' = [format EXCEPT !.pc = "publish"]
    /\ UNCHANGED <<files, writes, published, latest, opener, mounts, verify, calm, formats, changes>>

(* The root hash is that of the bytes in memory, whatever the file holds.   *)
WriteHash ==
    /\ format.pc = "publish"
    /\ LET hash == calculate_metadata_hash(serialize_metadata(FileInfos(format.contents)))
       IN  /\ latest' = [hash |-> hash, contents |-> format.contents]
           /\ published' = published \cup {latest'}
    /\ format' = Idle
    /\ UNCHANGED <<files, meta, writes, opener, mounts, verify, calm, formats, changes>>

(* The process is killed, or a call of it fails.                            *)
FormatDies ==
    /\ format # Idle
    /\ format' = Idle
    /\ UNCHANGED <<files, meta, writes, published, latest, opener, mounts, verify, calm,
                   formats, changes>>

-----------------------------------------------------------------------------
(* open and close                                                           *)

is_mounted == mounts # <<>>

OpenBegin(o, hash) ==
    /\ opener[o] = Idle /\ ~is_mounted /\ meta # NoFile
    /\ opener' = [opener EXCEPT ![o] = [pc |-> "open", hash |-> hash, meta |-> meta]]
    /\ UNCHANGED <<files, meta, writes, format, published, latest, mounts, verify, calm,
                   formats, changes>>

(* The checks are on the bytes that were read; the mount serves from them.  *)
OpenMount(o) ==
    /\ opener[o].pc = "open"
    /\ IF Accepts(opener[o].meta, opener[o].hash)
       THEN /\ mounts' = Append(mounts, [opener |-> o, hash |-> opener[o].hash,
                                         infos |-> opener[o].meta.infos])
            /\ opener' = [opener EXCEPT ![o] = [pc |-> "mounted"]]
       ELSE /\ opener' = [opener EXCEPT ![o] = Idle]
            /\ UNCHANGED mounts
    /\ UNCHANGED <<files, meta, writes, format, published, latest, verify, calm, formats, changes>>

(* Unmounted by close, or by AutoUnmount when the process ends.             *)
Unmount(n) ==
    /\ mounts' = SubSeq(mounts, 1, n - 1) \o SubSeq(mounts, n + 1, Len(mounts))
    /\ opener' = [opener EXCEPT ![mounts[n].opener] = Idle]
    /\ UNCHANGED <<files, meta, writes, format, published, latest, verify, calm, formats, changes>>

Close ==
    /\ is_mounted
    /\ Unmount(Len(mounts))

OpenerDies(o) == \E n \in DOMAIN mounts : mounts[n].opener = o /\ Unmount(n)

-----------------------------------------------------------------------------
(* verify                                                                   *)

NoVerify == [pc |-> "idle", result |-> "none", hash |-> Failed, infos |-> {}, todo |-> {},
             seen |-> [p \in {} |-> Gone], full |-> FALSE, sure |-> FALSE]

VerifyBegin(hash, metadata_only) ==
    /\ verify.pc = "idle" /\ meta # NoFile
    /\ LET ok == Accepts(meta, hash)
       IN  verify' = [NoVerify EXCEPT
                        !.pc = IF ok /\ ~metadata_only THEN "files" ELSE "idle",
                        !.result = IF ~ok THEN "failed" ELSE IF metadata_only THEN "ok" ELSE "none",
                        !.hash = hash, !.infos = meta.infos, !.todo = meta.infos,
                        !.full = ~metadata_only,
                        !.sure = calm /\ format = Idle /\ latest.hash = hash]
    /\ UNCHANGED <<files, meta, writes, format, published, latest, opener, mounts, calm,
                   formats, changes>>

VerifyFile(i) ==
    /\ verify.pc = "files" /\ i \in verify.todo
    /\ LET c == Read(i.path)
           ok == Present(i.path) /\ <<c.tree, c.size>> = i.descriptor_hash
       IN  verify' = IF ok THEN [verify EXCEPT !.todo = @ \ {i},
                                   !.seen = [p \in DOMAIN @ \cup {i.path} |->
                                                IF p = i.path THEN c ELSE @[p]]]
                     ELSE [verify EXCEPT !.pc = "idle", !.result = "failed"]
    /\ UNCHANGED <<files, meta, writes, format, published, latest, opener, mounts, calm,
                   formats, changes>>

VerifyDone ==
    /\ verify.pc = "files" /\ verify.todo = {}
    /\ verify' = [verify EXCEPT !.pc = "idle", !.result = "ok"]
    /\ UNCHANGED <<files, meta, writes, format, published, latest, opener, mounts, calm,
                   formats, changes>>

-----------------------------------------------------------------------------
(* The storage: files are edited or removed, the metadata file is damaged.  *)

Changed ==
    /\ changes < MaxChanges /\ changes' = changes + 1
    /\ calm' = FALSE
    /\ verify' = [verify EXCEPT !.sure = FALSE]
    /\ UNCHANGED <<writes, format, published, latest, opener, mounts, formats>>

ChangeFile(path, content) ==
    /\ files' = [files EXCEPT ![path] = content]
    /\ Changed
    /\ UNCHANGED meta

Damaged(i) ==
    {[i EXCEPT !.path = p] : p \in Elements(Paths) \cup {NoPath}}
    \cup {[i EXCEPT !.descriptor_hash = h] : h \in {<<c.tree, c.size>> : c \in Contents} \cup {NoHash}}
    \cup {[i EXCEPT !.root = c.tree] : c \in Contents}
    \cup {[i EXCEPT !.size = c.size] : c \in Contents}
    \cup {[i EXCEPT !.tree = c.tree] : c \in Contents}

DamageMetadata ==
    /\ meta.state = "whole"
    /\ \/ \E i \in meta.infos :
            \/ \E d \in Damaged(i) : meta' = [meta EXCEPT !.infos = (@ \ {i}) \cup {d}]
            \/ meta' = [meta EXCEPT !.infos = @ \ {i}]
       \/ meta' = [meta EXCEPT !.version = 2]
       \/ meta' = Torn
    /\ Changed
    /\ UNCHANGED files

Init ==
    /\ files \in [Elements(Paths) -> Contents]
    /\ meta = NoFile /\ writes = 0
    /\ format = Idle /\ published = {} /\ latest = NoneLatest
    /\ opener = [o \in Openers |-> Idle] /\ mounts = <<>>
    /\ verify = NoVerify /\ calm = FALSE
    /\ formats = 0 /\ changes = 0

Next ==
    \/ \E force \in BOOLEAN : FormatBegin(force)
    \/ CollectFiles \/ HashFile \/ WriteBegin \/ WriteMetadata \/ WriteHash \/ FormatDies
    \/ \E o \in Openers, p \in published : OpenBegin(o, p.hash)
    \/ \E o \in Openers : OpenMount(o) \/ OpenerDies(o)
    \/ Close
    \/ \E p \in published, only \in BOOLEAN : VerifyBegin(p.hash, only)
    \/ \E i \in verify.todo : VerifyFile(i)
    \/ VerifyDone
    \/ \E p \in Elements(Paths), c \in Contents \cup {Gone} : ChangeFile(p, c)
    \/ DamageMetadata

Spec == Init /\ [][Next]_vars

-----------------------------------------------------------------------------
(* What a mounted filesystem verifies reads against is what the format that *)
(* printed its root hash read from the files, however the metadata file was *)
(* damaged, rewritten or torn in between (open checks the root hash and     *)
(* then verify_self, on the bytes it read once). And a full verify that     *)
(* succeeds has read the very contents that format hashed.                  *)
AsFormatted ==
    /\ \A n \in DOMAIN mounts :
         \E p \in published : mounts[n].hash = p.hash /\ mounts[n].infos = FileInfos(p.contents)
    /\ verify.result = "ok" /\ verify.full =>
         \E p \in published : verify.hash = p.hash /\ verify.seen = p.contents

(* As long as nothing changes in the directory since a format began, its    *)
(* root hash covers every file (collect_files), and verify with that root   *)
(* hash succeeds.                                                           *)
FormatThenVerify ==
    /\ verify.sure => verify.result # "failed"
    /\ latest # NoneLatest /\ calm =>
         {p \in Elements(Paths) : files[p] # Gone} \subseteq DOMAIN latest.contents

(* The Go reader accepts a metadata file under a root hash exactly when     *)
(* open and verify do (verity-go/metadata).                                 *)
GoAgrees == \A p \in published : GoAccepts(meta, p.hash) <=> Accepts(meta, p.hash)
=============================================================================
