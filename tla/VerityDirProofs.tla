-------------------------- MODULE VerityDirProofs ---------------------------
(***************************************************************************)
(* Proofs about VerityDir, for every set of paths, contents and openers    *)
(* and every number of formats and of changes of the storage.              *)
(*                                                                         *)
(* A root hash stands for the contents that one format read: PublishedInv. *)
(* Whatever metadata file open and verify accept under that hash, its file *)
(* infos are the ones of those contents (AcceptedInfos), because           *)
(* verify_self ties every field of a file info to the descriptor hash that *)
(* the root hash covers. MountInv and VerifyInv carry this to the mounts   *)
(* and to the files that verify has read so far. CalmInv and CoverInv are  *)
(* about the time in which nothing changes below a format.                 *)
(***************************************************************************)
EXTENDS VerityDir, TLAPS

-----------------------------------------------------------------------------
(* Shapes of the values.                                                    *)

IsContent(c) == c = [tree |-> c.tree, size |-> c.size]

(* What a format has read: contents of files of the directory, none of them *)
(* with the hash that stands for a missing one.                             *)
GoodContents(f) ==
    /\ f = [q \in DOMAIN f |-> f[q]]
    /\ DOMAIN f \subseteq Elements(Walked)
    /\ \A q \in DOMAIN f : IsContent(f[q]) /\ f[q].tree # NoHash[1]

IsInfo(i) ==
    i = [path |-> i.path, root |-> i.root, size |-> i.size, tree |-> i.tree,
         descriptor_hash |-> i.descriptor_hash]

IsMeta(m) ==
    /\ m = [state |-> m.state, version |-> m.version, infos |-> m.infos]
    /\ \A i \in m.infos : IsInfo(i)

IsFormat(f) ==
    /\ f = [pc |-> f.pc, todo |-> f.todo, contents |-> f.contents]
    /\ f.pc \in {"walk", "hash", "write", "publish"}
    /\ f.todo \subseteq DOMAIN Walked
    /\ GoodContents(f.contents)

IsVerify(v) ==
    /\ v = [pc |-> v.pc, result |-> v.result, hash |-> v.hash, infos |-> v.infos, todo |-> v.todo,
            seen |-> v.seen, full |-> v.full, sure |-> v.sure]
    /\ v.pc \in {"idle", "files"} /\ v.result \in {"none", "ok", "failed"}

RootHash(f) == calculate_metadata_hash(serialize_metadata(FileInfos(f)))

-----------------------------------------------------------------------------
(* The inductive invariant.                                                 *)

FilesInv == files \in [Elements(Paths) -> Contents \cup {Gone}]

MetaInv == IsMeta(meta)

FormatInv == format = Idle \/ IsFormat(format)

(* Every published root hash is that of the contents its format read.       *)
PublishedInv ==
    \A p \in published :
        p = [hash |-> RootHash(p.contents), contents |-> p.contents] /\ GoodContents(p.contents)

LatestInv == latest # NoneLatest => latest \in published /\ format = Idle

OpenerInv ==
    /\ opener = [o \in Openers |-> opener[o]]
    /\ \A o \in Openers : opener[o].pc = "open" =>
         IsMeta(opener[o].meta) /\ \E p \in published : opener[o].hash = p.hash

Mounted == {[opener |-> o, hash |-> p.hash, infos |-> FileInfos(p.contents)] :
                o \in Openers, p \in published}

MountInv == mounts \in Seq(Mounted)

(* A verify that reads the files, and one that has read them all, has found *)
(* in each file it is done with what the format read there.                 *)
Compared(p) ==
    /\ verify.hash = p.hash /\ verify.infos = FileInfos(p.contents)
    /\ verify.todo \subseteq verify.infos
    /\ verify.seen = [q \in {i.path : i \in verify.infos \ verify.todo} |-> p.contents[q]]

VerifyInv ==
    /\ IsVerify(verify)
    /\ verify.pc = "files" => verify.result = "none" /\ \E p \in published : Compared(p)
    /\ verify.result = "ok" /\ verify.full =>
         \E p \in published : verify.todo = {} /\ Compared(p)

BaseInv ==
    /\ FilesInv /\ MetaInv /\ FormatInv /\ PublishedInv /\ LatestInv /\ OpenerInv /\ MountInv
    /\ VerifyInv

-----------------------------------------------------------------------------
(* Lemmas on the operators.                                                 *)

(* The files of the walk are the files of the directory and, when it is     *)
(* inside, the metadata file.                                               *)
LEMMA WalkedElements ==
    /\ Walked \in Seq(Elements(Paths) \cup {MetaPath})
    /\ \A n \in DOMAIN Walked : Walked[n] \in Elements(Walked)
    /\ Elements(Paths) \subseteq Elements(Walked)
    /\ Elements(Walked) \subseteq Elements(Paths) \cup {MetaPath}
    /\ ~MetaInside => Elements(Walked) = Elements(Paths)
<1>1. Paths \in Seq(Elements(Paths))
  BY VerityDirAssumption
<1>2. Paths \in Seq(Elements(Paths) \cup {MetaPath})
  BY <1>1
<1>3. CASE MetaInside
  <2>1. Walked = Append(Paths, MetaPath)
    BY <1>3 DEF Walked
  <2>2. Walked \in Seq(Elements(Paths) \cup {MetaPath})
    BY <1>2, <2>1
  <2>3. DOMAIN Paths = 1 .. Len(Paths) /\ DOMAIN Walked = 1 .. Len(Paths) + 1 /\ Len(Paths) \in Nat
    BY <1>1, <2>1
  <2>4. \A n \in DOMAIN Paths : n \in DOMAIN Walked /\ Walked[n] = Paths[n]
    BY <1>1, <2>1, <2>3
  <2>5. Elements(Paths) \subseteq Elements(Walked)
    BY <2>4 DEF Elements
  <2>6. \A n \in DOMAIN Walked : Walked[n] \in Elements(Paths) \cup {MetaPath}
    BY <2>2
  <2> QED
    BY <2>2, <2>5, <2>6, <1>3 DEF Elements
<1>4. CASE ~MetaInside
  BY <1>2, <1>4 DEF Walked, Elements
<1> QED
  BY <1>3, <1>4

(* The reserved paths are not walked paths of the directory.                *)
LEMMA ReservedPaths ==
    NoPath \notin Elements(Walked) /\ MetaPath \notin Elements(Paths)
BY WalkedElements, VerityDirAssumption DEF NoPath, MetaPath

(* A file info of good contents is whole: it has a path and a descriptor    *)
(* hash, and it passes verify_self.                                         *)
LEMMA GoodInfos ==
    ASSUME NEW f, GoodContents(f), NEW i \in FileInfos(f)
    PROVE  /\ IsInfo(i) /\ verify_self(i)
           /\ i.path \in DOMAIN f /\ i = calculate_fsverity_hash(i.path, f[i.path])
           /\ i.path # NoPath /\ i.descriptor_hash # NoHash
<1>1. PICK q \in DOMAIN f : i = calculate_fsverity_hash(q, f[q])
  BY DEF FileInfos
<1>2. i.path = q /\ q # NoPath
  BY <1>1, ReservedPaths DEF calculate_fsverity_hash, GoodContents
<1>3. i.descriptor_hash = <<f[q].tree, f[q].size>> /\ f[q].tree # NoHash[1]
  BY <1>1 DEF calculate_fsverity_hash, GoodContents
<1>4. i.descriptor_hash # NoHash
  BY <1>3 DEF NoHash
<1>5. IsInfo(i) /\ verify_self(i)
  BY <1>1 DEF calculate_fsverity_hash, IsInfo, verify_self
<1> QED
  BY <1>1, <1>2, <1>4, <1>5

(* The root hash of good contents is a hash, and holds their descriptor     *)
(* hashes by path.                                                          *)
LEMMA GoodHash ==
    ASSUME NEW f, GoodContents(f)
    PROVE  /\ RootHash(f) = [state |-> "hash", count |-> Cardinality(FileInfos(f)),
                             pairs |-> {<<i.path, i.descriptor_hash>> : i \in FileInfos(f)}]
           /\ RootHash(f) # Failed
<1>1. \A i \in FileInfos(f) : i.path # NoPath /\ i.descriptor_hash # NoHash
  BY GoodInfos
<1>2. RootHash(f) = [state |-> "hash", count |-> Cardinality(FileInfos(f)),
                     pairs |-> {<<i.path, i.descriptor_hash>> : i \in FileInfos(f)}]
  BY <1>1 DEF RootHash, calculate_metadata_hash, serialize_metadata
<1>3. RootHash(f).state = "hash" /\ Failed.state = "error"
  BY <1>2 DEF Failed
<1> QED
  BY <1>2, <1>3

(* Two file infos that pass verify_self and agree in path and descriptor    *)
(* hash are the same.                                                       *)
LEMMA InfoOfPair ==
    ASSUME NEW i, NEW j, IsInfo(i), IsInfo(j), verify_self(i), verify_self(j),
           <<i.path, i.descriptor_hash>> = <<j.path, j.descriptor_hash>>
    PROVE  i = j
<1>1. i.path = j.path /\ <<i.root, i.size>> = <<j.root, j.size>>
  BY DEF verify_self
<1>2. i.root = j.root /\ i.size = j.size /\ i.tree = j.tree /\ i.descriptor_hash = j.descriptor_hash
  BY <1>1 DEF verify_self
<1> QED
  BY <1>1, <1>2 DEF IsInfo

(* A metadata file accepted under the root hash of some contents holds the  *)
(* file infos of those contents and nothing else.                           *)
LEMMA AcceptedInfos ==
    ASSUME NEW m, IsMeta(m), NEW f, GoodContents(f), Accepts(m, RootHash(f))
    PROVE  m.infos = FileInfos(f)
<1> DEFINE Pairs(S) == {<<i.path, i.descriptor_hash>> : i \in S}
<1>1. calculate_metadata_hash(m) = RootHash(f) /\ calculate_metadata_hash(m) # Failed
  BY DEF Accepts
<1>2. calculate_metadata_hash(m).pairs = Pairs(m.infos)
  BY <1>1 DEF calculate_metadata_hash
<1>3. Pairs(m.infos) = Pairs(FileInfos(f))
  BY <1>1, <1>2, GoodHash
<1>4. \A i \in m.infos : IsInfo(i) /\ verify_self(i)
  BY DEF Accepts, IsMeta
<1>5. \A i \in FileInfos(f) : IsInfo(i) /\ verify_self(i)
  BY GoodInfos
<1>6. ASSUME NEW i \in m.infos PROVE i \in FileInfos(f)
  <2>0. <<i.path, i.descriptor_hash>> \in Pairs(m.infos)
    OBVIOUS
  <2>1. PICK j \in FileInfos(f) : <<i.path, i.descriptor_hash>> = <<j.path, j.descriptor_hash>>
    BY <1>3, <2>0, Zenon
  <2> QED
    BY <2>1, <1>4, <1>5, InfoOfPair
<1>7. ASSUME NEW i \in FileInfos(f) PROVE i \in m.infos
  <2>0. <<i.path, i.descriptor_hash>> \in Pairs(FileInfos(f))
    OBVIOUS
  <2>1. PICK j \in m.infos : <<i.path, i.descriptor_hash>> = <<j.path, j.descriptor_hash>>
    BY <1>3, <2>0, Zenon
  <2> QED
    BY <2>1, <1>4, <1>5, InfoOfPair
<1> QED
  BY <1>6, <1>7

(* Conversely, the metadata file of good contents is accepted under their   *)
(* root hash.                                                               *)
LEMMA OwnAccepted ==
    ASSUME NEW f, GoodContents(f)
    PROVE  Accepts(serialize_metadata(FileInfos(f)), RootHash(f))
<1>1. \A i \in FileInfos(f) : i.path # NoPath /\ i.descriptor_hash # NoHash /\ verify_self(i)
  BY GoodInfos
<1>2. deserialize_metadata(serialize_metadata(FileInfos(f)))
  BY <1>1 DEF deserialize_metadata, serialize_metadata
<1>3. \A i \in serialize_metadata(FileInfos(f)).infos : verify_self(i)
  BY <1>1 DEF serialize_metadata
<1>4. RootHash(f) # Failed
  BY GoodHash
<1> QED
  BY <1>2, <1>3, <1>4 DEF Accepts, RootHash

-----------------------------------------------------------------------------
(* Every step keeps BaseInv.                                                *)

(* A conjunct is kept by a step that leaves its variables alone.            *)
LEMMA Frame ==
    ASSUME BaseInv
    PROVE  /\ UNCHANGED files => FilesInv'
           /\ UNCHANGED meta => MetaInv'
           /\ UNCHANGED format => FormatInv'
           /\ UNCHANGED published => PublishedInv'
           /\ UNCHANGED <<latest, published, format>> => LatestInv'
           /\ UNCHANGED <<opener, published>> => OpenerInv'
           /\ UNCHANGED <<mounts, published>> => MountInv'
           /\ UNCHANGED <<verify, published>> => VerifyInv'
<1>1. UNCHANGED files => FilesInv'
  BY DEF BaseInv, FilesInv
<1>2. UNCHANGED meta => MetaInv'
  BY Zenon DEF BaseInv, MetaInv
<1>3. UNCHANGED format => FormatInv'
  BY Zenon DEF BaseInv, FormatInv
<1>4. UNCHANGED published => PublishedInv'
  BY Zenon DEF BaseInv, PublishedInv
<1>5. UNCHANGED <<latest, published, format>> => LatestInv'
  BY Zenon DEF BaseInv, LatestInv
<1>6. UNCHANGED <<opener, published>> => OpenerInv'
  BY Zenon DEF BaseInv, OpenerInv
<1>7. UNCHANGED <<mounts, published>> => MountInv'
  <2>1. published' = published => Mounted' = Mounted
    BY DEF Mounted
  <2> QED
    BY <2>1 DEF BaseInv, MountInv
<1>8. UNCHANGED <<verify, published>> => VerifyInv'
  BY Zenon DEF BaseInv, VerifyInv, Compared
<1> QED
  BY <1>1, <1>2, <1>3, <1>4, <1>5, <1>6, <1>7, <1>8

(* The invariant holds initially.                                           *)
LEMMA BaseInit == Init => BaseInv
<1> SUFFICES ASSUME Init PROVE BaseInv
  OBVIOUS
<1>1. FilesInv
  BY DEF Init, FilesInv
<1>2. MetaInv
  BY DEF Init, MetaInv, IsMeta, NoFile
<1>3. FormatInv /\ PublishedInv /\ LatestInv
  BY DEF Init, FormatInv, PublishedInv, LatestInv
<1>4. OpenerInv
  BY DEF Init, OpenerInv, Idle
<1>5. MountInv
  BY DEF Init, MountInv
<1>6. VerifyInv
  BY DEF Init, VerifyInv, NoVerify, IsVerify
<1> QED
  BY <1>1, <1>2, <1>3, <1>4, <1>5, <1>6 DEF BaseInv

(* Forgetting that a verify is sure to succeed changes nothing else of it.  *)
LEMMA SureForgotten ==
    ASSUME BaseInv, verify' = [verify EXCEPT !.sure = FALSE], published' = published
    PROVE  VerifyInv'
<1>1. verify' = [pc |-> verify.pc, result |-> verify.result, hash |-> verify.hash,
                 infos |-> verify.infos, todo |-> verify.todo, seen |-> verify.seen,
                 full |-> verify.full, sure |-> FALSE]
  BY DEF BaseInv, VerifyInv, IsVerify
<1>2. IsVerify(verify)'
  BY <1>1 DEF BaseInv, VerifyInv, IsVerify
<1>3. \A p : Compared(p) => Compared(p)'
  BY <1>1 DEF Compared
<1> QED
  BY <1>1, <1>2, <1>3 DEF BaseInv, VerifyInv

(* format begins: no file is read yet.                                      *)
LEMMA FormatBeginStep ==
    ASSUME BaseInv, NEW force \in BOOLEAN, FormatBegin(force)
    PROVE  BaseInv'
<1>1. UNCHANGED <<files, meta, published, opener, mounts>>
  BY DEF FormatBegin
<1>2. FormatInv'
  <2>1. format' = [pc |-> "walk", todo |-> {}, contents |-> [p \in {} |-> Gone]]
    BY DEF FormatBegin
  <2>2. GoodContents([p \in {} |-> Gone])
    BY DEF GoodContents
  <2> QED
    BY <2>1, <2>2 DEF FormatInv, IsFormat
<1>3. LatestInv'
  BY DEF FormatBegin, LatestInv
<1>4. VerifyInv'
  BY <1>1, SureForgotten DEF FormatBegin
<1> QED
  BY <1>1, <1>2, <1>3, <1>4, Frame DEF BaseInv

(* Steps of a format other than its first and last leave the rest alone: it *)
(* is enough that they keep the shape of the format and of the file.        *)
LEMMA FormatFrame ==
    ASSUME BaseInv, format # Idle, FormatInv', MetaInv',
           UNCHANGED <<files, published, latest, opener, mounts, verify>>
    PROVE  BaseInv'
<1>1. LatestInv'
  BY DEF BaseInv, LatestInv
<1> QED
  BY <1>1, Frame DEF BaseInv

(* What is read from a file that is there is a content.                     *)
LEMMA ReadContent ==
    ASSUME BaseInv, NEW q \in Elements(Walked)
    PROVE  /\ IsContent(Read(q))
           /\ Present(q) => Read(q).tree # NoHash[1]
<1>1. CASE q = MetaPath
  BY <1>1 DEF Read, IsContent, NoHash
<1>2. CASE q # MetaPath
  <2>1. q \in Elements(Paths) /\ files[q] \in Contents \cup {Gone}
    BY <1>2, WalkedElements DEF BaseInv, FilesInv
  <2>2. CASE files[q] = Gone
    BY <1>2, <2>2 DEF Read, Present, IsContent, Gone
  <2>3. CASE files[q] \in Contents
    BY <1>2, <2>3, VerityDirAssumption DEF Read, IsContent
  <2> QED
    BY <2>1, <2>2, <2>3
<1> QED
  BY <1>1, <1>2

(* collect_files records which files to hash.                               *)
LEMMA CollectFilesStep ==
    ASSUME BaseInv, CollectFiles
    PROVE  BaseInv'
<1>1. format # Idle /\ IsFormat(format)
  BY DEF CollectFiles, Idle, BaseInv, FormatInv
<1>2. UNCHANGED <<files, meta, published, latest, opener, mounts, verify>>
  BY DEF CollectFiles
<1>3. PICK found : format' = [format EXCEPT !.pc = "hash",
             !.todo = {n \in DOMAIN Walked : Walked[n] \in found /\ Collected(Walked[n])}]
  BY DEF CollectFiles
<1>4. FormatInv'
  BY <1>1, <1>3 DEF FormatInv, IsFormat
<1> QED
  BY <1>1, <1>2, <1>4, Frame, FormatFrame

(* A file is hashed: what was read of it is added to the contents.          *)
LEMMA HashFileStep ==
    ASSUME BaseInv, HashFile
    PROVE  BaseInv'
<1>1. format # Idle /\ IsFormat(format)
  BY DEF HashFile, Idle, BaseInv, FormatInv
<1>2. UNCHANGED <<files, meta, published, latest, opener, mounts, verify>>
  BY DEF HashFile
<1>3. FormatInv'
  <2>1. PICK n \in format.todo :
          format' = IF Present(Walked[n])
                    THEN [format EXCEPT !.todo = @ \ {n},
                            !.contents = [q \in DOMAIN @ \cup {Walked[n]} |->
                                             IF q = Walked[n] THEN Read(Walked[n]) ELSE @[q]]]
                    ELSE Idle
    BY DEF HashFile
  <2> DEFINE p == Walked[n]
             c == [q \in DOMAIN format.contents \cup {p} |->
                      IF q = p THEN Read(p) ELSE format.contents[q]]
  <2>2. p \in Elements(Walked)
    BY <1>1, WalkedElements DEF IsFormat
  <2>3. CASE ~Present(p)
    BY <2>1, <2>3 DEF FormatInv
  <2>4. CASE Present(p)
    <3>1. format' = [pc |-> format.pc, todo |-> format.todo \ {n}, contents |-> c]
      BY <1>1, <2>1, <2>4 DEF IsFormat
    <3>2. IsContent(Read(p)) /\ Read(p).tree # NoHash[1]
      BY <2>2, <2>4, ReadContent
    <3> HIDE DEF p
    <3>3. DOMAIN c = DOMAIN format.contents \cup {p}
          /\ \A q \in DOMAIN c : c[q] = IF q = p THEN Read(p) ELSE format.contents[q]
      OBVIOUS
    <3>4. c = [q \in DOMAIN c |-> c[q]]
      BY <3>3
    <3> HIDE DEF c
    <3>5. GoodContents(c)
      BY <1>1, <2>2, <3>2, <3>3, <3>4 DEF IsFormat, GoodContents
    <3> QED
      BY <1>1, <3>1, <3>5 DEF FormatInv, IsFormat
  <2> QED
    BY <2>3, <2>4
<1> QED
  BY <1>1, <1>2, <1>3, Frame, FormatFrame

(* The metadata file is truncated.                                          *)
LEMMA WriteBeginStep ==
    ASSUME BaseInv, WriteBegin
    PROVE  BaseInv'
<1>1. format # Idle /\ IsFormat(format)
  BY DEF WriteBegin, Idle, BaseInv, FormatInv
<1>2. FormatInv'
  BY <1>1 DEF WriteBegin, FormatInv, IsFormat
<1>3. MetaInv'
  BY DEF WriteBegin, MetaInv, IsMeta, Torn
<1> QED
  BY <1>1, <1>2, <1>3, FormatFrame DEF WriteBegin

(* The metadata file is filled with the file infos.                         *)
LEMMA WriteMetadataStep ==
    ASSUME BaseInv, WriteMetadata
    PROVE  BaseInv'
<1>1. format # Idle /\ IsFormat(format)
  BY DEF WriteMetadata, Idle, BaseInv, FormatInv
<1>2. FormatInv'
  BY <1>1 DEF WriteMetadata, FormatInv, IsFormat
<1>3. MetaInv'
  <2>1. \A i \in FileInfos(format.contents) : IsInfo(i)
    BY <1>1, GoodInfos DEF IsFormat
  <2> QED
    BY <2>1 DEF WriteMetadata, MetaInv, IsMeta, serialize_metadata
<1> QED
  BY <1>1, <1>2, <1>3, FormatFrame DEF WriteMetadata

(* A sequence over a set is one over a larger set.                          *)
LEMMA SeqMonotone ==
    ASSUME NEW S, NEW T, S \subseteq T, NEW s \in Seq(S)
    PROVE  s \in Seq(T)
OBVIOUS

(* More root hashes are published: what was said of some published one      *)
(* still holds.                                                             *)
LEMMA MorePublished ==
    ASSUME BaseInv, published \subseteq published', UNCHANGED <<opener, mounts, verify>>
    PROVE  OpenerInv' /\ MountInv' /\ VerifyInv'
<1>1. OpenerInv'
  BY DEF BaseInv, OpenerInv
<1>2. MountInv'
  <2>1. Mounted \subseteq Mounted'
    BY DEF Mounted
  <2> QED
    BY <2>1, SeqMonotone DEF BaseInv, MountInv
<1>3. VerifyInv'
  <2>1. \A p : Compared(p) => Compared(p)'
    BY DEF Compared
  <2> QED
    BY <2>1 DEF BaseInv, VerifyInv
<1> QED
  BY <1>1, <1>2, <1>3

(* The root hash is published with the contents it stands for.              *)
LEMMA WriteHashStep ==
    ASSUME BaseInv, WriteHash
    PROVE  BaseInv'
<1>1. IsFormat(format)
  BY DEF WriteHash, Idle, BaseInv, FormatInv
<1>2. latest' = [hash |-> RootHash(format.contents), contents |-> format.contents]
      /\ published' = published \cup {latest'}
  BY DEF WriteHash, RootHash
<1>3. UNCHANGED <<files, meta, opener, mounts, verify>> /\ format' = Idle
  BY DEF WriteHash
<1>4. PublishedInv'
  <2>1. latest'.contents = format.contents /\ GoodContents(format.contents)
    BY <1>1, <1>2 DEF IsFormat
  <2>2. latest' = [hash |-> RootHash(latest'.contents), contents |-> latest'.contents]
    BY <1>2, <2>1
  <2>3. \A p \in published' : p \in published \/ p = latest'
    BY <1>2
  <2>4. \A p \in published :
          p = [hash |-> RootHash(p.contents), contents |-> p.contents] /\ GoodContents(p.contents)
    BY DEF BaseInv, PublishedInv
  <2> QED
    BY <2>1, <2>2, <2>3, <2>4, Zenon DEF PublishedInv
<1>5. LatestInv'
  BY <1>2, <1>3 DEF LatestInv
<1>6. FormatInv'
  BY <1>3 DEF FormatInv
<1>7. OpenerInv' /\ MountInv' /\ VerifyInv'
  BY <1>2, <1>3, MorePublished
<1> QED
  BY <1>3, <1>4, <1>5, <1>6, <1>7, Frame DEF BaseInv

(* A format that is killed leaves everything as it is.                      *)
LEMMA FormatDiesStep ==
    ASSUME BaseInv, FormatDies
    PROVE  BaseInv'
<1>1. FormatInv'
  BY DEF FormatDies, FormatInv
<1>2. MetaInv'
  BY Frame DEF FormatDies
<1> QED
  BY <1>1, <1>2, FormatFrame DEF FormatDies

(* Steps of openers leave everything alone but the openers and the mounts.  *)
LEMMA OpenerFrame ==
    ASSUME BaseInv, OpenerInv', MountInv',
           UNCHANGED <<files, meta, format, published, latest, verify>>
    PROVE  BaseInv'
BY Frame DEF BaseInv

(* open reads the metadata file.                                            *)
LEMMA OpenBeginStep ==
    ASSUME BaseInv, NEW o \in Openers, NEW p \in published, OpenBegin(o, p.hash)
    PROVE  BaseInv'
<1>1. UNCHANGED <<files, meta, format, published, latest, mounts, verify>>
  BY DEF OpenBegin
<1>2. opener' = [opener EXCEPT ![o] = [pc |-> "open", hash |-> p.hash, meta |-> meta]]
  BY DEF OpenBegin
<1>3. OpenerInv'
  BY <1>1, <1>2 DEF BaseInv, OpenerInv, MetaInv
<1> QED
  BY <1>1, <1>3, Frame, OpenerFrame

(* open mounts only what the format that published the hash has read.       *)
LEMMA OpenMountStep ==
    ASSUME BaseInv, NEW o \in Openers, OpenMount(o)
    PROVE  BaseInv'
<1>1. UNCHANGED <<files, meta, format, published, latest, verify>>
  BY DEF OpenMount
<1>2. IsMeta(opener[o].meta) /\ opener[o].pc = "open"
  BY DEF BaseInv, OpenerInv, OpenMount
<1>3. PICK p \in published : opener[o].hash = p.hash
  BY DEF BaseInv, OpenerInv, OpenMount
<1>4. CASE Accepts(opener[o].meta, opener[o].hash)
  <2>1. opener' = [opener EXCEPT ![o] = [pc |-> "mounted"]]
    BY <1>4 DEF OpenMount
  <2>2. OpenerInv'
    BY <1>1, <2>1 DEF BaseInv, OpenerInv
  <2>3. p.hash = RootHash(p.contents) /\ GoodContents(p.contents)
    BY DEF BaseInv, PublishedInv
  <2>4. opener[o].meta.infos = FileInfos(p.contents)
    BY <1>2, <1>3, <1>4, <2>3, AcceptedInfos
  <2>5. mounts' = Append(mounts, [opener |-> o, hash |-> p.hash, infos |-> FileInfos(p.contents)])
    BY <1>3, <1>4, <2>4 DEF OpenMount
  <2>6. Mounted' = Mounted
    BY <1>1 DEF Mounted
  <2>7. [opener |-> o, hash |-> p.hash, infos |-> FileInfos(p.contents)] \in Mounted
    BY DEF Mounted
  <2>8. MountInv'
    BY <2>5, <2>6, <2>7 DEF BaseInv, MountInv
  <2> QED
    BY <1>1, <2>2, <2>8, OpenerFrame
<1>5. CASE ~Accepts(opener[o].meta, opener[o].hash)
  <2>1. opener' = [opener EXCEPT ![o] = Idle] /\ UNCHANGED mounts
    BY <1>5 DEF OpenMount
  <2>2. OpenerInv'
    BY <1>1, <2>1 DEF BaseInv, OpenerInv, Idle
  <2> QED
    BY <1>1, <2>1, <2>2, Frame, OpenerFrame
<1> QED
  BY <1>4, <1>5

(* A sequence without one of its elements is over the same set.             *)
LEMMA WithoutOne ==
    ASSUME NEW S, NEW s \in Seq(S), NEW n \in 1 .. Len(s)
    PROVE  SubSeq(s, 1, n - 1) \o SubSeq(s, n + 1, Len(s)) \in Seq(S)
<1>1. SubSeq(s, 1, n - 1) \in Seq(S) /\ SubSeq(s, n + 1, Len(s)) \in Seq(S)
  OBVIOUS
<1> QED
  BY <1>1

(* A mount goes away.                                                       *)
LEMMA UnmountStep ==
    ASSUME BaseInv, NEW n \in DOMAIN mounts, Unmount(n)
    PROVE  BaseInv'
<1>1. UNCHANGED <<files, meta, format, published, latest, verify>>
  BY DEF Unmount
<1>2. mounts \in Seq(Mounted) /\ n \in 1 .. Len(mounts)
  BY DEF BaseInv, MountInv
<1>3. Mounted' = Mounted
  BY <1>1 DEF Mounted
<1>4. mounts' = SubSeq(mounts, 1, n - 1) \o SubSeq(mounts, n + 1, Len(mounts))
  BY DEF Unmount
<1>5. mounts' \in Seq(Mounted)
  BY <1>2, <1>4, WithoutOne
<1>6. MountInv'
  BY <1>3, <1>5 DEF MountInv
<1>7. OpenerInv'
  BY <1>1 DEF BaseInv, OpenerInv, Unmount, Idle
<1> QED
  BY <1>1, <1>6, <1>7, OpenerFrame

(* Steps of verify leave everything else alone.                             *)
LEMMA VerifyFrame ==
    ASSUME BaseInv, VerifyInv',
           UNCHANGED <<files, meta, format, published, latest, opener, mounts>>
    PROVE  BaseInv'
BY Frame DEF BaseInv

(* verify reads files only under a metadata file that it has accepted.      *)
LEMMA VerifyBeginStep ==
    ASSUME BaseInv, NEW p \in published, NEW only \in BOOLEAN, VerifyBegin(p.hash, only)
    PROVE  BaseInv'
<1> DEFINE ok == Accepts(meta, p.hash)
<1>1. UNCHANGED <<files, meta, format, published, latest, opener, mounts>>
  BY DEF VerifyBegin
<1>2. verify' = [pc |-> IF ok /\ ~only THEN "files" ELSE "idle",
                 result |-> IF ~ok THEN "failed" ELSE IF only THEN "ok" ELSE "none",
                 hash |-> p.hash, infos |-> meta.infos, todo |-> meta.infos,
                 seen |-> [q \in {} |-> Gone], full |-> ~only,
                 sure |-> calm /\ format = Idle /\ latest.hash = p.hash]
  BY DEF VerifyBegin, NoVerify
<1>3. IsVerify(verify)'
  BY <1>2 DEF IsVerify
<1>4. verify'.pc = "files" => verify'.result = "none" /\ Compared(p)'
  <2> SUFFICES ASSUME verify'.pc = "files" PROVE verify'.result = "none" /\ Compared(p)'
    OBVIOUS
  <2>1. ok /\ ~only
    BY <1>2
  <2>2. p.hash = RootHash(p.contents) /\ GoodContents(p.contents)
    BY DEF BaseInv, PublishedInv
  <2>3. meta.infos = FileInfos(p.contents)
    BY <2>1, <2>2, AcceptedInfos DEF BaseInv, MetaInv
  <2>4. verify'.seen = [q \in {i.path : i \in verify'.infos \ verify'.todo} |-> p.contents[q]]
    BY <1>2
  <2> QED
    BY <1>2, <2>1, <2>3, <2>4 DEF Compared
<1>5. ~(verify'.result = "ok" /\ verify'.full)
  BY <1>2
<1>6. VerifyInv'
  BY <1>1, <1>3, <1>4, <1>5 DEF VerifyInv
<1> QED
  BY <1>1, <1>6, VerifyFrame

(* A file that verify passes holds the content that the format read.        *)
LEMMA VerifyFileStep ==
    ASSUME BaseInv, NEW i \in verify.todo, VerifyFile(i)
    PROVE  BaseInv'
<1> DEFINE c == Read(i.path)
           ok == Present(i.path) /\ <<c.tree, c.size>> = i.descriptor_hash
<1>1. UNCHANGED <<files, meta, format, published, latest, opener, mounts>>
  BY DEF VerifyFile
<1>2. IsVerify(verify) /\ verify.pc = "files" /\ verify.result = "none"
  BY DEF VerifyFile, BaseInv, VerifyInv
<1>3. PICK p \in published : Compared(p)
  BY <1>2 DEF BaseInv, VerifyInv
<1>4. CASE ok
  <2>1. verify' = [verify EXCEPT !.todo = @ \ {i},
                     !.seen = [q \in DOMAIN @ \cup {i.path} |-> IF q = i.path THEN c ELSE @[q]]]
    BY <1>4 DEF VerifyFile
  <2>2. verify' = [pc |-> verify.pc, result |-> verify.result, hash |-> verify.hash,
                   infos |-> verify.infos, todo |-> verify.todo \ {i},
                   seen |-> [q \in DOMAIN verify.seen \cup {i.path} |->
                                IF q = i.path THEN c ELSE verify.seen[q]],
                   full |-> verify.full, sure |-> verify.sure]
    BY <1>2, <2>1 DEF IsVerify
  <2>3. GoodContents(p.contents) /\ i \in FileInfos(p.contents)
    BY <1>3 DEF BaseInv, PublishedInv, Compared
  <2>4. /\ i.path \in DOMAIN p.contents
        /\ i = calculate_fsverity_hash(i.path, p.contents[i.path])
    BY <2>3, GoodInfos
  <2>5. i.descriptor_hash = <<p.contents[i.path].tree, p.contents[i.path].size>>
    BY <2>4 DEF calculate_fsverity_hash
  <2>6. c.tree = p.contents[i.path].tree /\ c.size = p.contents[i.path].size
    BY <1>4, <2>5
  <2>7. IsContent(c) /\ IsContent(p.contents[i.path])
    BY <2>3, <2>4, ReadContent DEF GoodContents
  <2>8. c = p.contents[i.path]
    BY <2>6, <2>7 DEF IsContent
  <2> HIDE DEF c
  <2>9. Compared(p)'
    <3>1. verify'.infos \ verify'.todo = (verify.infos \ verify.todo) \cup {i}
      BY <1>3, <2>2 DEF Compared
    <3> DEFINE D == {j.path : j \in verify.infos \ verify.todo}
    <3>2. {j.path : j \in verify'.infos \ verify'.todo} = D \cup {i.path}
      BY <3>1
    <3>3. verify.seen = [q \in D |-> p.contents[q]]
      BY <1>3 DEF Compared
    <3> HIDE DEF D
    <3>4. verify'.seen = [q \in D \cup {i.path} |-> p.contents[q]]
      BY <2>2, <2>8, <3>3
    <3> QED
      BY <1>3, <2>2, <3>2, <3>4 DEF Compared
  <2>10. IsVerify(verify)'
    BY <1>2, <2>2 DEF IsVerify
  <2>11. VerifyInv'
    BY <1>1, <1>2, <2>2, <2>9, <2>10 DEF VerifyInv
  <2> QED
    BY <1>1, <2>11, VerifyFrame
<1>5. CASE ~ok
  <2>1. verify' = [verify EXCEPT !.pc = "idle", !.result = "failed"]
    BY <1>5 DEF VerifyFile
  <2>2. VerifyInv'
    BY <1>2, <2>1 DEF VerifyInv, IsVerify
  <2> QED
    BY <1>1, <2>2, VerifyFrame
<1> QED
  BY <1>4, <1>5

(* verify succeeds when no file is left to read.                            *)
LEMMA VerifyDoneStep ==
    ASSUME BaseInv, VerifyDone
    PROVE  BaseInv'
<1>1. UNCHANGED <<files, meta, format, published, latest, opener, mounts>>
  BY DEF VerifyDone
<1>2. IsVerify(verify) /\ verify.pc = "files" /\ verify.todo = {}
  BY DEF VerifyDone, BaseInv, VerifyInv
<1>3. PICK p \in published : Compared(p)
  BY <1>2 DEF BaseInv, VerifyInv
<1>4. verify' = [pc |-> "idle", result |-> "ok", hash |-> verify.hash,
                 infos |-> verify.infos, todo |-> verify.todo, seen |-> verify.seen,
                 full |-> verify.full, sure |-> verify.sure]
  BY <1>2 DEF VerifyDone, IsVerify
<1>5. Compared(p)'
  BY <1>3, <1>4 DEF Compared
<1>6. VerifyInv'
  BY <1>1, <1>2, <1>4, <1>5 DEF VerifyInv, IsVerify
<1> QED
  BY <1>1, <1>6, VerifyFrame

(* A file of the directory is edited or removed.                            *)
LEMMA ChangeFileStep ==
    ASSUME BaseInv, NEW q \in Elements(Paths), NEW c \in Contents \cup {Gone}, ChangeFile(q, c)
    PROVE  BaseInv'
<1>1. UNCHANGED <<meta, format, published, latest, opener, mounts>>
  BY DEF ChangeFile, Changed
<1>2. FilesInv'
  BY DEF ChangeFile, BaseInv, FilesInv
<1>3. VerifyInv'
  BY <1>1, SureForgotten DEF ChangeFile, Changed
<1> QED
  BY <1>1, <1>2, <1>3, Frame DEF BaseInv

(* The metadata file is damaged: it still is a list of file infos, or torn. *)
LEMMA DamageMetadataStep ==
    ASSUME BaseInv, DamageMetadata
    PROVE  BaseInv'
<1>1. UNCHANGED <<files, format, published, latest, opener, mounts>>
  BY DEF DamageMetadata, Changed
<1>2. VerifyInv'
  BY <1>1, SureForgotten DEF DamageMetadata, Changed
<1>3. IsMeta(meta)
  BY DEF BaseInv, MetaInv
<1>4. ASSUME NEW i \in meta.infos, NEW d \in Damaged(i) PROVE IsInfo(d)
  <2>1. IsInfo(i)
    BY <1>3 DEF IsMeta
  <2> QED
    BY <2>1 DEF Damaged, IsInfo
<1>5. MetaInv'
  <2>1. CASE \E i \in meta.infos : \E d \in Damaged(i) :
               meta' = [meta EXCEPT !.infos = (@ \ {i}) \cup {d}]
    BY <1>3, <1>4, <2>1 DEF MetaInv, IsMeta
  <2>2. CASE \E i \in meta.infos : meta' = [meta EXCEPT !.infos = @ \ {i}]
    BY <1>3, <2>2 DEF MetaInv, IsMeta
  <2>3. CASE meta' = [meta EXCEPT !.version = 2]
    BY <1>3, <2>3 DEF MetaInv, IsMeta
  <2>4. CASE meta' = Torn
    BY <2>4 DEF MetaInv, IsMeta, Torn
  <2> QED
    BY <2>1, <2>2, <2>3, <2>4 DEF DamageMetadata
<1> QED
  BY <1>1, <1>2, <1>5, Frame DEF BaseInv

(* Every step keeps the invariant.                                          *)
LEMMA BaseNext == BaseInv /\ [Next]_vars => BaseInv'
<1> SUFFICES ASSUME BaseInv, [Next]_vars PROVE BaseInv'
  OBVIOUS
<1>1. CASE \E force \in BOOLEAN : FormatBegin(force)
  BY <1>1, FormatBeginStep
<1>2. CASE CollectFiles \/ HashFile
  BY <1>2, CollectFilesStep, HashFileStep
<1>3. CASE WriteBegin \/ WriteMetadata \/ WriteHash \/ FormatDies
  BY <1>3, WriteBeginStep, WriteMetadataStep, WriteHashStep, FormatDiesStep
<1>4. CASE \E o \in Openers, p \in published : OpenBegin(o, p.hash)
  BY <1>4, OpenBeginStep
<1>5. CASE \E o \in Openers : OpenMount(o) \/ OpenerDies(o)
  BY <1>5, OpenMountStep, UnmountStep DEF OpenerDies
<1>6. CASE Close
  <2>1. mounts \in Seq(Mounted) /\ mounts # <<>>
    BY <1>6 DEF Close, is_mounted, BaseInv, MountInv
  <2>2. Len(mounts) \in DOMAIN mounts
    BY <2>1
  <2> QED
    BY <1>6, <2>2, UnmountStep DEF Close
<1>7. CASE \E p \in published, only \in BOOLEAN : VerifyBegin(p.hash, only)
  BY <1>7, VerifyBeginStep
<1>8. CASE VerifyDone \/ \E i \in verify.todo : VerifyFile(i)
  BY <1>8, VerifyFileStep, VerifyDoneStep
<1>9. CASE DamageMetadata \/ \E p \in Elements(Paths), c \in Contents \cup {Gone} : ChangeFile(p, c)
  BY <1>9, ChangeFileStep, DamageMetadataStep
<1>10. CASE UNCHANGED vars
  BY <1>10, Frame DEF BaseInv, vars
<1> QED
  BY <1>1, <1>2, <1>3, <1>4, <1>5, <1>6, <1>7, <1>8, <1>9, <1>10 DEF Next

-----------------------------------------------------------------------------
(* While nothing changes below.                                             *)

(* The files still are what was read of them.                               *)
StillAsRead(f) == \A q \in DOMAIN f \ {MetaPath} : files[q] = f[q] /\ files[q] # Gone

(* What the files and the metadata file hold since the last format began.   *)
CalmInv ==
    calm =>
      /\ format # Idle => StillAsRead(format.contents)
      /\ format.pc = "publish" => meta = serialize_metadata(FileInfos(format.contents))
      /\ latest # NoneLatest => /\ StillAsRead(latest.contents)
                                /\ meta = serialize_metadata(FileInfos(latest.contents))

(* Every file has been hashed or is about to be.                            *)
Covers(S) == {p \in Elements(Paths) : files[p] # Gone} \subseteq S

CoverInv ==
    calm /\ ~WalkErrors /\ MetaNamed = {} =>
      /\ format.pc = "hash" =>
           Covers(DOMAIN format.contents \cup {Walked[n] : n \in format.todo})
      /\ format.pc \in {"write", "publish"} => Covers(DOMAIN format.contents)
      /\ latest # NoneLatest => Covers(DOMAIN latest.contents)

(* A verify that began with the latest root hash in this time.              *)
SureInv ==
    verify.sure =>
      /\ calm /\ latest # NoneLatest
      /\ verify.pc = "files" => verify.todo \subseteq FileInfos(latest.contents)
      /\ ~MetaInside => verify.result # "failed"

QuietInv == CalmInv /\ CoverInv /\ SureInv

(* A conjunct is kept by a step that leaves its variables alone.            *)
LEMMA QuietFrame ==
    ASSUME QuietInv
    PROVE  /\ UNCHANGED <<calm, files, format, meta, latest>> => CalmInv' /\ CoverInv'
           /\ UNCHANGED <<calm, latest, verify>> => SureInv'
<1>1. UNCHANGED <<calm, files, format, meta, latest>> => CalmInv'
  BY Zenon DEF QuietInv, CalmInv, StillAsRead
<1>2. UNCHANGED <<calm, files, format, meta, latest>> => CoverInv'
  <2>1. ASSUME UNCHANGED files, NEW S PROVE Covers(S)' <=> Covers(S)
    BY <2>1 DEF Covers
  <2> QED
    BY <2>1 DEF QuietInv, CoverInv
<1>3. UNCHANGED <<calm, latest, verify>> => SureInv'
  <2> SUFFICES ASSUME calm' = calm, latest' = latest, verify' = verify, verify'.sure
               PROVE  SureInv'
    BY DEF SureInv
  <2>1. verify.sure
    OBVIOUS
  <2>2. SureInv
    BY DEF QuietInv
  <2> QED
    BY <2>1, <2>2 DEF SureInv
<1> QED
  BY <1>1, <1>2, <1>3

(* The invariant holds initially.                                           *)
LEMMA QuietInit == Init => QuietInv
BY DEF Init, QuietInv, CalmInv, CoverInv, SureInv, NoVerify

(* The steps of a format keep the invariant; no verify is sure meanwhile.   *)
LEMMA QuietFormat ==
    ASSUME BaseInv, QuietInv,
           \/ \E force \in BOOLEAN : FormatBegin(force)
           \/ CollectFiles \/ HashFile \/ WriteBegin \/ WriteMetadata \/ WriteHash \/ FormatDies
    PROVE  QuietInv'
<1>1. CASE \E force \in BOOLEAN : FormatBegin(force)
  <2>1. PICK force \in BOOLEAN : FormatBegin(force)
    BY <1>1
  <2>2. /\ format' = [pc |-> "walk", todo |-> {}, contents |-> [p \in {} |-> Gone]]
        /\ latest' = NoneLatest /\ verify' = [verify EXCEPT !.sure = FALSE]
    BY <2>1 DEF FormatBegin
  <2>3. ~verify'.sure
    BY <2>2 DEF BaseInv, VerifyInv, IsVerify
  <2>4. CalmInv' /\ CoverInv'
    BY <2>2 DEF CalmInv, CoverInv, StillAsRead
  <2> QED
    BY <2>3, <2>4 DEF QuietInv, SureInv
<1>2. ASSUME format # Idle, UNCHANGED verify
      PROVE  latest = NoneLatest /\ SureInv'
  BY <1>2 DEF BaseInv, LatestInv, QuietInv, SureInv
<1>3. format # Idle => IsFormat(format)
  BY DEF BaseInv, FormatInv
<1>4. CASE CollectFiles
  <2>1. format # Idle /\ UNCHANGED <<files, latest, verify, calm>>
    <3>1. UNCHANGED <<files, latest, verify, calm>>
      BY <1>4, Zenon DEF CollectFiles
    <3>2. format.pc = "walk"
      BY <1>4, Zenon DEF CollectFiles
    <3>3. format # Idle
      BY <3>2 DEF Idle
    <3> QED
      BY <3>1, <3>2, <3>3
  <2>2. PICK found \in {Elements(Walked)} \cup (IF WalkErrors THEN SUBSET Elements(Walked) ELSE {}) :
          format' = [format EXCEPT !.pc = "hash",
                       !.todo = {n \in DOMAIN Walked : Walked[n] \in found /\ Collected(Walked[n])}]
    BY <1>4 DEF CollectFiles
  <2>3. format' = [pc |-> "hash", contents |-> format.contents,
                   todo |-> {n \in DOMAIN Walked : Walked[n] \in found /\ Collected(Walked[n])}]
    BY <1>3, <2>1, <2>2 DEF IsFormat
  <2>4. CalmInv'
    BY <1>2, <2>1, <2>3 DEF QuietInv, CalmInv, StillAsRead
  <2>5. CoverInv'
    <3> SUFFICES ASSUME ~WalkErrors, MetaNamed = {}, NEW q \in Elements(Paths), files[q] # Gone
                 PROVE  \E n \in format'.todo : Walked[n] = q
      BY <1>2, <2>1, <2>3 DEF CoverInv, Covers
    <3>1. found = Elements(Walked)
      BY <2>2
    <3>2. q \in Elements(Walked) /\ q # MetaPath
      BY WalkedElements, ReservedPaths
    <3>3. PICK n \in DOMAIN Walked : Walked[n] = q
      BY <3>2 DEF Elements
    <3>4. Collected(q)
      BY <3>2 DEF Collected, Present
    <3> QED
      BY <2>3, <3>1, <3>2, <3>3, <3>4
  <2> QED
    BY <1>2, <2>1, <2>4, <2>5 DEF QuietInv
<1>5. CASE HashFile
  <2>1. format # Idle /\ format.pc = "hash" /\ UNCHANGED <<files, latest, verify, calm>>
    <3>1. UNCHANGED <<files, latest, verify, calm>>
      BY <1>5, Zenon DEF HashFile
    <3>2. format.pc = "hash"
      BY <1>5, Zenon DEF HashFile
    <3>3. format # Idle
      BY <3>2 DEF Idle
    <3> QED
      BY <3>1, <3>2, <3>3
  <2>2. PICK n \in format.todo :
          format' = IF Present(Walked[n])
                    THEN [format EXCEPT !.todo = @ \ {n},
                            !.contents = [q \in DOMAIN @ \cup {Walked[n]} |->
                                             IF q = Walked[n] THEN Read(Walked[n]) ELSE @[q]]]
                    ELSE Idle
    BY <1>5 DEF HashFile
  <2> DEFINE p == Walked[n]
             c == [q \in DOMAIN format.contents \cup {p} |->
                      IF q = p THEN Read(p) ELSE format.contents[q]]
  <2>3. CASE ~Present(p)
    BY <1>2, <2>1, <2>2, <2>3 DEF QuietInv, CalmInv, CoverInv, Idle
  <2>4. CASE Present(p)
    <3>1. format' = [pc |-> "hash", todo |-> format.todo \ {n}, contents |-> c]
      BY <1>3, <2>1, <2>2, <2>4 DEF IsFormat
    <3>2. p # MetaPath => Read(p) = files[p] /\ files[p] # Gone
      BY <2>4 DEF Read, Present
    <3>3. DOMAIN c = DOMAIN format.contents \cup {p}
          /\ \A q \in DOMAIN c : c[q] = IF q = p THEN Read(p) ELSE format.contents[q]
      OBVIOUS
    <3>4. {Walked[k] : k \in format.todo} \subseteq {Walked[k] : k \in format.todo \ {n}} \cup {p}
      OBVIOUS
    <3> HIDE DEF p, c
    <3>5. CalmInv'
      BY <1>2, <2>1, <3>1, <3>2, <3>3 DEF QuietInv, CalmInv, StillAsRead
    <3>6. CoverInv'
      <4>1. DOMAIN format.contents \cup {Walked[k] : k \in format.todo}
              \subseteq DOMAIN format'.contents \cup {Walked[k] : k \in format'.todo}
        BY <3>1, <3>3, <3>4
      <4> QED
        BY <1>2, <2>1, <3>1, <4>1 DEF QuietInv, CoverInv, Covers
    <3> QED
      BY <1>2, <2>1, <3>5, <3>6 DEF QuietInv
  <2> QED
    BY <2>3, <2>4
<1>6. CASE WriteBegin
  <2>1. format # Idle /\ format.pc = "hash" /\ format.todo = {}
        /\ UNCHANGED <<files, latest, verify, calm>> /\ format' = [format EXCEPT !.pc = "write"]
    BY <1>6 DEF WriteBegin, Idle
  <2>2. format' = [pc |-> "write", todo |-> {}, contents |-> format.contents]
    BY <1>3, <2>1 DEF IsFormat
  <2>3. CalmInv' /\ CoverInv'
    BY <1>2, <2>1, <2>2 DEF QuietInv, CalmInv, CoverInv, StillAsRead, Covers
  <2> QED
    BY <1>2, <2>1, <2>3 DEF QuietInv
<1>7. CASE WriteMetadata
  <2>1. format # Idle /\ format.pc = "write" /\ UNCHANGED <<files, latest, verify, calm>>
        /\ meta' = serialize_metadata(FileInfos(format.contents))
        /\ format' = [format EXCEPT !.pc = "publish"]
    BY <1>7 DEF WriteMetadata, Idle
  <2>2. format' = [pc |-> "publish", todo |-> format.todo, contents |-> format.contents]
    BY <1>3, <2>1 DEF IsFormat
  <2>3. CalmInv' /\ CoverInv'
    BY <1>2, <2>1, <2>2 DEF QuietInv, CalmInv, CoverInv, StillAsRead, Covers
  <2> QED
    BY <1>2, <2>1, <2>3 DEF QuietInv
<1>8. CASE WriteHash
  <2>1. format # Idle /\ format.pc = "publish" /\ UNCHANGED <<files, meta, verify, calm>>
        /\ latest'.contents = format.contents /\ format' = Idle
    BY <1>8 DEF WriteHash, Idle
  <2>2. CalmInv'
    BY <2>1 DEF QuietInv, CalmInv, StillAsRead, Idle
  <2>3. CoverInv'
    BY <2>1 DEF QuietInv, CoverInv, Covers, Idle
  <2> QED
    BY <1>2, <2>1, <2>2, <2>3 DEF QuietInv
<1>9. CASE FormatDies
  <2>1. format # Idle /\ UNCHANGED <<latest, verify>> /\ format' = Idle
    BY <1>9 DEF FormatDies
  <2>2. CalmInv' /\ CoverInv'
    BY <1>2, <2>1 DEF CalmInv, CoverInv, Idle
  <2> QED
    BY <1>2, <2>1, <2>2 DEF QuietInv
<1> QED
  BY <1>1, <1>4, <1>5, <1>6, <1>7, <1>8, <1>9

(* The steps of verify keep the invariant: a verify of the latest root hash *)
(* accepts the metadata file and finds every file as it was read.           *)
LEMMA QuietVerify ==
    ASSUME BaseInv, QuietInv,
           \/ \E p \in published, only \in BOOLEAN : VerifyBegin(p.hash, only)
           \/ \E i \in verify.todo : VerifyFile(i)
           \/ VerifyDone
    PROVE  QuietInv'
<1>0. UNCHANGED <<files, meta, format, latest, calm>>
  BY DEF VerifyBegin, VerifyFile, VerifyDone
<1>1. latest # NoneLatest =>
        GoodContents(latest.contents) /\ latest.hash = RootHash(latest.contents)
  BY DEF BaseInv, LatestInv, PublishedInv
<1>2. CASE \E p \in published, only \in BOOLEAN : VerifyBegin(p.hash, only)
  <2>1. PICK p \in published, only \in BOOLEAN : VerifyBegin(p.hash, only)
    BY <1>2
  <2> DEFINE ok == Accepts(meta, p.hash)
  <2>2. verify' = [pc |-> IF ok /\ ~only THEN "files" ELSE "idle",
                   result |-> IF ~ok THEN "failed" ELSE IF only THEN "ok" ELSE "none",
                   hash |-> p.hash, infos |-> meta.infos, todo |-> meta.infos,
                   seen |-> [q \in {} |-> Gone], full |-> ~only,
                   sure |-> calm /\ format = Idle /\ latest.hash = p.hash]
    BY <2>1 DEF VerifyBegin, NoVerify
  <2>3. SureInv'
    <3> SUFFICES ASSUME verify'.sure PROVE SureInv'
      BY DEF SureInv
    <3>1. calm /\ latest.hash = p.hash
      BY <2>2
    <3>2. p.hash # Failed
      BY GoodHash DEF BaseInv, PublishedInv
    <3>3. latest # NoneLatest
      BY <3>1, <3>2 DEF NoneLatest
    <3>4. meta = serialize_metadata(FileInfos(latest.contents))
      BY <3>1, <3>3 DEF QuietInv, CalmInv
    <3>5. ok
      BY <1>1, <3>1, <3>3, <3>4, OwnAccepted
    <3>6. meta.infos = FileInfos(latest.contents)
      BY <3>4 DEF serialize_metadata
    <3>7. verify'.todo = FileInfos(latest.contents) /\ verify'.result # "failed"
      BY <2>2, <3>5, <3>6
    <3> QED
      BY <1>0, <3>1, <3>3, <3>7 DEF SureInv
  <2> QED
    BY <1>0, <2>3, QuietFrame DEF QuietInv
<1>3. CASE \E i \in verify.todo : VerifyFile(i)
  <2>1. PICK i \in verify.todo : VerifyFile(i)
    BY <1>3
  <2> DEFINE c == Read(i.path)
             ok == Present(i.path) /\ <<c.tree, c.size>> = i.descriptor_hash
  <2>2. IsVerify(verify) /\ verify.pc = "files"
    BY <2>1 DEF VerifyFile, BaseInv, VerifyInv
  <2>3. verify' = IF ok THEN [verify EXCEPT !.todo = @ \ {i},
                                !.seen = [p \in DOMAIN @ \cup {i.path} |->
                                             IF p = i.path THEN c ELSE @[p]]]
                  ELSE [verify EXCEPT !.pc = "idle", !.result = "failed"]
    BY <2>1 DEF VerifyFile
  <2>4. verify'.sure = verify.sure /\ (verify'.pc = "files" => verify'.todo \subseteq verify.todo)
        /\ (ok => verify'.result = verify.result)
    BY <2>2, <2>3 DEF IsVerify
  <2>5. verify.sure /\ ~MetaInside => ok
    <3> SUFFICES ASSUME verify.sure, ~MetaInside PROVE ok
      OBVIOUS
    <3>1. calm /\ latest # NoneLatest /\ i \in FileInfos(latest.contents)
      BY <2>2 DEF QuietInv, SureInv
    <3> DEFINE f == latest.contents
    <3>2. GoodContents(f) /\ StillAsRead(f)
      BY <1>1, <3>1 DEF QuietInv, CalmInv
    <3>3. i.path \in DOMAIN f /\ i = calculate_fsverity_hash(i.path, f[i.path])
      BY <3>1, <3>2, GoodInfos
    <3>4. i.path # MetaPath
      BY <3>2, <3>3, WalkedElements, ReservedPaths DEF GoodContents
    <3>5. files[i.path] = f[i.path] /\ files[i.path] # Gone
      BY <3>2, <3>3, <3>4 DEF StillAsRead
    <3>6. c = f[i.path] /\ Present(i.path)
      BY <3>4, <3>5 DEF Read, Present
    <3>7. i.descriptor_hash = <<f[i.path].tree, f[i.path].size>>
      BY <3>3 DEF calculate_fsverity_hash
    <3> QED
      BY <3>6, <3>7
  <2> HIDE DEF ok
  <2>6. SureInv'
    BY <1>0, <2>2, <2>4, <2>5 DEF QuietInv, SureInv
  <2> QED
    BY <1>0, <2>6, QuietFrame DEF QuietInv
<1>4. CASE VerifyDone
  <2>1. verify'.sure = verify.sure /\ verify'.pc = "idle" /\ verify'.result = "ok"
    BY <1>4 DEF VerifyDone, BaseInv, VerifyInv, IsVerify
  <2>2. SureInv'
    BY <1>0, <2>1 DEF QuietInv, SureInv
  <2> QED
    BY <1>0, <2>2, QuietFrame DEF QuietInv
<1> QED
  BY <1>2, <1>3, <1>4

(* Every step keeps the invariant.                                          *)
LEMMA QuietNext == BaseInv /\ QuietInv /\ [Next]_vars => QuietInv'
<1> SUFFICES ASSUME BaseInv, QuietInv, [Next]_vars PROVE QuietInv'
  OBVIOUS
<1>1. CASE \/ \E force \in BOOLEAN : FormatBegin(force)
           \/ CollectFiles \/ HashFile \/ WriteBegin \/ WriteMetadata \/ WriteHash \/ FormatDies
  BY <1>1, QuietFormat
<1>2. CASE \/ \E o \in Openers, p \in published : OpenBegin(o, p.hash)
           \/ \E o \in Openers : OpenMount(o) \/ OpenerDies(o)
           \/ Close
  <2>1. UNCHANGED <<files, meta, format, latest, calm, verify>>
    BY <1>2 DEF OpenBegin, OpenMount, OpenerDies, Close, Unmount
  <2> QED
    BY <2>1, QuietFrame DEF QuietInv
<1>3. CASE \/ \E p \in published, only \in BOOLEAN : VerifyBegin(p.hash, only)
           \/ \E i \in verify.todo : VerifyFile(i)
           \/ VerifyDone
  BY <1>3, QuietVerify
<1>4. CASE DamageMetadata \/ \E p \in Elements(Paths), c \in Contents \cup {Gone} : ChangeFile(p, c)
  <2>1. Changed
    BY <1>4 DEF DamageMetadata, ChangeFile
  <2>2. ~calm' /\ ~verify'.sure
    BY <2>1 DEF Changed, BaseInv, VerifyInv, IsVerify
  <2> QED
    BY <2>2 DEF QuietInv, CalmInv, CoverInv, SureInv
<1>5. CASE UNCHANGED vars
  BY <1>5, QuietFrame DEF QuietInv, vars
<1> QED
  BY <1>1, <1>2, <1>3, <1>4, <1>5 DEF Next

-----------------------------------------------------------------------------
(* The theorems.                                                            *)

(* The invariant holds in every reachable state.                            *)
LEMMA Invariance == Spec => [](BaseInv /\ QuietInv)
<1>1. Init => BaseInv /\ QuietInv
  BY BaseInit, QuietInit
<1>2. (BaseInv /\ QuietInv) /\ [Next]_vars => (BaseInv /\ QuietInv)'
  BY BaseNext, QuietNext
<1> QED
  BY <1>1, <1>2, PTL DEF Spec

(* Whatever happened to the metadata file, a mount verifies reads against   *)
(* what the format that printed its root hash read, and a full verify that  *)
(* succeeds has read the same contents (open, verify_metadata).             *)
THEOREM ServedAsFormatted == Spec => []AsFormatted
<1>1. BaseInv => AsFormatted
  <2> SUFFICES ASSUME BaseInv PROVE AsFormatted
    OBVIOUS
  <2>1. ASSUME NEW n \in DOMAIN mounts
        PROVE  \E p \in published :
                   mounts[n].hash = p.hash /\ mounts[n].infos = FileInfos(p.contents)
    <3>1. mounts[n] \in Mounted
      BY DEF BaseInv, MountInv
    <3> QED
      BY <3>1 DEF Mounted
  <2>2. ASSUME verify.result = "ok", verify.full
        PROVE  \E p \in published : verify.hash = p.hash /\ verify.seen = p.contents
    <3>1. PICK p \in published : verify.todo = {} /\ Compared(p)
      BY <2>2 DEF BaseInv, VerifyInv
    <3>2. GoodContents(p.contents)
      BY DEF BaseInv, PublishedInv
    <3>3. {i.path : i \in FileInfos(p.contents)} = DOMAIN p.contents
      <4>1. \A i \in FileInfos(p.contents) : i.path \in DOMAIN p.contents
        BY <3>2, GoodInfos
      <4>2. ASSUME NEW q \in DOMAIN p.contents PROVE \E i \in FileInfos(p.contents) : q = i.path
        <5>1. calculate_fsverity_hash(q, p.contents[q]) \in FileInfos(p.contents)
          BY DEF FileInfos
        <5>2. calculate_fsverity_hash(q, p.contents[q]).path = q
          BY DEF calculate_fsverity_hash
        <5> QED
          BY <5>1, <5>2
      <4> QED
        BY <4>1, <4>2
    <3>4. {i.path : i \in verify.infos \ verify.todo} = DOMAIN p.contents
      BY <3>1, <3>3 DEF Compared
    <3>5. verify.seen = [q \in DOMAIN p.contents |-> p.contents[q]] /\ verify.hash = p.hash
      BY <3>1, <3>4 DEF Compared
    <3> QED
      BY <3>2, <3>5 DEF GoodContents
  <2> QED
    BY <2>1, <2>2 DEF AsFormatted
<1> QED
  BY <1>1, Invariance, PTL

(* The Go reader and the Rust one accept the same metadata files under      *)
(* every root hash that format printed, although only the Rust one refuses  *)
(* a missing path or hash by itself (verity-go/metadata).                   *)
THEOREM ReadersAgree == Spec => []GoAgrees
<1>1. BaseInv => GoAgrees
  <2> SUFFICES ASSUME BaseInv, NEW p \in published
               PROVE  GoAccepts(meta, p.hash) <=> Accepts(meta, p.hash)
    BY DEF GoAgrees
  <2> DEFINE f == p.contents
             Pairs(S) == {<<i.path, i.descriptor_hash>> : i \in S}
  <2>1. GoodContents(f) /\ p.hash = RootHash(f)
    BY DEF BaseInv, PublishedInv
  <2>2. p.hash # Failed /\ p.hash.pairs = Pairs(FileInfos(f))
    BY <2>1, GoodHash
  <2>3. ASSUME Accepts(meta, p.hash) PROVE GoAccepts(meta, p.hash)
    BY <2>3 DEF Accepts, GoAccepts, GoDeserialize, deserialize_metadata, GoMetadataHash,
                calculate_metadata_hash, verify_self, GoVerifySelf
  <2>4. ASSUME GoAccepts(meta, p.hash) PROVE Accepts(meta, p.hash)
    <3>1. Pairs(meta.infos) = Pairs(FileInfos(f))
      BY <2>2, <2>4 DEF GoAccepts, GoMetadataHash
    <3>2. ASSUME NEW i \in meta.infos PROVE i.path # NoPath /\ i.descriptor_hash # NoHash
      <4>1. <<i.path, i.descriptor_hash>> \in Pairs(meta.infos)
        OBVIOUS
      <4>2. PICK j \in FileInfos(f) : <<i.path, i.descriptor_hash>> = <<j.path, j.descriptor_hash>>
        BY <3>1, <4>1, Zenon
      <4>3. j.path # NoPath /\ j.descriptor_hash # NoHash
        BY <2>1, GoodInfos
      <4> QED
        BY <4>2, <4>3
    <3>3. meta.state = "whole" /\ meta.version = 1 /\ GoMetadataHash(meta) = p.hash
      BY <2>4 DEF GoAccepts, GoDeserialize
    <3>4. calculate_metadata_hash(meta) = p.hash
      BY <3>2, <3>3 DEF calculate_metadata_hash, GoMetadataHash
    <3>5. deserialize_metadata(meta)
      BY <3>2, <3>3 DEF deserialize_metadata
    <3>6. \A i \in meta.infos : verify_self(i)
      BY <2>4 DEF GoAccepts, GoVerifySelf, verify_self
    <3> QED
      BY <2>2, <3>4, <3>5, <3>6 DEF Accepts
  <2> QED
    BY <2>3, <2>4
<1> QED
  BY <1>1, Invariance, PTL

(* Where the walk reports every file, no file bears the name of a metadata  *)
(* file and the metadata file lies outside: as long as nothing changes      *)
(* since a format began, its root hash covers every file and verify with it *)
(* does not fail, however openers, verifies and dying formats interleave.   *)
THEOREM FormattedVerifies ==
    ~MetaInside /\ ~WalkErrors /\ MetaNamed = {} => (Spec => []FormatThenVerify)
<1> SUFFICES ASSUME ~MetaInside, ~WalkErrors, MetaNamed = {}
             PROVE  Spec => []FormatThenVerify
  OBVIOUS
<1>1. QuietInv => FormatThenVerify
  BY DEF QuietInv, CoverInv, Covers, SureInv, FormatThenVerify
<1> QED
  BY <1>1, Invariance, PTL

(* verify does not fail in that time even if the walk of the directory was  *)
(* cut short or skipped files: only a metadata file inside the directory    *)
(* stands in the way.                                                       *)
THEOREM SureVerifies ==
    ~MetaInside => (Spec => [](verify.sure => verify.result # "failed"))
<1> SUFFICES ASSUME ~MetaInside
             PROVE  Spec => [](verify.sure => verify.result # "failed")
  OBVIOUS
<1>1. QuietInv => (verify.sure => verify.result # "failed")
  BY DEF QuietInv, SureInv
<1> QED
  BY <1>1, Invariance, PTL
=============================================================================
