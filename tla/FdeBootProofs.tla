--------------------------- MODULE FdeBootProofs ---------------------------
(***************************************************************************)
(* Machine-checked proofs about FdeBoot, for any images, user data and     *)
(* bind directories and any number of boots and faults.                    *)
(***************************************************************************)
EXTENDS FdeBoot, TLAPS

(* The calls of a boot, in the order they are reached: up to the format of *)
(* the delta volume, up to its mark, and once the volumes are set up.      *)
Early == {"config1", "time", "metadata", "delta", "zero", "luks"}
Middle == {"ext4", "chain", "snapshot", "mark"}
Late == {"sysroot", "config2", "check", "overlay", "bind", "copy", "running"}
Marked == {"mark"} \union Late

Headers == [state : {"None", "Initializing", "Ready"}, vk : Nat]
Kinds == {"none", "ext4", "torn", "zeroed", "chunks", "cow"}
Binds == [Dirs -> {"absent", "partial", "cut", "complete"}]
Stores == [vk : Nat, kind : Kinds, writes : SUBSET Nat, binds : Binds]
Bundles == [cfg : Configs, source : {"none", "local", "cloud"}, agent : {"none", "Aael", "Nope"}]

TypeInv ==
    /\ lv \in BOOLEAN /\ hdr \in Headers /\ store \in Stores
    /\ image \in Images /\ session \in Nat
    /\ pc \in {"off", "failed"} \union Early \union Middle \union Late
    /\ initrd \in Bundles
    /\ recreate \in BOOLEAN
    /\ upper \in {"none", "disk", "ram"}
    /\ dirs \in Seq(Dirs) /\ mounted \in SUBSET Dirs

(* One configuration per boot: initrd_state.toml is written once, and the  *)
(* first stage acts on what it holds.                                      *)
ConfigInv ==
    /\ pc \in {"off", "config1"} => initrd = NoConfig
    /\ pc \notin {"off", "config1", "failed"} => initrd # NoConfig /\ used = cfg
    /\ initrd.agent = "Aael" => cfg \in measured

(* Which calls a configuration leads to. *)
PathInv ==
    /\ pc \in {"delta", "zero", "luks", "overlay", "bind", "copy"} \union Middle => cfg.fde
    /\ pc \in {"delta", "zero", "luks"} \union Middle \union Late /\ cfg.fde =>
          image.metadata = "type 1"
    /\ pc \in {"zero", "luks", "ext4", "bind", "copy"} => OnDisk(cfg)
    /\ pc = "mark" /\ cfg.backend = "overlayfs" => OnDisk(cfg)
    /\ pc = "running" /\ cfg.fde /\ cfg.backend = "overlayfs" => OnDisk(cfg)
    /\ pc \in {"ext4", "overlay", "bind", "copy"} => cfg.backend = "overlayfs"
    /\ pc \in {"chain", "snapshot"} => cfg.backend = "dm-snapshot"

(* Which devices are active. *)
DeviceInv ==
    /\ pc \in {"off"} \union Early => "delta" \notin dm
    /\ pc # "failed" /\ "delta" \in dm => cfg.fde /\ OnDisk(cfg)
    /\ cfg.fde /\ cfg.backend = "dm-snapshot" =>
         /\ pc \in {"delta", "zero", "luks"} \union Middle \union Late => "rootfs_verity" \in dm
         /\ pc \in {"snapshot"} \union Marked => "rootfs_extended" \in dm
         /\ pc \in Marked => "rootfs" \in dm

(* Which layer takes the writes to the root filesystem. *)
UpperInv ==
    /\ pc \in {"overlay", "bind", "copy", "running"} /\ cfg.fde => sysroot = "rootfs"
    /\ pc # "failed" /\ upper # "none" => cfg.fde
    /\ pc \in {"bind", "copy"} => upper = "disk"
    /\ pc = "running" /\ cfg.fde /\ cfg.backend = "overlayfs" => upper = "disk"
    /\ pc \in Marked /\ cfg.fde /\ cfg.backend = "dm-snapshot" =>
          IF PersistentCow THEN upper = "disk" ELSE upper = "ram"
    /\ IF pc = "off" THEN ramWrites = {} ELSE ramWrites \subseteq {session}

(* What is on the disk, at any time: a header that is not Ready has no     *)
(* writes under it, and before the format nothing is written under the     *)
(* volume key that this boot would draw.                                   *)
DiskInv ==
    /\ ~lv => hdr.state = "None"
    /\ pc \in {"zero", "luks"} \/ recreate => lv
    /\ pc = "zero" => hdr.state = "None"
    /\ hdr.vk <= session /\ store.vk <= session
    /\ store.kind \notin {"ext4", "cow"} => store.writes = {}
    /\ store.vk = hdr.vk /\ hdr.state = "Initializing" => store.writes = {}
    /\ pc \in Early => store.vk < session

(* What the first stage knows of the delta volume, call by call. *)
DeltaInv ==
    pc \in Middle \union Late /\ cfg.fde /\ OnDisk(cfg) =>
        /\ ~Persists(cfg) => recreate
        /\ IF recreate THEN hdr.vk = session ELSE hdr.state = "Ready"
        /\ pc \in Late => hdr.state = "Ready"
        /\ pc \in {"ext4", "chain"} /\ recreate => store.vk < session
        /\ pc \in Marked /\ cfg.backend = "overlayfs" => store.vk = hdr.vk /\ store.kind = "ext4"
        /\ pc = "snapshot" /\ PersistentCow =>
              /\ store.vk = hdr.vk /\ store.kind \in {"zeroed", "cow"}
              /\ recreate => store.writes = {}
        /\ pc \in Marked /\ cfg.backend = "dm-snapshot" /\ PersistentCow =>
              store.vk = hdr.vk /\ store.kind = "cow"
        /\ pc \in Marked /\ recreate /\ (cfg.backend = "overlayfs" \/ PersistentCow) =>
              store.writes \subseteq {session}

(* The directories still to be bound, and those that are. *)
DirsInv ==
    /\ pc \notin {"bind", "copy", "running"} => dirs = BindDirs /\ mounted = {}
    /\ pc \in {"bind", "copy"} => dirs # <<>>
    /\ pc = "running" /\ mounted # {} => upper = "disk" /\ cfg.backend = "overlayfs"
    /\ \A i, j \in 1..Len(dirs) : dirs[i] = dirs[j] => i = j

(* The bind origins: only the one being copied is partial; in a delta      *)
(* volume made by this boot those not yet looked at do not exist.          *)
BindsInv ==
    /\ \A d \in Dirs : store.binds[d] = "partial" => pc = "copy" /\ d = Head(dirs)
    /\ pc = "copy" => store.binds[Head(dirs)] = "partial"
    /\ \A d \in mounted : store.binds[d] \in {"complete", "cut"}
    /\ pc \in Marked /\ cfg.fde /\ cfg.backend = "overlayfs" /\ OnDisk(cfg) /\ recreate =>
          /\ \A d \in mounted : store.binds[d] = "complete"
          /\ \A i \in 1..Len(dirs) : store.binds[dirs[i]] = "absent" \/ (pc = "copy" /\ i = 1)

BootInv ==
    /\ TypeInv /\ ConfigInv /\ PathInv /\ DeviceInv /\ UpperInv
    /\ DiskInv /\ DeltaInv /\ DirsInv /\ BindsInv

-----------------------------------------------------------------------------
(* What a boot loads is a configuration with the fields of one. *)
LEMMA Loadable ==
    /\ NoConfig \in Bundles /\ NoConfig.cfg.fde = FALSE
    /\ \A i \in Images : [cfg |-> i.cfg, source |-> "local", agent |-> "none"] \in Bundles
    /\ \A c \in CloudBundles, a \in {"Aael", "Nope"} :
          [cfg |-> c, source |-> "cloud", agent |-> a] \in Bundles
<1>1. NoConfig \in Bundles /\ NoConfig.cfg.fde = FALSE
  BY DEF NoConfig, NoFde, Configs, Locations, Backends, Bundles
<1>2. \A i \in Images : i.cfg \in Configs
  BY FdeBootAssumption, Zenon DEF FdeBootAssumption
<1>3. \A c \in CloudBundles : c \in Configs
  BY FdeBootAssumption, Zenon DEF FdeBootAssumption, CloudBundles, parse_from_user_data
<1>4. QED
  BY <1>1, <1>2, <1>3 DEF Bundles

(* The directories to bind, when a machine is started. *)
LEMMA DirsToBind ==
    /\ BindDirs \in Seq(Dirs) /\ BindDirs # <<>>
    /\ \A i, j \in 1..Len(BindDirs) : BindDirs[i] = BindDirs[j] => i = j
BY FdeBootAssumption, Zenon DEF FdeBootAssumption

(* What is left of a sequence of distinct directories after the first. *)
LEMMA TailDirs ==
    ASSUME NEW s \in Seq(Dirs), s # <<>>
    PROVE  /\ Head(s) \in Dirs /\ Head(s) = s[1] /\ Tail(s) \in Seq(Dirs)
           /\ 1 \in 1..Len(s) /\ Len(Tail(s)) = Len(s) - 1
           /\ \A i \in 1..Len(Tail(s)) : i + 1 \in 1..Len(s) /\ Tail(s)[i] = s[i + 1]
OBVIOUS

(* The fields of the header, of the delta volume's content and of what the *)
(* boot loaded.                                                            *)
LEMMA Fields ==
    ASSUME TypeInv
    PROVE  /\ hdr.state \in {"None", "Initializing", "Ready"} /\ hdr.vk \in Nat
           /\ store.vk \in Nat /\ store.kind \in Kinds /\ store.writes \in SUBSET Nat
           /\ store.binds \in Binds
           /\ cfg.fde \in BOOLEAN /\ cfg.location \in Locations /\ cfg.backend \in Backends
           /\ cfg.key \in {"persistent", "temporary"}
BY DEF TypeInv, Headers, Stores, Bundles, Configs, cfg

(* A delta volume that was just made holds nothing. *)
LEMMA EmptyStore ==
    ASSUME NEW v \in Nat, NEW k \in Kinds
    PROVE  /\ Empty(v, k) \in Stores
           /\ Empty(v, k).vk = v /\ Empty(v, k).kind = k /\ Empty(v, k).writes = {}
           /\ \A d \in Dirs : Empty(v, k).binds[d] = "absent"
BY DEF Empty, Stores, Binds, NoBinds

(* Setting up a bind origin changes the state of that one alone. *)
LEMMA BindSet ==
    ASSUME store \in Stores, NEW d \in Dirs,
           NEW x \in {"absent", "partial", "cut", "complete"}, SetBind(d, x)
    PROVE  /\ store' \in Stores
           /\ store'.vk = store.vk /\ store'.kind = store.kind /\ store'.writes = store.writes
           /\ store'.binds[d] = x
           /\ \A e \in Dirs \ {d} : store'.binds[e] = store.binds[e]
BY DEF SetBind, Stores, Binds

(* The fields of the header and of the delta volume's content after a step *)
(* that makes one, writes to it or marks it.                               *)
LEMMA HeaderSet ==
    ASSUME NEW s \in {"None", "Initializing", "Ready"}, NEW v \in Nat
    PROVE  /\ [state |-> s, vk |-> v] \in Headers
           /\ [state |-> s, vk |-> v].state = s /\ [state |-> s, vk |-> v].vk = v
BY DEF Headers

(* mark_volume_as_initialized changes the label of the header alone. *)
LEMMA HeaderMarked ==
    ASSUME hdr \in Headers
    PROVE  /\ [hdr EXCEPT !.state = "Ready"] \in Headers
           /\ [hdr EXCEPT !.state = "Ready"].state = "Ready"
           /\ [hdr EXCEPT !.state = "Ready"].vk = hdr.vk
BY DEF Headers

(* A write of the running system adds to what the delta volume holds, and  *)
(* to nothing else of it.                                                  *)
LEMMA StoreWritten ==
    ASSUME store \in Stores, session \in Nat
    PROVE  /\ [store EXCEPT !.writes = @ \union {session}] \in Stores
           /\ [store EXCEPT !.writes = @ \union {session}].vk = store.vk
           /\ [store EXCEPT !.writes = @ \union {session}].kind = store.kind
           /\ [store EXCEPT !.writes = @ \union {session}].writes = store.writes \union {session}
           /\ [store EXCEPT !.writes = @ \union {session}].binds = store.binds
BY DEF Stores

-----------------------------------------------------------------------------
(* What the calls that write to the delta volume leave there. *)
Fresh(kinds) ==
    /\ store' \in Stores /\ store'.vk = hdr.vk /\ store'.kind \in kinds /\ store'.writes = {}
    /\ \A d \in Dirs : store'.binds[d] = "absent"

Rebound(d, x) ==
    /\ store' \in Stores
    /\ store'.vk = store.vk /\ store'.kind = store.kind /\ store'.writes = store.writes
    /\ store'.binds[d] = x
    /\ \A e \in Dirs \ {d} : store'.binds[e] = store.binds[e]

(* A delta volume that was just made holds no writes and no bind origins. *)
LEMMA FreshStore ==
    ASSUME TypeInv, NEW k \in Kinds, store' = Empty(hdr.vk, k)
    PROVE  Fresh({k})
BY Fields, EmptyStore DEF Fresh

(* What DeltaFilesystem (mkfs of the delta volume) does to the disk: a new *)
(* file system if the volume is to be recreated, a torn one when it fails, *)
(* nothing otherwise.                                                      *)
LEMMA FilesystemMade ==
    ASSUME BootInv, DeltaFilesystem
    PROVE  /\ pc = "ext4" /\ pc' \in {"mark", "failed"}
           /\ UNCHANGED <<lv, hdr, image, session, runtime>>
           /\ IF recreate THEN \/ Fresh({"ext4"})
                               \/ Fresh({"torn"}) /\ pc' = "failed"
              ELSE store' = store /\ (pc' = "mark" => Content = "ext4")
BY FreshStore DEF BootInv, DeltaFilesystem, Goto, FaultTo, Kinds

(* What SnapshotOrigin (the dm-snapshot chain up to the COW header) does   *)
(* to the disk: either nothing, and the COW header is one, or the header   *)
(* is wiped.                                                               *)
LEMMA OriginMade ==
    ASSUME BootInv, SnapshotOrigin
    PROVE  /\ pc = "chain" /\ pc' \in {"snapshot", "failed"}
           /\ UNCHANGED <<lv, hdr, image, session, initrd, recreate, upper, dirs, mounted>>
           /\ \/ store' = store /\ (pc' = "snapshot" /\ PersistentCow => Content = "cow")
              \/ /\ Fresh({"zeroed"}) /\ cfg.location # "ram"
                 /\ ~PersistentCow \/ Content \in {"none", "torn", "zeroed", "chunks"}
<1> Content \in Kinds
  BY Fields DEF BootInv, Content, Kinds
<1>1. CASE wipe_cow_device_header
  <2>1. Fresh({"zeroed"})
    BY <1>1, FreshStore DEF BootInv, Kinds, wipe_cow_device_header
  <2>2. cfg.location = "ram" => store' = store
    BY DEF SnapshotOrigin
  <2>3. cfg.location # "ram" /\ PersistentCow /\ Content \notin {"none", "torn", "zeroed", "chunks"} =>
           store' = store /\ (pc' = "snapshot" => Content = "cow")
    BY DEF SnapshotOrigin, probe_device, Goto, Kinds
  <2>4. pc = "chain" /\ pc' \in {"snapshot", "failed"}
           /\ UNCHANGED <<lv, hdr, image, session, initrd, recreate, upper, dirs, mounted>>
    BY DEF SnapshotOrigin, Goto
  <2>5. PersistentCow => cfg.location # "ram"
    BY DEF PersistentCow
  <2>6. QED
    BY <2>1, <2>2, <2>3, <2>4, <2>5
<1>2. CASE ~wipe_cow_device_header
  BY <1>2 DEF SnapshotOrigin, probe_device, Goto, PersistentCow, Kinds
<1>3. QED
  BY <1>1, <1>2

(* What CreateSnapshot does to the disk: a COW header where there was      *)
(* none, and the upper layer that the configuration asks for.              *)
LEMMA SnapshotMade ==
    ASSUME BootInv, CreateSnapshot
    PROVE  /\ pc = "snapshot" /\ pc' = "mark"
           /\ UNCHANGED <<lv, hdr, image, session, initrd, recreate, dirs, mounted>>
           /\ IF PersistentCow
              THEN IF Content = "zeroed" THEN Fresh({"cow"}) ELSE store' = store
              ELSE \/ store' = store
                   \/ "delta" \in dm /\ Fresh({"chunks", "ext4"})
<1>1. \A k \in Kinds : store' = Empty(hdr.vk, k) => Fresh({k})
  BY FreshStore DEF BootInv
<1>2. QED
  BY <1>1 DEF CreateSnapshot, Goto, WriteChunks, Kinds, Fresh

(* What UserWrites does to the disk: the write goes to the delta volume if *)
(* that is the upper layer.                                                *)
LEMMA SystemWrote ==
    ASSUME BootInv, UserWrites
    PROVE  /\ pc = "running" /\ pc' = "running" /\ upper # "none"
           /\ UNCHANGED <<lv, hdr, image, session, initrd, recreate, upper, dirs, mounted>>
           /\ IF upper = "disk"
              THEN /\ store' \in Stores /\ store'.vk = store.vk /\ store'.kind = store.kind
                   /\ store'.writes = store.writes \union {session}
                   /\ store'.binds = store.binds
              ELSE \/ store' = store
                   \/ "delta" \in dm /\ Fresh({"chunks", "ext4"})
<1>1. \A k \in Kinds : store' = Empty(hdr.vk, k) => Fresh({k})
  BY FreshStore DEF BootInv
<1>2. CASE upper = "disk"
  BY <1>2, StoreWritten, Zenon DEF UserWrites, BootInv, TypeInv
<1>3. CASE upper # "disk"
  BY <1>1, <1>3 DEF UserWrites, WriteChunks, Kinds, Fresh
<1>4. QED
  BY <1>2, <1>3

(* What BindDir (one round of the loop over the mount binds) does: it      *)
(* creates the origin that does not exist, and binds the one that does.    *)
LEMMA DirBound ==
    ASSUME BootInv, BindDir
    PROVE  /\ pc = "bind" /\ Head(dirs) \in Dirs
           /\ UNCHANGED <<lv, hdr, image, session, initrd, recreate, upper>>
           /\ IF store.binds[Head(dirs)] = "absent"
              THEN Rebound(Head(dirs), "partial") /\ pc' = "copy" /\ UNCHANGED <<dirs, mounted>>
              ELSE store' = store /\ pc' = AfterDir /\ NextDir({Head(dirs)})
<1>1. Head(dirs) \in Dirs
  BY TailDirs DEF BindDir, BootInv, TypeInv, DirsInv
<1>2. SetBind(Head(dirs), "partial") => Rebound(Head(dirs), "partial")
  BY <1>1, BindSet DEF BootInv, TypeInv, Rebound
<1>3. QED
  BY <1>1, <1>2 DEF BindDir, Goto

(* What CopyDir (the copy of the lower directory to its origin) leaves: a  *)
(* complete origin, or, when it fails, none or a part of it.               *)
LEMMA DirCopied ==
    ASSUME BootInv, CopyDir
    PROVE  /\ pc = "copy" /\ Head(dirs) \in Dirs /\ pc' = AfterDir
           /\ UNCHANGED <<lv, hdr, image, session, initrd, recreate, upper>>
           /\ \/ Rebound(Head(dirs), "complete") /\ NextDir({Head(dirs)})
              \/ /\ Rebound(Head(dirs), "absent") \/ Rebound(Head(dirs), "cut")
                 /\ NextDir({})
<1>1. Head(dirs) \in Dirs
  BY TailDirs DEF CopyDir, BootInv, TypeInv, DirsInv
<1>2. \A x \in {"complete", "absent", "cut"} : SetBind(Head(dirs), x) => Rebound(Head(dirs), x)
  BY <1>1, BindSet DEF BootInv, TypeInv, Rebound
<1>3. QED
  BY <1>1, <1>2 DEF CopyDir, Goto, FaultTo

(* Power lost while a directory is copied leaves its origin cut; otherwise *)
(* the content of the delta volume stays.                                  *)
LEMMA CopyCut ==
    ASSUME BootInv, PowerOff
    PROVE  IF pc = "copy" THEN Head(dirs) \in Dirs /\ Rebound(Head(dirs), "cut") ELSE store' = store
<1>1. pc = "copy" => Head(dirs) \in Dirs
  BY TailDirs DEF BootInv, TypeInv, DirsInv
<1>2. pc = "copy" => Rebound(Head(dirs), "cut")
  BY <1>1, BindSet DEF PowerOff, BootInv, TypeInv, Rebound
<1>3. QED
  BY <1>1, <1>2 DEF PowerOff

(* What SetupDeltaLuks2 does to the header: a new one under a new volume   *)
(* key if the volume is recreated, and nothing otherwise.                  *)
LEMMA HeaderWritten ==
    ASSUME BootInv, SetupDeltaLuks2
    PROVE  /\ pc = "luks" /\ hdr' \in Headers /\ recreate' = Recreate
           /\ UNCHANGED <<lv, store, image, session, initrd, upper, dirs, mounted>>
           /\ \/ /\ pc' = (IF cfg.backend = "overlayfs" THEN "ext4" ELSE "chain")
                 /\ IF Recreate THEN hdr'.state = "Initializing" /\ hdr'.vk = session
                    ELSE hdr' = hdr
              \/ pc' = "failed" /\ Recreate /\ hdr'.state = "None" /\ hdr'.vk = 0
BY HeaderSet DEF BootInv, TypeInv, SetupDeltaLuks2, Goto, FaultTo

(* CopyConfig (copy_config_to_initrd_state_if_not_exist) touches no disk,  *)
(* and keeps the state the first stage saved.                              *)
LEMMA ConfigKept ==
    ASSUME BootInv, CopyConfig
    PROVE  /\ UNCHANGED <<disk, image, session, dm, recreate, sysroot, upper, ramWrites, dirs, mounted>>
           /\ \/ pc = "config1" /\ pc' \in {"time", "failed"}
              \/ pc = "config2" /\ pc' = "check" /\ initrd' = initrd
BY DEF BootInv, ConfigInv, CopyConfig, copy_config, disk

(* Going on to the next directory. *)
LEMMA NextDirs ==
    ASSUME BootInv, pc \in {"bind", "copy"}, NEW b, NextDir(b), pc' = AfterDir
    PROVE  /\ dirs' \in Seq(Dirs) /\ pc' \in {"bind", "running"} /\ (pc' = "bind" => dirs' # <<>>)
           /\ \A i, j \in 1..Len(dirs') : dirs'[i] = dirs'[j] => i = j
           /\ \A i \in 1..Len(dirs') :
                 /\ dirs'[i] \in Dirs /\ dirs'[i] # Head(dirs)
                 /\ i + 1 \in 1..Len(dirs) /\ dirs'[i] = dirs[i + 1]
<1>1. dirs \in Seq(Dirs) /\ dirs # <<>> /\ dirs' = Tail(dirs)
  BY DEF BootInv, TypeInv, DirsInv, NextDir
<1>2. /\ Head(dirs) = dirs[1] /\ 1 \in 1..Len(dirs) /\ dirs' \in Seq(Dirs)
      /\ \A i \in 1..Len(dirs') : i + 1 \in 1..Len(dirs) /\ dirs'[i] = dirs[i + 1]
  BY <1>1, TailDirs
<1>3. \A i, j \in 1..Len(dirs) : dirs[i] = dirs[j] => i = j
  BY DEF BootInv, DirsInv
<1>4. \A i, j \in 1..Len(dirs') : dirs'[i] = dirs'[j] => i = j
  BY <1>2, <1>3
<1>5. \A i \in 1..Len(dirs') : dirs'[i] \in Dirs /\ dirs'[i] # Head(dirs)
  BY <1>2, <1>3
<1>6. pc' \in {"bind", "running"} /\ (pc' = "bind" => dirs' # <<>>)
  BY <1>1 DEF AfterDir
<1>7. QED
  BY <1>2, <1>4, <1>5, <1>6

(* The layer that a running system writes to. *)
LEMMA DiskUpper ==
    ASSUME BootInv, pc = "running", upper = "disk"
    PROVE  /\ cfg.fde /\ OnDisk(cfg) /\ (cfg.backend = "overlayfs" \/ PersistentCow)
           /\ hdr.state = "Ready" /\ store.vk = hdr.vk /\ store.kind \in {"ext4", "cow"}
<1>1. cfg.fde /\ cfg.backend \in Backends /\ pc \in Late /\ pc \in Marked
  BY Fields, Zenon DEF BootInv, UpperInv, Late, Marked
<1>2. OnDisk(cfg) /\ (cfg.backend = "overlayfs" \/ PersistentCow)
  BY <1>1, Zenon DEF BootInv, PathInv, UpperInv, OnDisk, PersistentCow, Backends
<1>3. QED
  BY <1>1, <1>2 DEF BootInv, DeltaInv, Backends

(* A system that does not write to the delta volume has no bind mounts and *)
(* no data to keep.                                                        *)
LEMMA OtherUpper ==
    ASSUME BootInv, pc = "running", upper # "disk"
    PROVE  /\ mounted = {} /\ (cfg.fde => cfg.backend = "dm-snapshot" /\ ~PersistentCow)
           /\ ~Persists(cfg)
<1>1. mounted = {}
  BY DEF BootInv, DirsInv
<1>2. cfg.fde => cfg.backend = "dm-snapshot" /\ ~PersistentCow
  BY Fields DEF BootInv, UpperInv, Backends, Late, Marked
<1>3. QED
  BY <1>1, <1>2 DEF Persists, PersistentCow

(* Every step keeps the variables within their sets. *)
LEMMA TypeInvStep == ASSUME BootInv, [Next]_vars PROVE TypeInv'
<1> USE DEF vars, disk, runtime
<1>1. CASE PowerOn
  BY <1>1 DEF PowerOn, BootInv, TypeInv, Early, Middle, Late
<1>2. CASE PowerOff
  BY <1>2, CopyCut, Loadable, DirsToBind, Zenon DEF PowerOff, RuntimeReset, Rebound,
         BootInv, TypeInv
<1>3. CASE Reconfigure
  BY <1>3 DEF Reconfigure, BootInv, TypeInv
<1>4. CASE CallFails
  BY <1>4 DEF CallFails, FaultTo, BootInv, TypeInv
<1>5. CASE CopyConfig
  BY <1>5, Loadable, Zenon DEF CopyConfig, copy_config, load_fde_config_bundle, LoadCloud,
         LoadLocal, BootInv, TypeInv, Early, Middle, Late
<1>6. CASE SyncTime
  BY <1>6 DEF SyncTime, Goto, BootInv, TypeInv, Early, Middle, Late
<1>7. CASE SetupRootfs
  BY <1>7 DEF SetupRootfs, Goto, BootInv, TypeInv, Early, Middle, Late
<1>8. CASE EnsureDelta
  BY <1>8, Zenon DEF EnsureDelta, Goto, BootInv, TypeInv, Early, Middle, Late
<1>9. CASE ZeroDelta
  BY <1>9, HeaderSet DEF ZeroDelta, Goto, BootInv, TypeInv, Early, Middle, Late
<1>10. CASE SetupDeltaLuks2
  BY <1>10, HeaderWritten DEF SetupDeltaLuks2, Recreate, is_initialized, BootInv, TypeInv,
         Early, Middle, Late
<1>11. CASE DeltaFilesystem
  BY <1>11, FilesystemMade DEF DeltaFilesystem, Fresh, BootInv, TypeInv, Early, Middle, Late
<1>12. CASE SnapshotOrigin
  BY <1>12, OriginMade DEF SnapshotOrigin, Fresh, BootInv, TypeInv, Early, Middle, Late
<1>13. CASE CreateSnapshot
  BY <1>13, SnapshotMade DEF CreateSnapshot, PersistentCow, Fresh, BootInv, TypeInv, Early,
         Middle, Late
<1>14. CASE MarkDelta
  BY <1>14, HeaderMarked DEF MarkDelta, Goto, BootInv, TypeInv, Early, Middle, Late
<1>15. CASE MountSysroot
  BY <1>15 DEF MountSysroot, Goto, FaultTo, BootInv, TypeInv, Early, Middle, Late
<1>16. CASE CheckSysroot
  BY <1>16 DEF CheckSysroot, Goto, BootInv, TypeInv, Early, Middle, Late
<1>17. CASE MountOverlay
  BY <1>17 DEF MountOverlay, Goto, BootInv, TypeInv, Early, Middle, Late
<1>18. CASE BindDir
  <2>1. CASE store.binds[Head(dirs)] = "absent"
    BY <1>18, <2>1, DirBound DEF BootInv, TypeInv, BindDir, Rebound, Late
  <2>2. CASE store.binds[Head(dirs)] # "absent"
    BY <1>18, <2>2, DirBound, NextDirs, Zenon DEF BootInv, TypeInv, BindDir, NextDir, Late
  <2>3. QED
    BY <2>1, <2>2
<1>19. CASE CopyDir
  BY <1>19, DirCopied, NextDirs, Zenon DEF BootInv, TypeInv, CopyDir, NextDir, Rebound, Late
<1>20. CASE SkipDir
  BY <1>20, NextDirs, Zenon DEF SkipDir, FaultTo, NextDir, BootInv, TypeInv, Late
<1>21. CASE UserWrites
  BY <1>21, SystemWrote DEF BootInv, TypeInv, UserWrites, Fresh
<1>22. CASE UNCHANGED vars
  BY <1>22 DEF BootInv, TypeInv
<1>23. QED
  BY <1>1, <1>2, <1>3, <1>4, <1>5, <1>6, <1>7, <1>8, <1>9, <1>10, <1>11, <1>12, <1>13,
     <1>14, <1>15, <1>16, <1>17, <1>18, <1>19, <1>20, <1>21, <1>22 DEF Next, Stage

(* Every step keeps one configuration for the whole boot. *)
LEMMA ConfigInvStep == ASSUME BootInv, [Next]_vars PROVE ConfigInv'
<1> USE DEF vars, disk, runtime
<1>1. CASE PowerOn
  BY <1>1 DEF PowerOn, BootInv, ConfigInv, cfg, NoConfig
<1>2. CASE PowerOff
  BY <1>2 DEF PowerOff, RuntimeReset, BootInv, ConfigInv, cfg, NoConfig
<1>3. CASE Reconfigure
  BY <1>3 DEF Reconfigure, BootInv, ConfigInv, cfg, NoConfig
<1>4. CASE CallFails
  BY <1>4 DEF CallFails, FaultTo, BootInv, ConfigInv, cfg, NoConfig
<1>5. CASE CopyConfig
  BY <1>5 DEF CopyConfig, copy_config, load_fde_config_bundle, LoadCloud, LoadLocal,
         BootInv, ConfigInv, cfg, NoConfig
<1>6. CASE SyncTime
  BY <1>6 DEF SyncTime, Goto, BootInv, ConfigInv, cfg, NoConfig
<1>7. CASE SetupRootfs
  BY <1>7, Zenon DEF SetupRootfs, Goto, MetadataAccepted, setup_rootfs_dm_verity, BootInv,
         ConfigInv, cfg, NoConfig
<1>8. CASE EnsureDelta
  BY <1>8 DEF EnsureDelta, Goto, BootInv, ConfigInv, cfg, NoConfig
<1>9. CASE ZeroDelta
  BY <1>9 DEF ZeroDelta, Goto, BootInv, ConfigInv, cfg, NoConfig
<1>10. CASE SetupDeltaLuks2
  BY <1>10 DEF SetupDeltaLuks2, Goto, FaultTo, Recreate, is_initialized, BootInv, ConfigInv,
         cfg, NoConfig
<1>11. CASE DeltaFilesystem
  BY <1>11 DEF DeltaFilesystem, Goto, FaultTo, Content, BootInv, ConfigInv, cfg, NoConfig
<1>12. CASE SnapshotOrigin
  BY <1>12 DEF SnapshotOrigin, Goto, PersistentCow, probe_device, wipe_cow_device_header,
         Content, BootInv, ConfigInv, cfg, NoConfig
<1>13. CASE CreateSnapshot
  BY <1>13 DEF CreateSnapshot, Goto, PersistentCow, WriteChunks, Content, BootInv,
         ConfigInv, cfg, NoConfig
<1>14. CASE MarkDelta
  BY <1>14 DEF MarkDelta, Goto, BootInv, ConfigInv, cfg, NoConfig
<1>15. CASE MountSysroot
  BY <1>15 DEF MountSysroot, Goto, FaultTo, BootInv, ConfigInv, cfg, NoConfig
<1>16. CASE CheckSysroot
  BY <1>16 DEF CheckSysroot, Goto, check_sysroot, BootInv, ConfigInv, cfg, NoConfig
<1>17. CASE MountOverlay
  BY <1>17 DEF MountOverlay, Goto, BootInv, ConfigInv, cfg, NoConfig
<1>18. CASE BindDir
  BY <1>18 DEF BindDir, Goto, NextDir, AfterDir, BootInv, ConfigInv, cfg, NoConfig
<1>19. CASE CopyDir
  BY <1>19 DEF CopyDir, Goto, FaultTo, NextDir, AfterDir, BootInv, ConfigInv, cfg, NoConfig
<1>20. CASE SkipDir
  BY <1>20 DEF SkipDir, FaultTo, NextDir, AfterDir, BootInv, ConfigInv, cfg, NoConfig
<1>21. CASE UserWrites
  BY <1>21 DEF UserWrites, Visible, WriteChunks, BootInv, ConfigInv, cfg, NoConfig
<1>22. CASE UNCHANGED vars
  BY <1>22, SMTT(30) DEF BootInv, TypeInv, ConfigInv, cfg, NoConfig
<1>23. QED
  BY <1>1, <1>2, <1>3, <1>4, <1>5, <1>6, <1>7, <1>8, <1>9, <1>10, <1>11, <1>12, <1>13,
     <1>14, <1>15, <1>16, <1>17, <1>18, <1>19, <1>20, <1>21, <1>22 DEF Next, Stage

(* Every step goes to a call that the configuration leads to. *)
LEMMA PathInvStep == ASSUME BootInv, [Next]_vars PROVE PathInv'
<1> USE DEF vars, disk, runtime
<1>1. CASE PowerOn
  BY <1>1 DEF PowerOn, BootInv, PathInv, cfg, OnDisk, Early, Middle, Late
<1>2. CASE PowerOff
  BY <1>2, Zenon DEF PowerOff, RuntimeReset, BootInv, PathInv, cfg, OnDisk, Early, Middle,
         Late
<1>3. CASE Reconfigure
  BY <1>3 DEF Reconfigure, BootInv, PathInv, cfg, OnDisk, Early, Middle, Late
<1>4. CASE CallFails
  BY <1>4, Zenon DEF CallFails, FaultTo, BootInv, PathInv, cfg, OnDisk, Early, Middle, Late
<1>5. CASE CopyConfig
  BY <1>5, ConfigKept, Loadable, Zenon DEF BootInv, ConfigInv, PathInv, cfg, OnDisk, Early,
         Middle, Late
<1>6. CASE SyncTime
  BY <1>6 DEF SyncTime, Goto, BootInv, PathInv, cfg, OnDisk, Early, Middle, Late
<1>7. CASE SetupRootfs
  BY <1>7, Zenon DEF SetupRootfs, Goto, MetadataAccepted, BootInv, PathInv, cfg, OnDisk,
         Early, Middle, Late
<1>8. CASE EnsureDelta
  BY <1>8, Fields, Zenon DEF BootInv, TypeInv, PathInv, DeviceInv, EnsureDelta, Goto,
         FaultTo, cfg, OnDisk, Backends, Early, Middle, Late, Marked
<1>9. CASE ZeroDelta
  BY <1>9, Zenon DEF ZeroDelta, Goto, BootInv, PathInv, cfg, OnDisk
<1>10. CASE SetupDeltaLuks2
  BY <1>10, Fields, Zenon DEF BootInv, TypeInv, PathInv, DeviceInv, SetupDeltaLuks2, Goto,
         FaultTo, cfg, OnDisk, Backends, Early, Middle, Late, Marked
<1>11. CASE DeltaFilesystem
  BY <1>11, Zenon DEF DeltaFilesystem, Goto, FaultTo, BootInv, PathInv, cfg, OnDisk, Early,
         Middle, Late
<1>12. CASE SnapshotOrigin
  BY <1>12, Zenon DEF SnapshotOrigin, Goto, BootInv, PathInv, cfg, OnDisk, Early, Middle,
         Late
<1>13. CASE CreateSnapshot
  BY <1>13, Zenon DEF CreateSnapshot, Goto, BootInv, PathInv, cfg, OnDisk, Early, Middle,
         Late
<1>14. CASE MarkDelta
  BY <1>14, Zenon DEF MarkDelta, Goto, BootInv, PathInv, cfg, OnDisk, Early, Middle, Late
<1>15. CASE MountSysroot
  BY <1>15, Zenon DEF MountSysroot, Goto, FaultTo, BootInv, PathInv, cfg, OnDisk, Early,
         Middle, Late
<1>16. CASE CheckSysroot
  BY <1>16, Zenon DEF CheckSysroot, Goto, BootInv, PathInv, cfg, OnDisk, Early, Middle, Late
<1>17. CASE MountOverlay
  BY <1>17, Fields, Zenon DEF BootInv, TypeInv, PathInv, DeviceInv, MountOverlay, Goto,
         FaultTo, cfg, OnDisk, Backends, Early, Middle, Late, Marked
<1>18. CASE BindDir
  BY <1>18, Zenon DEF BindDir, Goto, AfterDir, BootInv, PathInv, cfg, OnDisk, Early, Middle,
         Late
<1>19. CASE CopyDir
  BY <1>19, Zenon DEF CopyDir, Goto, FaultTo, AfterDir, BootInv, PathInv, cfg, OnDisk,
         Early, Middle, Late
<1>20. CASE SkipDir
  BY <1>20, Zenon DEF SkipDir, FaultTo, AfterDir, BootInv, PathInv, cfg, OnDisk, Early,
         Middle, Late
<1>21. CASE UserWrites
  BY <1>21, Zenon DEF UserWrites, BootInv, PathInv, cfg, OnDisk
<1>22. CASE UNCHANGED vars
  BY <1>22, Zenon DEF BootInv, TypeInv, PathInv, cfg, OnDisk
<1>23. QED
  BY <1>1, <1>2, <1>3, <1>4, <1>5, <1>6, <1>7, <1>8, <1>9, <1>10, <1>11, <1>12, <1>13,
     <1>14, <1>15, <1>16, <1>17, <1>18, <1>19, <1>20, <1>21, <1>22 DEF Next, Stage

(* Every step keeps the active devices those the calls made so far have    *)
(* set up.                                                                 *)
LEMMA DeviceInvStep == ASSUME BootInv, [Next]_vars PROVE DeviceInv'
<1> USE DEF vars, disk, runtime
<1>1. CASE PowerOn
  BY <1>1 DEF PowerOn, BootInv, DeviceInv, cfg, OnDisk, Marked, Early, Middle, Late
<1>2. CASE PowerOff
  BY <1>2 DEF PowerOff, RuntimeReset, BootInv, DeviceInv, cfg, OnDisk, Marked, Early,
         Middle, Late
<1>3. CASE Reconfigure
  BY <1>3 DEF Reconfigure, BootInv, DeviceInv, cfg, OnDisk, Marked
<1>4. CASE CallFails
  BY <1>4 DEF CallFails, FaultTo, BootInv, DeviceInv, cfg, OnDisk, Marked, Early, Middle,
         Late
<1>5. CASE CopyConfig
  BY <1>5, ConfigKept, Loadable DEF BootInv, ConfigInv, DeviceInv, cfg, OnDisk, Marked,
         Early, Middle, Late
<1>6. CASE SyncTime
  BY <1>6 DEF SyncTime, Goto, BootInv, DeviceInv, cfg, OnDisk, Marked, Early, Middle, Late
<1>7. CASE SetupRootfs
  <2>1. "delta" \notin dm'
    BY <1>7 DEF BootInv, DeviceInv, SetupRootfs, setup_rootfs_dm_verity, Early
  <2>2. pc' # "failed" /\ cfg.fde /\ cfg.backend = "dm-snapshot" => "rootfs_verity" \in dm'
    BY <1>7 DEF SetupRootfs, setup_rootfs_dm_verity, Goto
  <2>3. QED
    BY <1>7, <2>1, <2>2 DEF SetupRootfs, Goto, BootInv, DeviceInv, cfg, Early, Middle, Late,
           Marked
<1>8. CASE EnsureDelta
  BY <1>8 DEF EnsureDelta, Goto, BootInv, DeviceInv, cfg, OnDisk, Marked, Early, Middle,
         Late
<1>9. CASE ZeroDelta
  BY <1>9 DEF ZeroDelta, Goto, BootInv, DeviceInv, cfg, OnDisk, Marked, Early, Middle, Late
<1>10. CASE SetupDeltaLuks2
  BY <1>10, Zenon DEF SetupDeltaLuks2, Goto, FaultTo, BootInv, PathInv, DeviceInv, cfg,
         OnDisk, Early, Middle, Late, Marked
<1>11. CASE DeltaFilesystem
  BY <1>11, FilesystemMade, Zenon DEF BootInv, PathInv, DeviceInv, runtime, cfg, OnDisk,
         Early, Middle, Late, Marked
<1>12. CASE SnapshotOrigin
  BY <1>12 DEF SnapshotOrigin, Goto, BootInv, DeviceInv, cfg, OnDisk, Marked, Early, Middle,
         Late
<1>13. CASE CreateSnapshot
  BY <1>13 DEF CreateSnapshot, Goto, BootInv, DeviceInv, cfg, OnDisk, Marked, Early, Middle,
         Late
<1>14. CASE MarkDelta
  BY <1>14 DEF MarkDelta, Goto, BootInv, DeviceInv, cfg, OnDisk, Marked, Early, Middle, Late
<1>15. CASE MountSysroot
  BY <1>15 DEF MountSysroot, Goto, FaultTo, BootInv, DeviceInv, cfg, OnDisk, Marked, Early,
         Middle, Late
<1>16. CASE CheckSysroot
  BY <1>16 DEF CheckSysroot, Goto, BootInv, DeviceInv, cfg, OnDisk, Marked, Early, Middle,
         Late
<1>17. CASE MountOverlay
  BY <1>17 DEF MountOverlay, Goto, BootInv, DeviceInv, cfg, OnDisk, Marked, Early, Middle,
         Late
<1>18. CASE BindDir
  BY <1>18, Zenon DEF BindDir, Goto, AfterDir, BootInv, PathInv, DeviceInv, cfg, OnDisk,
         Marked, Early, Middle, Late
<1>19. CASE CopyDir
  BY <1>19, Zenon DEF CopyDir, Goto, FaultTo, AfterDir, BootInv, PathInv, DeviceInv, cfg,
         OnDisk, Marked, Early, Middle, Late
<1>20. CASE SkipDir
  BY <1>20, Zenon DEF SkipDir, FaultTo, AfterDir, BootInv, PathInv, DeviceInv, cfg, OnDisk,
         Marked, Early, Middle, Late
<1>21. CASE UserWrites
  BY <1>21 DEF UserWrites, BootInv, DeviceInv, cfg, OnDisk, Marked
<1>22. CASE UNCHANGED vars
  BY <1>22, SMTT(30) DEF BootInv, TypeInv, DeviceInv, cfg, OnDisk, Marked
<1>23. QED
  BY <1>1, <1>2, <1>3, <1>4, <1>5, <1>6, <1>7, <1>8, <1>9, <1>10, <1>11, <1>12, <1>13,
     <1>14, <1>15, <1>16, <1>17, <1>18, <1>19, <1>20, <1>21, <1>22 DEF Next, Stage

(* Every step keeps the upper layer the one the configuration asks for. *)
LEMMA UpperInvStep == ASSUME BootInv, [Next]_vars PROVE UpperInv'
<1> USE DEF vars, disk, runtime
<1>1. CASE PowerOn
  BY <1>1 DEF PowerOn, BootInv, UpperInv, cfg, PersistentCow, Marked, Early, Middle, Late
<1>2. CASE PowerOff
  BY <1>2 DEF PowerOff, RuntimeReset, BootInv, UpperInv, cfg, PersistentCow, Marked, Early,
         Middle, Late
<1>3. CASE Reconfigure
  BY <1>3 DEF Reconfigure, BootInv, UpperInv, cfg, PersistentCow, Marked
<1>4. CASE CallFails
  BY <1>4 DEF CallFails, FaultTo, BootInv, UpperInv, cfg, PersistentCow, Marked, Early,
         Middle, Late
<1>5. CASE CopyConfig
  BY <1>5, ConfigKept, Loadable DEF BootInv, ConfigInv, UpperInv, cfg, PersistentCow,
         Marked, Early, Middle, Late
<1>6. CASE SyncTime
  BY <1>6, Zenon DEF SyncTime, Goto, BootInv, UpperInv, cfg, PersistentCow, Marked, Early,
         Middle, Late
<1>7. CASE SetupRootfs
  BY <1>7 DEF SetupRootfs, Goto, BootInv, UpperInv, cfg, PersistentCow, Marked, Early,
         Middle, Late
<1>8. CASE EnsureDelta
  BY <1>8 DEF EnsureDelta, Goto, BootInv, UpperInv, cfg, PersistentCow, Marked, Early,
         Middle, Late
<1>9. CASE ZeroDelta
  BY <1>9 DEF ZeroDelta, Goto, BootInv, UpperInv, cfg, PersistentCow, Marked, Early, Middle,
         Late
<1>10. CASE SetupDeltaLuks2
  BY <1>10 DEF SetupDeltaLuks2, Goto, FaultTo, BootInv, UpperInv, cfg, PersistentCow,
         Marked, Early, Middle, Late
<1>11. CASE DeltaFilesystem
  BY <1>11, FilesystemMade, Zenon DEF BootInv, PathInv, UpperInv, runtime, cfg,
         PersistentCow, Early, Middle, Late, Marked
<1>12. CASE SnapshotOrigin
  BY <1>12 DEF SnapshotOrigin, Goto, BootInv, UpperInv, cfg, PersistentCow, Marked, Early,
         Middle, Late
<1>13. CASE CreateSnapshot
  BY <1>13, Zenon DEF CreateSnapshot, Goto, BootInv, PathInv, UpperInv, cfg, PersistentCow,
         Early, Middle, Late, Marked
<1>14. CASE MarkDelta
  BY <1>14 DEF MarkDelta, Goto, BootInv, UpperInv, cfg, PersistentCow, Marked
<1>15. CASE MountSysroot
  BY <1>15 DEF MountSysroot, Goto, FaultTo, BootInv, UpperInv, cfg, PersistentCow, Marked,
         Early, Middle, Late
<1>16. CASE CheckSysroot
  BY <1>16, Fields DEF CheckSysroot, check_sysroot, Goto, BootInv, UpperInv, cfg,
         PersistentCow, Backends, Early, Middle, Late, Marked
<1>17. CASE MountOverlay
  BY <1>17, Zenon DEF MountOverlay, Goto, BootInv, PathInv, DeviceInv, UpperInv, cfg,
         OnDisk, PersistentCow, Early, Middle, Late, Marked
<1>18. CASE BindDir
  BY <1>18, Zenon DEF BindDir, Goto, AfterDir, BootInv, PathInv, UpperInv, cfg,
         PersistentCow, Marked, Early, Middle, Late
<1>19. CASE CopyDir
  BY <1>19, Zenon DEF CopyDir, Goto, FaultTo, AfterDir, BootInv, PathInv, UpperInv, cfg,
         PersistentCow, Marked, Early, Middle, Late
<1>20. CASE SkipDir
  BY <1>20, Zenon DEF SkipDir, FaultTo, AfterDir, BootInv, PathInv, UpperInv, cfg,
         PersistentCow, Marked, Early, Middle, Late
<1>21. CASE UserWrites
  BY <1>21 DEF UserWrites, BootInv, UpperInv, cfg, PersistentCow, Marked
<1>22. CASE UNCHANGED vars
  BY <1>22, Zenon DEF BootInv, TypeInv, UpperInv, cfg, PersistentCow, Marked
<1>23. QED
  BY <1>1, <1>2, <1>3, <1>4, <1>5, <1>6, <1>7, <1>8, <1>9, <1>10, <1>11, <1>12, <1>13,
     <1>14, <1>15, <1>16, <1>17, <1>18, <1>19, <1>20, <1>21, <1>22 DEF Next, Stage

(* Every step keeps what is on the disk apart from what this boot may      *)
(* still write.                                                            *)
LEMMA DiskInvStep == ASSUME BootInv, [Next]_vars PROVE DiskInv'
<1> USE DEF vars, disk, runtime
<1>1. CASE PowerOn
  BY <1>1, Fields DEF PowerOn, BootInv, TypeInv, DiskInv, Early
<1>2. CASE PowerOff
  BY <1>2, CopyCut, Fields, Zenon DEF BootInv, TypeInv, DiskInv, Rebound, PowerOff,
         RuntimeReset, Early
<1>3. CASE Reconfigure
  BY <1>3, Zenon DEF Reconfigure, BootInv, DiskInv
<1>4. CASE CallFails
  BY <1>4 DEF CallFails, FaultTo, BootInv, DiskInv, Early, Middle, Late
<1>5. CASE CopyConfig
  BY <1>5, ConfigKept DEF BootInv, DiskInv, cfg, OnDisk, Persists, PersistentCow, Early,
         Middle, Late, Marked
<1>6. CASE SyncTime
  BY <1>6 DEF SyncTime, Goto, BootInv, DiskInv, Early, Middle, Late
<1>7. CASE SetupRootfs
  BY <1>7 DEF SetupRootfs, Goto, BootInv, DiskInv, Early, Middle, Late
<1>8. CASE EnsureDelta
  BY <1>8 DEF EnsureDelta, Goto, BootInv, DiskInv, Early, Middle, Late
<1>9. CASE ZeroDelta
  BY <1>9, Fields DEF BootInv, TypeInv, DiskInv, ZeroDelta, Goto, Early
<1>10. CASE SetupDeltaLuks2
  BY <1>10, HeaderWritten, Fields, SMTT(30) DEF BootInv, TypeInv, DiskInv, Early
<1>11. CASE DeltaFilesystem
  BY <1>11, FilesystemMade, Fields, SMTT(30) DEF BootInv, TypeInv, DiskInv, Fresh, Early
<1>12. CASE SnapshotOrigin
  BY <1>12, OriginMade, Fields, SMTT(30) DEF BootInv, TypeInv, DiskInv, Fresh, Early
<1>13. CASE CreateSnapshot
  BY <1>13, SnapshotMade, Fields DEF BootInv, TypeInv, DiskInv, Fresh, Early
<1>14. CASE MarkDelta
  BY <1>14, Fields, HeaderMarked DEF BootInv, TypeInv, DiskInv, DeltaInv, MarkDelta, Goto,
         Early
<1>15. CASE MountSysroot
  BY <1>15, ZenonT(40) DEF MountSysroot, Goto, FaultTo, BootInv, DiskInv, Early, Middle,
         Late
<1>16. CASE CheckSysroot
  BY <1>16, ZenonT(40) DEF CheckSysroot, Goto, BootInv, DiskInv, Early, Middle, Late
<1>17. CASE MountOverlay
  BY <1>17, ZenonT(40) DEF MountOverlay, Goto, BootInv, DiskInv, Early, Middle, Late
<1>18. CASE BindDir
  BY <1>18, DirBound, NextDirs, SMTT(30) DEF BootInv, DiskInv, Rebound, Early
<1>19. CASE CopyDir
  BY <1>19, DirCopied, NextDirs, SMTT(30) DEF BootInv, DiskInv, Rebound, Early
<1>20. CASE SkipDir
  BY <1>20, Zenon DEF SkipDir, FaultTo, AfterDir, BootInv, DiskInv, Early
<1>21. CASE UserWrites
  BY <1>21, SystemWrote, DiskUpper, Fields, SMTT(30) DEF BootInv, TypeInv, DiskInv, Fresh,
         Early
<1>22. CASE UNCHANGED vars
  BY <1>22, Zenon DEF BootInv, TypeInv, DiskInv
<1>23. QED
  BY <1>1, <1>2, <1>3, <1>4, <1>5, <1>6, <1>7, <1>8, <1>9, <1>10, <1>11, <1>12, <1>13,
     <1>14, <1>15, <1>16, <1>17, <1>18, <1>19, <1>20, <1>21, <1>22 DEF Next, Stage

(* Every step keeps the delta volume in the state that the call reached    *)
(* stands for.                                                             *)
LEMMA DeltaInvStep == ASSUME BootInv, [Next]_vars PROVE DeltaInv'
<1> USE DEF vars, disk, runtime
<1>1. CASE PowerOn
  BY <1>1, ZenonT(40) DEF PowerOn, BootInv, DeltaInv, cfg, OnDisk, Persists, PersistentCow,
         Marked, Early, Middle, Late
<1>2. CASE PowerOff
  BY <1>2, ZenonT(40) DEF PowerOff, DeltaInv, Middle, Late
<1>3. CASE Reconfigure
  BY <1>3, Zenon DEF Reconfigure, BootInv, DeltaInv, cfg, OnDisk, Persists,
         PersistentCow, Marked
<1>4. CASE CallFails
  BY <1>4, Zenon DEF CallFails, FaultTo, BootInv, DeltaInv, cfg, OnDisk, Persists,
         PersistentCow, Marked, Early, Middle, Late
<1>5. CASE CopyConfig
  BY <1>5, ConfigKept, Zenon DEF BootInv, DeltaInv, cfg, OnDisk, Persists, PersistentCow,
         Early, Middle, Late, Marked
<1>6. CASE SyncTime
  BY <1>6 DEF SyncTime, Goto, BootInv, DeltaInv, cfg, OnDisk, Persists, PersistentCow,
         Marked, Early, Middle, Late
<1>7. CASE SetupRootfs
  BY <1>7, Zenon DEF SetupRootfs, Goto, BootInv, DeltaInv, cfg, OnDisk, Persists,
         PersistentCow, Marked, Early, Middle, Late
<1>8. CASE EnsureDelta
  BY <1>8 DEF EnsureDelta, Goto, BootInv, DeltaInv, cfg, OnDisk, Persists, PersistentCow,
         Marked, Early, Middle, Late
<1>9. CASE ZeroDelta
  BY <1>9 DEF ZeroDelta, Goto, BootInv, DeltaInv, cfg, OnDisk, Persists, PersistentCow,
         Marked, Early, Middle, Late
<1>10. CASE SetupDeltaLuks2
  BY <1>10, HeaderWritten, Fields, Zenon DEF BootInv, TypeInv, PathInv, DeviceInv, UpperInv,
         DiskInv, DeltaInv, Recreate, is_initialized, cfg, OnDisk, Persists, PersistentCow,
         Backends, Early, Middle, Late, Marked
<1>11. CASE DeltaFilesystem
  BY <1>11, FilesystemMade, Fields, ZenonT(40) DEF BootInv, TypeInv, PathInv, DeviceInv,
         UpperInv, DiskInv, DeltaInv, Fresh, Content, cfg, OnDisk, Persists, PersistentCow,
         Backends, Early, Middle, Late, Marked
<1>12. CASE SnapshotOrigin
  <2>1. /\ pc = "chain" /\ pc' \in {"snapshot", "failed"} /\ cfg' = cfg
        /\ UNCHANGED <<hdr, session, recreate>>
    BY <1>12, OriginMade DEF cfg
  <2>2. CASE store' = store /\ (pc' = "snapshot" /\ PersistentCow => Content = "cow")
    BY <1>12, <2>1, <2>2, Fields, SMTT(30) DEF BootInv, TypeInv, DeltaInv, Content,
           PersistentCow, Middle, Late, Marked
  <2>3. CASE Fresh({"zeroed"})
    BY <1>12, <2>1, <2>3 DEF BootInv, DeltaInv, Fresh, PersistentCow, Middle, Late, Marked
  <2>4. QED
    BY <1>12, <2>2, <2>3, OriginMade
<1>13. CASE CreateSnapshot
  BY <1>13, SnapshotMade, Fields, ZenonT(40) DEF BootInv, TypeInv, PathInv, DeviceInv,
         UpperInv, DiskInv, DeltaInv, Fresh, Content, cfg, OnDisk, Persists, PersistentCow,
         Backends, Early, Middle, Late, Marked
<1>14. CASE MarkDelta
  BY <1>14 DEF MarkDelta, Goto, BootInv, DeltaInv, cfg, OnDisk, Persists, PersistentCow,
         Marked, Early, Middle, Late
<1>15. CASE MountSysroot
  BY <1>15, Zenon DEF MountSysroot, Goto, FaultTo, BootInv, DeltaInv, cfg, OnDisk, Persists,
         PersistentCow, Marked, Early, Middle, Late
<1>16. CASE CheckSysroot
  BY <1>16, Zenon DEF CheckSysroot, Goto, BootInv, DeltaInv, cfg, OnDisk, Persists,
         PersistentCow, Marked, Early, Middle, Late
<1>17. CASE MountOverlay
  BY <1>17 DEF MountOverlay, Goto, BootInv, DeltaInv, cfg, OnDisk, Persists, PersistentCow,
         Marked, Early, Middle, Late
<1>18. CASE BindDir
  BY <1>18, DirBound, NextDirs, Zenon DEF BootInv, DeltaInv, cfg, PersistentCow, Rebound,
         Middle, Late, Marked
<1>19. CASE CopyDir
  BY <1>19, DirCopied, NextDirs, Zenon DEF BootInv, DeltaInv, cfg, PersistentCow, Rebound,
         Middle, Late, Marked
<1>20. CASE SkipDir
  BY <1>20, Zenon DEF SkipDir, FaultTo, AfterDir, BootInv, PathInv, DeltaInv, cfg, OnDisk,
         Persists, PersistentCow, Marked, Early, Middle, Late
<1>21. CASE UserWrites
  <2>1. CASE upper = "disk"
    BY <1>21, <2>1, SystemWrote, Zenon DEF BootInv, DeltaInv, cfg, PersistentCow, Middle,
           Late, Marked
  <2>2. CASE upper # "disk"
    <3>1. cfg.fde => cfg.backend = "dm-snapshot" /\ ~PersistentCow
      BY <1>21, <2>2, SystemWrote, OtherUpper, Zenon
    <3>2. /\ pc = "running" /\ pc' = "running"
          /\ UNCHANGED <<hdr, session, initrd, recreate>>
      BY <1>21, SystemWrote, Zenon
    <3>3. QED
      BY <3>1, <3>2, Zenon DEF BootInv, DeltaInv, cfg, OnDisk, Persists, PersistentCow, Middle,
             Late, Marked
  <2>3. QED
    BY <2>1, <2>2, Zenon
<1>22. CASE UNCHANGED vars
  BY <1>22, Zenon DEF BootInv, TypeInv, DeltaInv, cfg, OnDisk, Persists, PersistentCow,
         Marked
<1>23. QED
  BY <1>1, <1>2, <1>3, <1>4, <1>5, <1>6, <1>7, <1>8, <1>9, <1>10, <1>11, <1>12, <1>13,
     <1>14, <1>15, <1>16, <1>17, <1>18, <1>19, <1>20, <1>21, <1>22 DEF Next, Stage

(* Every step keeps the directories that are still to be bound distinct,   *)
(* and bound ones on overlayfs alone.                                      *)
LEMMA DirsInvStep == ASSUME BootInv, [Next]_vars PROVE DirsInv'
<1> USE DEF vars, disk, runtime
<1>1. CASE PowerOn
  BY <1>1 DEF PowerOn, BootInv, DirsInv, cfg
<1>2. CASE PowerOff
  BY <1>2, DirsToBind DEF PowerOff, RuntimeReset, DirsInv
<1>3. CASE Reconfigure
  BY <1>3 DEF Reconfigure, BootInv, DirsInv, cfg
<1>4. CASE CallFails
  BY <1>4 DEF CallFails, FaultTo, BootInv, DirsInv, cfg
<1>5. CASE CopyConfig
  BY <1>5, ConfigKept DEF BootInv, DirsInv, cfg, OnDisk, Persists, PersistentCow, Early,
         Middle, Late, Marked
<1>6. CASE SyncTime
  BY <1>6 DEF SyncTime, Goto, BootInv, DirsInv, cfg
<1>7. CASE SetupRootfs
  BY <1>7 DEF SetupRootfs, Goto, BootInv, DirsInv, cfg
<1>8. CASE EnsureDelta
  BY <1>8 DEF EnsureDelta, Goto, BootInv, DirsInv, cfg
<1>9. CASE ZeroDelta
  BY <1>9 DEF ZeroDelta, Goto, BootInv, DirsInv, cfg
<1>10. CASE SetupDeltaLuks2
  BY <1>10, Zenon DEF SetupDeltaLuks2, Goto, FaultTo, BootInv, DirsInv, cfg
<1>11. CASE DeltaFilesystem
  BY <1>11 DEF DeltaFilesystem, Goto, FaultTo, BootInv, DirsInv, cfg
<1>12. CASE SnapshotOrigin
  BY <1>12 DEF SnapshotOrigin, Goto, BootInv, DirsInv, cfg
<1>13. CASE CreateSnapshot
  BY <1>13 DEF CreateSnapshot, Goto, BootInv, DirsInv, cfg
<1>14. CASE MarkDelta
  BY <1>14 DEF MarkDelta, Goto, BootInv, DirsInv, cfg
<1>15. CASE MountSysroot
  BY <1>15 DEF MountSysroot, Goto, FaultTo, BootInv, DirsInv, cfg
<1>16. CASE CheckSysroot
  BY <1>16 DEF CheckSysroot, Goto, BootInv, DirsInv, cfg
<1>17. CASE MountOverlay
  BY <1>17, DirsToBind DEF BootInv, DirsInv, MountOverlay, Goto
<1>18. CASE BindDir
  BY <1>18, NextDirs, DirBound, ZenonT(40) DEF BootInv, DirsInv, UpperInv, PathInv, NextDir,
         cfg
<1>19. CASE CopyDir
  BY <1>19, NextDirs, DirCopied, Zenon DEF BootInv, DirsInv, UpperInv, PathInv, NextDir, cfg
<1>20. CASE SkipDir
  BY <1>20, NextDirs, Zenon DEF BootInv, DirsInv, UpperInv, PathInv, NextDir, cfg, SkipDir,
         FaultTo
<1>21. CASE UserWrites
  BY <1>21 DEF UserWrites, BootInv, DirsInv, cfg
<1>22. CASE UNCHANGED vars
  BY <1>22, Zenon DEF BootInv, TypeInv, DirsInv, cfg
<1>23. QED
  BY <1>1, <1>2, <1>3, <1>4, <1>5, <1>6, <1>7, <1>8, <1>9, <1>10, <1>11, <1>12, <1>13,
     <1>14, <1>15, <1>16, <1>17, <1>18, <1>19, <1>20, <1>21, <1>22 DEF Next, Stage

(* Every step keeps the bind origins whole but for the one being copied. *)
LEMMA BindsInvStep == ASSUME BootInv, [Next]_vars PROVE BindsInv'
<1> USE DEF vars, disk, runtime
<1>1. CASE PowerOn
  BY <1>1 DEF PowerOn, BootInv, BindsInv, cfg, OnDisk, Marked, Early, Middle, Late
<1>2. CASE PowerOff
  BY <1>2, CopyCut, DirsToBind, Zenon DEF PowerOff, RuntimeReset, BootInv, BindsInv,
         Rebound, Marked, Late
<1>3. CASE Reconfigure
  BY <1>3, Zenon DEF Reconfigure, BootInv, BindsInv, cfg, OnDisk, Marked
<1>4. CASE CallFails
  BY <1>4, Zenon DEF CallFails, FaultTo, BootInv, BindsInv, cfg, OnDisk, Marked, Early,
         Middle, Late
<1>5. CASE CopyConfig
  <2>1. UNCHANGED <<store, recreate, dirs, mounted>>
    BY <1>5, ConfigKept, Zenon
  <2>2. CASE pc = "config1" /\ pc' \in {"time", "failed"}
    BY <2>1, <2>2, Zenon DEF BootInv, BindsInv, Late, Marked
  <2>3. CASE pc = "config2" /\ pc' = "check" /\ initrd' = initrd
    BY <2>1, <2>3, Zenon DEF BootInv, BindsInv, cfg, OnDisk, Late, Marked
  <2>4. QED
    BY <1>5, <2>2, <2>3, ConfigKept, Zenon
<1>6. CASE SyncTime
  BY <1>6, Zenon DEF SyncTime, Goto, BootInv, BindsInv, cfg, OnDisk, Marked, Early,
         Middle, Late
<1>7. CASE SetupRootfs
  BY <1>7 DEF SetupRootfs, Goto, BootInv, BindsInv, cfg, OnDisk, Marked, Early, Middle, Late
<1>8. CASE EnsureDelta
  BY <1>8, Zenon DEF EnsureDelta, Goto, BootInv, BindsInv, cfg, OnDisk, Marked, Early,
         Middle, Late
<1>9. CASE ZeroDelta
  BY <1>9 DEF ZeroDelta, Goto, BootInv, BindsInv, cfg, OnDisk, Marked, Early, Middle, Late
<1>10. CASE SetupDeltaLuks2
  BY <1>10, HeaderWritten, Fields, ZenonT(40) DEF BootInv, TypeInv, PathInv, UpperInv,
         DeltaInv, DirsInv, BindsInv, Recreate, is_initialized, cfg, OnDisk, Persists,
         PersistentCow, Backends, Early, Middle, Late, Marked
<1>11. CASE DeltaFilesystem
  <2>1. dirs' = dirs /\ dirs \in Seq(Dirs) /\ mounted' = {} /\ mounted = {} /\ recreate' = recreate
    BY <1>11, FilesystemMade, SMTT(30) DEF BootInv, TypeInv, DirsInv
  <2>2. CASE recreate
    <3>1. \A d \in Dirs : store'.binds[d] = "absent"
      BY <1>11, <2>2, FilesystemMade DEF Fresh
    <3>2. \A i \in 1..Len(dirs) : dirs[i] \in Dirs
      BY <2>1
    <3>3. pc' # "copy"
      BY <1>11, FilesystemMade, Zenon
    <3>4. QED
      BY <2>1, <3>1, <3>2, <3>3, Zenon DEF BindsInv
  <2>3. CASE ~recreate
    BY <1>11, <2>1, <2>3, FilesystemMade, Zenon DEF BootInv, BindsInv
  <2>4. QED
    BY <2>2, <2>3
<1>12. CASE SnapshotOrigin
  <2>1. dirs' = dirs /\ dirs \in Seq(Dirs) /\ mounted' = {} /\ mounted = {}
    BY <1>12, OriginMade, Zenon DEF BootInv, TypeInv, DirsInv
  <2>2. store' = store \/ \A d \in Dirs : store'.binds[d] = "absent"
    BY <1>12, OriginMade DEF Fresh
  <2>3. QED
    BY <1>12, <2>1, <2>2, OriginMade, Zenon DEF BootInv, PathInv, BindsInv, cfg, OnDisk,
           Late, Marked
<1>13. CASE CreateSnapshot
  <2>1. dirs' = dirs /\ dirs \in Seq(Dirs) /\ mounted' = {} /\ mounted = {}
    BY <1>13, SnapshotMade, Zenon DEF BootInv, TypeInv, DirsInv
  <2>2. store' = store \/ \A d \in Dirs : store'.binds[d] = "absent"
    BY <1>13, SnapshotMade DEF Fresh
  <2>3. QED
    BY <1>13, <2>1, <2>2, SnapshotMade, ZenonT(40) DEF BootInv, PathInv, BindsInv, cfg,
           OnDisk, Late, Marked
<1>14. CASE MarkDelta
  BY <1>14, Zenon DEF MarkDelta, Goto, BootInv, BindsInv, cfg, OnDisk, Marked
<1>15. CASE MountSysroot
  BY <1>15, Zenon DEF MountSysroot, Goto, FaultTo, BootInv, BindsInv, cfg, OnDisk,
         Marked, Early, Middle, Late
<1>16. CASE CheckSysroot
  BY <1>16, Zenon DEF CheckSysroot, Goto, BootInv, BindsInv, cfg, OnDisk, Marked, Early,
         Middle, Late
<1>17. CASE MountOverlay
  BY <1>17 DEF MountOverlay, Goto, BootInv, BindsInv, cfg, OnDisk, Marked, Early, Middle,
         Late
<1>18. CASE BindDir
  <2>1. CASE store.binds[Head(dirs)] = "absent"
    <3>1. /\ pc = "bind" /\ pc' = "copy" /\ Head(dirs) \in Dirs /\ Rebound(Head(dirs), "partial")
          /\ UNCHANGED <<dirs, mounted, initrd, recreate>>
      BY <1>18, <2>1, DirBound
    <3>2. /\ Head(dirs) = dirs[1] /\ mounted \subseteq Dirs
          /\ \A i \in 1..Len(dirs) : dirs[i] \in Dirs /\ (i # 1 => dirs[i] # Head(dirs))
      BY <3>1, TailDirs DEF BootInv, TypeInv, DirsInv
    <3>3. QED
      BY <2>1, <3>1, <3>2, ZenonT(40) DEF BootInv, PathInv, BindsInv, Rebound, cfg, OnDisk,
             Late, Marked
  <2>2. CASE store.binds[Head(dirs)] # "absent"
    <3>1. /\ pc = "bind" /\ pc' \in {"bind", "running"} /\ Head(dirs) \in Dirs /\ store' = store
          /\ mounted' = mounted \union {Head(dirs)}
          /\ UNCHANGED <<initrd, recreate>>
          /\ \A i \in 1..Len(dirs') : i + 1 \in 1..Len(dirs) /\ dirs'[i] = dirs[i + 1]
      BY <1>18, <2>2, DirBound, NextDirs, Zenon DEF NextDir
    <3>2. store.binds[Head(dirs)] \in {"complete", "cut"}
      BY <2>2, <3>1, Fields DEF BootInv, BindsInv, Binds
    <3>3. Head(dirs) = dirs[1] /\ 1 \in 1..Len(dirs)
      BY <3>1, TailDirs DEF BootInv, TypeInv, DirsInv
    <3>4. QED
      BY <2>2, <3>1, <3>2, <3>3, Zenon DEF BootInv, PathInv, BindsInv, cfg, OnDisk, Late,
             Marked
  <2>3. QED
    BY <2>1, <2>2
<1>19. CASE CopyDir
  <2>1. /\ pc = "copy" /\ pc' \in {"bind", "running"} /\ Head(dirs) \in Dirs
        /\ UNCHANGED <<initrd, recreate>>
        /\ \A i \in 1..Len(dirs') : /\ dirs'[i] \in Dirs /\ dirs'[i] # Head(dirs)
                                    /\ i + 1 \in 1..Len(dirs) /\ dirs'[i] = dirs[i + 1]
    BY <1>19, DirCopied, NextDirs, Zenon
  <2>2. Head(dirs) \notin mounted /\ mounted \subseteq Dirs
    BY <2>1 DEF BootInv, TypeInv, BindsInv
  <2>3. recreate => \A i \in 1..Len(dirs') : store.binds[dirs'[i]] = "absent"
    <3>1. recreate => \A j \in 1..Len(dirs) : j # 1 => store.binds[dirs[j]] = "absent"
      BY <2>1, Zenon DEF BootInv, PathInv, BindsInv, Late, Marked
    <3>2. \A i \in 1..Len(dirs') : i + 1 # 1
      BY <2>1
    <3>3. QED
      BY <2>1, <3>1, <3>2
  <2>4. recreate => \A d \in mounted : store.binds[d] = "complete"
    BY <2>1, ZenonT(40) DEF BootInv, PathInv, BindsInv, Late, Marked
  <2>5. CASE Rebound(Head(dirs), "complete") /\ mounted' = mounted \union {Head(dirs)}
    BY <2>1, <2>2, <2>3, <2>4, <2>5, SMTT(30) DEF BootInv, BindsInv, Rebound
  <2>6. CASE (Rebound(Head(dirs), "absent") \/ Rebound(Head(dirs), "cut")) /\ mounted' = mounted
    BY <2>1, <2>2, <2>3, <2>4, <2>6, SMTT(30) DEF BootInv, BindsInv, Rebound
  <2>7. QED
    BY <1>19, <2>5, <2>6, DirCopied DEF NextDir
<1>20. CASE SkipDir
  <2>1. /\ pc = "bind" /\ pc' \in {"bind", "running"} /\ mounted' = mounted
        /\ UNCHANGED <<store, initrd, recreate>>
        /\ \A i \in 1..Len(dirs') : i + 1 \in 1..Len(dirs) /\ dirs'[i] = dirs[i + 1]
    BY <1>20, NextDirs, Zenon DEF BootInv, SkipDir, FaultTo, NextDir
  <2>2. recreate => \A i \in 1..Len(dirs') : store.binds[dirs'[i]] = "absent"
    <3>1. recreate => \A j \in 1..Len(dirs) : store.binds[dirs[j]] = "absent"
      BY <2>1, Zenon DEF BootInv, PathInv, BindsInv, Late, Marked
    <3>2. QED
      BY <2>1, <3>1
  <2>3. recreate => \A d \in mounted : store.binds[d] = "complete"
    BY <2>1, ZenonT(40) DEF BootInv, PathInv, BindsInv, Late, Marked
  <2>4. QED
    BY <2>1, <2>2, <2>3 DEF BootInv, BindsInv
<1>21. CASE UserWrites
  <2>1. CASE upper = "disk"
    BY <1>21, <2>1, SystemWrote, SMTT(30) DEF BootInv, BindsInv, cfg, OnDisk, Late, Marked
  <2>2. CASE upper # "disk"
    <3>1. mounted = {} /\ (cfg.fde => cfg.backend = "dm-snapshot")
      BY <1>21, <2>2, SystemWrote, OtherUpper
    <3>2. store' = store \/ \A d \in Dirs : store'.binds[d] = "absent"
      BY <1>21, <2>2, SystemWrote, Zenon DEF Fresh
    <3>3. QED
      BY <1>21, <3>1, <3>2, SystemWrote, Zenon DEF BootInv, BindsInv, cfg, OnDisk, Late,
             Marked
  <2>3. QED
    BY <2>1, <2>2
<1>22. CASE UNCHANGED vars
  BY <1>22 DEF BootInv, TypeInv, BindsInv, cfg, OnDisk, Marked
<1>23. QED
  BY <1>1, <1>2, <1>3, <1>4, <1>5, <1>6, <1>7, <1>8, <1>9, <1>10, <1>11, <1>12, <1>13,
     <1>14, <1>15, <1>16, <1>17, <1>18, <1>19, <1>20, <1>21, <1>22 DEF Next, Stage

-----------------------------------------------------------------------------
(* A boot that is to keep its data never makes less of it readable. *)
LEMMA KeptStep == ASSUME BootInv, [Next]_vars, Persists(cfg) PROVE Kept \subseteq Kept'
<1> USE DEF vars, disk, runtime
<1>1. CASE UNCHANGED <<hdr, store>>
  BY <1>1 DEF Kept
<1>2. CASE PowerOff
  BY <1>2, CopyCut, Zenon DEF PowerOff, Rebound, Kept
<1>3. CASE ZeroDelta
  BY <1>3 DEF ZeroDelta, BootInv, DiskInv, Kept
<1>4. CASE SetupDeltaLuks2
  <2>1. Recreate => hdr.state # "Ready"
    BY DEF Recreate, is_initialized, Persists
  <2>2. Recreate => Kept = {}
    BY <2>1, Fields, Zenon DEF BootInv, DiskInv, Kept
  <2>3. ~Recreate => hdr' = hdr /\ store' = store
    BY <1>4, HeaderWritten
  <2>4. QED
    BY <2>2, <2>3 DEF Kept
<1>5. CASE DeltaFilesystem
  <2>1. recreate => hdr.vk = session /\ store.vk < session
    BY <1>5, FilesystemMade, Zenon DEF BootInv, PathInv, DeltaInv, Middle
  <2>2. ~recreate => hdr' = hdr /\ store' = store
    BY <1>5, FilesystemMade
  <2>3. recreate => store.vk # hdr.vk
    BY <2>1, Fields DEF BootInv, TypeInv
  <2>4. QED
    BY <2>2, <2>3 DEF Kept
<1>6. CASE SnapshotOrigin
  <2>1. PersistentCow
    BY DEF Persists, PersistentCow
  <2>2. store' # store => Content \in {"none", "torn", "zeroed", "chunks"} /\ hdr' = hdr
    BY <1>6, <2>1, OriginMade
  <2>3. Content \in {"none", "torn", "zeroed", "chunks"} => Kept = {}
    BY Fields DEF BootInv, DiskInv, Content, Kept
  <2>4. QED
    BY <1>6, <2>2, <2>3, OriginMade DEF Kept
<1>7. CASE CreateSnapshot
  <2>1. PersistentCow
    BY DEF Persists, PersistentCow
  <2>2. Content = "zeroed" => Kept = {}
    BY Fields DEF BootInv, DiskInv, Content, Kept
  <2>3. QED
    BY <1>7, <2>1, <2>2, SnapshotMade DEF Kept
<1>8. CASE MarkDelta
  BY <1>8, HeaderMarked DEF MarkDelta, BootInv, TypeInv, Kept
<1>9. CASE BindDir
  BY <1>9, DirBound DEF Rebound, Kept
<1>10. CASE CopyDir
  BY <1>10, DirCopied DEF Rebound, Kept
<1>11. CASE UserWrites
  BY <1>11, SystemWrote, OtherUpper DEF Kept
<1>12. QED
  <2>1. PowerOn \/ Reconfigure \/ CallFails \/ CopyConfig \/ SyncTime \/ SetupRootfs \/ EnsureDelta
          \/ MountSysroot \/ CheckSysroot \/ MountOverlay \/ SkipDir => UNCHANGED <<hdr, store>>
    BY Zenon DEF PowerOn, Reconfigure, CallFails, CopyConfig, SyncTime, SetupRootfs,
           EnsureDelta, MountSysroot, CheckSysroot, MountOverlay, SkipDir
  <2>2. QED
    BY <1>1, <1>2, <1>3, <1>4, <1>5, <1>6, <1>7, <1>8, <1>9, <1>10, <1>11, <2>1 DEF Next,
           Stage

(* A machine that was never started satisfies the invariant. *)
LEMMA BootInvInit == Init => BootInv
<1> SUFFICES ASSUME Init PROVE BootInv
  OBVIOUS
<1>1. TypeInv
  BY Loadable, DirsToBind, HeaderSet, EmptyStore, Zenon DEF Init, TypeInv, Kinds
<1>2. ConfigInv
  BY DEF Init, ConfigInv, NoConfig
<1>3. PathInv /\ DeviceInv /\ UpperInv
  BY Loadable, Zenon DEF Init, PathInv, DeviceInv, UpperInv, cfg, Early, Middle, Late,
         Marked
<1>4. DiskInv
  BY HeaderSet, EmptyStore, SMTT(30) DEF Init, DiskInv, Kinds, Early
<1>5. DeltaInv /\ DirsInv
  BY DirsToBind, Zenon DEF Init, DeltaInv, DirsInv, Middle, Late
<1>6. BindsInv
  BY EmptyStore DEF Init, BindsInv, Kinds, Late, Marked
<1>7. QED
  BY <1>1, <1>2, <1>3, <1>4, <1>5, <1>6 DEF BootInv

(* The invariant holds in every state of every sequence of boots. *)
LEMMA BootInvariant == Spec => []BootInv
<1>1. BootInv /\ [Next]_vars => BootInv'
  BY TypeInvStep, ConfigInvStep, PathInvStep, DeviceInvStep, UpperInvStep, DiskInvStep,
     DeltaInvStep, DirsInvStep, BindsInvStep DEF BootInv
<1>2. QED
  BY BootInvInit, <1>1, PTL DEF Spec

-----------------------------------------------------------------------------
(* Both stages of a boot act on one configuration, and on one from         *)
(* cloud-init that an agent should measure only once it is measured        *)
(* (copy_config_to_initrd_state_if_not_exist, load_fde_config_bundle).     *)
THEOREM OneConfigurationPerBoot == Spec => []StagesAgree
<1>1. BootInv => StagesAgree
  BY DEF BootInv, ConfigInv, StagesAgree
<1>2. QED
  BY <1>1, BootInvariant, PTL

(* A system that runs has dm-verity with known metadata under its root and *)
(* writes to the layer that was set up for it (setup_rootfs_dm_verity,     *)
(* setup_dm_snapshot_device_chain, check_sysroot, setup_overlayfs_mounts). *)
THEOREM RootIsVerified == Spec => []RunsOnVerity
<1>1. BootInv => RunsOnVerity
  <2> SUFFICES ASSUME BootInv, pc = "running", cfg.fde PROVE RunsOnVerity
    BY Zenon DEF RunsOnVerity
  <2>1. sysroot = "rootfs" /\ image.metadata = "type 1" /\ upper # "none"
    BY Fields, Zenon DEF BootInv, UpperInv, PathInv, Backends, Late, Marked
  <2>2. cfg.backend = "dm-snapshot" => {"rootfs", "rootfs_extended", "rootfs_verity"} \subseteq dm
    BY DEF BootInv, DeviceInv, Late, Marked
  <2>3. upper = "disk" => hdr.state = "Ready" /\ store.vk = hdr.vk
    BY DiskUpper
  <2>4. QED
    BY <2>1, <2>2, <2>3, Zenon DEF RunsOnVerity
<1>2. QED
  BY <1>1, BootInvariant, PTL

(* A running system sees all that a persistent delta volume holds, and     *)
(* nothing of an earlier boot otherwise (setup_delta_volume_luks2,         *)
(* wipe_cow_device_header_async).                                          *)
THEOREM WritesSeen == Spec => []WritesAsConfigured
<1>1. BootInv => WritesAsConfigured
  <2> SUFFICES ASSUME BootInv, pc = "running", cfg.fde PROVE WritesAsConfigured
    BY DEF WritesAsConfigured
  <2>1. CASE upper = "disk"
    <3>1. Visible = store.writes /\ Kept = store.writes
      BY <2>1, DiskUpper, Zenon DEF Visible, Kept
    <3>2. ~Persists(cfg) => store.writes \subseteq {session}
      BY <2>1, DiskUpper DEF BootInv, DeltaInv, Late, Marked
    <3>3. QED
      BY <3>1, <3>2 DEF WritesAsConfigured
  <2>2. CASE upper # "disk"
    BY <2>2, OtherUpper, ZenonT(40) DEF BootInv, UpperInv, WritesAsConfigured, Visible
  <2>3. QED
    BY <2>1, <2>2
<1>2. QED
  BY <1>1, BootInvariant, PTL

(* A bound directory is a whole copy, or one that was cut short on a       *)
(* volume that persists (the loop over mount binds in                      *)
(* setup_overlayfs_mounts).                                                *)
THEOREM OriginsWhole == Spec => []OriginsComplete
<1>1. BootInv => OriginsComplete
  <2> SUFFICES ASSUME BootInv, pc = "running", NEW d \in mounted
               PROVE  store.binds[d] = "complete" \/ (store.binds[d] = "cut" /\ Persists(cfg))
    BY DEF OriginsComplete
  <2>1. upper = "disk" /\ cfg.fde /\ OnDisk(cfg)
    BY DiskUpper, OtherUpper
  <2>2. store.binds[d] \in {"complete", "cut"}
    BY DEF BootInv, BindsInv
  <2>3. ~Persists(cfg) => recreate
    BY <2>1 DEF BootInv, DeltaInv, Late
  <2>4. cfg.backend = "overlayfs"
    BY <2>1, Fields DEF BootInv, DirsInv, Backends
  <2>5. QED
    BY <2>1, <2>2, <2>3, <2>4, Zenon DEF BootInv, BindsInv, Late, Marked
<1>2. QED
  BY <1>1, BootInvariant, PTL

(* No step of a boot that is to keep its data takes away what earlier      *)
(* boots left readable: not the format, mkfs or the wiping of the COW      *)
(* header (setup_volumes_required_by_fde).                                 *)
THEOREM DataPersists == Spec => PersistentDataKept
<1>1. BootInv /\ [Next]_vars => [Kept \subseteq Kept' \/ ~Persists(cfg)]_vars
  BY KeptStep
<1>2. QED
  BY <1>1, BootInvariant, PTL DEF Spec, PersistentDataKept

=============================================================================
