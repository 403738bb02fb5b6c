------------------------------ MODULE FdeBoot ------------------------------
(***************************************************************************)
(* A full-disk-encryption guest over many boots (cryptpilot-fde): the two  *)
(* stages of the boot service run in the initrd, before and after systemd  *)
(* mounts /sysroot. The disk survives a power loss at any step; the rest   *)
(* (device mapper tables, mounts, /var/run, RAM) does not.                 *)
(*                                                                         *)
(* A boot is one session; the volume key a boot formats the delta volume   *)
(* with is named after the session. `store` is what is inside the delta    *)
(* volume, readable only under the volume key it was written with.         *)
(***************************************************************************)
EXTENDS Naturals, Sequences, FiniteSets

CONSTANTS
    Images,         \* what the initrd image may carry: [cfg, files, metadata]
    UserData,       \* what cloud-init may hold: [header, parses, cfg]
    BindDirs,       \* sequence of directories with a bind mount of their own
    MaxBoots,       \* bound: boots in a behaviour
    MaxFaults       \* bound: calls of commands and services that fail

(* FdeConfig: encrypt is the rootfs key provider's volume type, key the    *)
(* delta provider's. NoFde is a bundle without an fde section.             *)
Locations == {"disk", "disk-persist", "ram"}
Backends == {"overlayfs", "dm-snapshot"}
NoFde == [ encrypt |-> "none", backend |-> "overlayfs", location |-> "ram",
           key |-> "persistent", fde |-> FALSE ]
Configs == [ encrypt : {"none", "persistent", "temporary"}, backend : Backends,
             location : Locations, key : {"persistent", "temporary"}, fde : BOOLEAN ]
NoConfig == [cfg |-> NoFde, source |-> "none", agent |-> "none"]

Dirs == {BindDirs[i] : i \in 1..Len(BindDirs)}

(* The list of directories is fixed in the code, without repetition.       *)
ASSUME FdeBootAssumption ==
    /\ MaxBoots \in Nat
    /\ MaxFaults \in Nat
    /\ Images \subseteq [cfg : Configs, files : {"ok", "broken"}, metadata : {"type 1", "type 2"}]
    /\ UserData \subseteq [header : BOOLEAN, parses : BOOLEAN, cfg : Configs]
    /\ BindDirs \in Seq(Dirs) /\ BindDirs # <<>>
    /\ \A i, j \in 1..Len(BindDirs) : BindDirs[i] = BindDirs[j] => i = j

VARIABLES
    lv,         \* the delta logical volume exists
    hdr,        \* its LUKS2 header: [state, vk]
    store,      \* what was written through the mapping: [vk, kind, writes, binds]
    image,      \* the initrd image: its configuration, and whether its files are well formed
    mixed,      \* boots so far had different configurations
    faults,     \* calls that failed
    session,    \* number of the current boot
    pc,         \* where the boot is
    initrd,     \* initrd_state.toml
    measured,   \* configurations extended into the runtime measurement
    used,       \* configuration the first stage acted on
    dm,         \* active device-mapper devices
    recreate,   \* setup_delta_volume_luks2's result
    sysroot,    \* device /sysroot is mounted from
    upper,      \* where writes to the root filesystem go
    ramWrites,  \* sessions whose writes are in RAM
    dirs,       \* directories still to be bound
    mounted     \* directories bound

disk == <<lv, hdr, store>>
runtime == <<initrd, measured, used, dm, recreate, sysroot, upper, ramWrites, dirs, mounted>>
vars == <<disk, image, mixed, faults, session, pc, runtime>>

cfg == initrd.cfg
Persists(c) == c.fde /\ c.location = "disk-persist" /\ c.key = "persistent"
OnDisk(c) == c.location \in {"disk", "disk-persist"}

NoBinds == [d \in Dirs |-> "absent"]
Empty(vk, kind) == [vk |-> vk, kind |-> kind, writes |-> {}, binds |-> NoBinds]

(* What a reader of the mapped delta volume finds: blocks written under    *)
(* another volume key are noise.                                           *)
Content == IF store.vk = hdr.vk THEN store.kind ELSE "none"
Kept == IF hdr.state # "None" /\ store.vk = hdr.vk THEN store.writes ELSE {}
Visible == IF upper = "disk" THEN store.writes ELSE ramWrites

RuntimeReset ==
    /\ initrd' = NoConfig /\ measured' = {} /\ used' = NoFde
    /\ dm' = {} /\ recreate' = FALSE /\ sysroot' = "none" /\ upper' = "none"
    /\ ramWrites' = {} /\ dirs' = BindDirs /\ mounted' = {}

Init ==
    /\ lv = FALSE
    /\ hdr = [state |-> "None", vk |-> 0]
    /\ store = Empty(0, "none")
    /\ image \in Images /\ mixed = FALSE /\ faults = 0
    /\ session = 0 /\ pc = "off"
    /\ initrd = NoConfig /\ measured = {} /\ used = NoFde
    /\ dm = {} /\ recreate = FALSE /\ sysroot = "none" /\ upper = "none"
    /\ ramWrites = {} /\ dirs = BindDirs /\ mounted = {}

-----------------------------------------------------------------------------
(* Power, and what the environment does *)

Goto(l) == pc' = l /\ UNCHANGED <<image, mixed, faults, session>>

(* A command or a service that is called returns an error, or no answer.    *)
FaultTo(l) ==
    /\ faults < MaxFaults /\ faults' = faults + 1
    /\ pc' = l
    /\ UNCHANGED <<image, mixed, session>>

PowerOn ==
    /\ pc = "off" /\ session < MaxBoots
    /\ session' = session + 1
    /\ pc' = "config1"
    /\ UNCHANGED <<disk, image, mixed, faults, runtime>>

SetBind(d, x) == store' = [store EXCEPT !.binds[d] = x]

(* A power loss, a reset or a shutdown, at any step. A copy is cut short.   *)
PowerOff ==
    /\ pc # "off" /\ session < MaxBoots
    /\ pc' = "off"
    /\ RuntimeReset
    /\ IF pc = "copy" THEN SetBind(Head(dirs), "cut") ELSE UNCHANGED store
    /\ UNCHANGED <<lv, hdr, image, mixed, faults, session>>

Reconfigure ==
    /\ pc = "off"
    /\ image' \in Images \ {image}
    /\ mixed' = TRUE
    /\ UNCHANGED <<disk, faults, session, pc, runtime>>

(* The stage ends with the error of the call, and the units it is required  *)
(* by do not start; only binding a directory goes on.                       *)
CallFails ==
    /\ pc \notin {"off", "failed", "running", "bind", "copy"}
    /\ FaultTo("failed")
    /\ UNCHANGED <<disk, runtime>>

-----------------------------------------------------------------------------
(* Both stages: copy_config_to_initrd_state_if_not_exist *)

(* The user data must begin with the header and be a bundle.                *)
parse_from_user_data(data) == IF data.header /\ data.parses THEN {data.cfg} ELSE {}

(* The configurations cloud-init may answer with; it may also be out of     *)
(* reach.                                                                   *)
CloudBundles == UNION {parse_from_user_data(data) : data \in UserData}

(* FileSystemConfigSource: no fde.toml is NoFde; a file that does not parse *)
(* leaves no configuration at all.                                          *)
LoadLocal ==
    initrd' = IF image.files = "broken" THEN NoConfig
              ELSE [cfg |-> image.cfg, source |-> "local", agent |-> "none"]

(* With an attestation agent (Aael) the configuration is measured first, or *)
(* not used; the agent may have extended it although no answer came. With   *)
(* no agent (Nope) there is no measurement to extend.                       *)
LoadCloud(c) ==
    \/ /\ measured' = measured \union {c}
       /\ initrd' = [cfg |-> c, source |-> "cloud", agent |-> "Aael"]
    \/ /\ UNCHANGED measured
       /\ initrd' = [cfg |-> c, source |-> "cloud", agent |-> "Nope"]
    \/ /\ measured' \in {measured, measured \union {c}}
       /\ LoadLocal

load_fde_config_bundle ==
    \/ LoadLocal /\ UNCHANGED measured
    \/ \E c \in CloudBundles : LoadCloud(c)

(* Mutant: each stage loads the configuration again. *)
copy_config_Reloads == load_fde_config_bundle

copy_config ==
    \/ /\ initrd # NoConfig
       /\ UNCHANGED <<initrd, measured>>
    \/ /\ initrd = NoConfig
       /\ load_fde_config_bundle

CopyConfig ==
    /\ pc \in {"config1", "config2"}
    /\ copy_config
    /\ pc' = IF initrd' = NoConfig THEN "failed" ELSE IF pc = "config1" THEN "time" ELSE "check"
    /\ used' = IF pc = "config1" THEN initrd'.cfg ELSE used
    /\ mixed' = (mixed \/ initrd'.source = "cloud")
    /\ UNCHANGED <<disk, image, faults, session, dm, recreate, sysroot, upper, ramWrites, dirs, mounted>>

-----------------------------------------------------------------------------
(* Stage 1: sync_time_to_system, setup_volumes_required_by_fde *)

(* Without IMDS or an answer of the NTP server the clock is left as it is.  *)
SyncTime == pc = "time" /\ Goto("metadata") /\ UNCHANGED <<disk, runtime>>

(* load_metadata and the check of its type. *)
MetadataAccepted == image.metadata = "type 1"

setup_rootfs_dm_verity == {IF cfg.backend = "overlayfs" THEN "rootfs" ELSE "rootfs_verity"}

(* A rootfs key provider of a temporary volume is refused.                 *)
SetupRootfs ==
    /\ pc = "metadata"
    /\ IF ~cfg.fde THEN Goto("sysroot") /\ UNCHANGED dm
       ELSE IF ~MetadataAccepted \/ cfg.encrypt = "temporary" THEN Goto("failed") /\ UNCHANGED dm
       ELSE /\ Goto("delta")
            /\ dm' = (IF cfg.encrypt = "none" THEN {} ELSE {"rootfs_decrypted"})
                      \union setup_rootfs_dm_verity
    /\ UNCHANGED <<disk, initrd, measured, used, recreate, sysroot, upper, ramWrites, dirs, mounted>>

(* ensure_delta_volume_exist_and_expanded: a new volume is zeroed in a     *)
(* second step; failing to expand an old one is only logged.               *)
EnsureDelta ==
    /\ pc = "delta"
    /\ IF OnDisk(cfg)
       THEN lv' = TRUE /\ Goto(IF lv THEN "luks" ELSE "zero")
       ELSE lv' = lv /\ Goto(IF cfg.backend = "overlayfs" THEN "sysroot" ELSE "chain")
    /\ UNCHANGED <<hdr, store, runtime>>

ZeroDelta ==
    /\ pc = "zero"
    /\ hdr' = [state |-> "None", vk |-> 0]
    /\ Goto("luks")
    /\ UNCHANGED <<lv, store, runtime>>

is_initialized == hdr.state = "Ready"
(* Mutant: a volume that is still initialising is reused. *)
Recreate_TrustsHeader ==
    cfg.key = "temporary" \/ hdr.state = "None" \/ cfg.location = "disk"

(* Mutant: a delta volume on "disk" is kept like a persistent one. *)
Recreate_KeepsDisk == cfg.key = "temporary" \/ ~is_initialized

(* Mutant: the delta volume is formatted on every boot. *)
Recreate_Always == TRUE

Recreate == cfg.key = "temporary" \/ ~is_initialized \/ cfg.location = "disk"

(* setup_delta_volume_luks2. luksFormat interrupted leaves no header. *)
SetupDeltaLuks2 ==
    /\ pc = "luks"
    /\ recreate' = Recreate
    /\ \/ /\ IF Recreate THEN hdr' = [state |-> "Initializing", vk |-> session]
             ELSE UNCHANGED hdr
          /\ dm' = dm \union {"delta"}
          /\ Goto(IF cfg.backend = "overlayfs" THEN "ext4" ELSE "chain")
       \/ /\ Recreate
          /\ hdr' = [state |-> "None", vk |-> 0]
          /\ UNCHANGED dm
          /\ FaultTo("failed")
    /\ UNCHANGED <<lv, store, initrd, measured, used, sysroot, upper, ramWrites, dirs, mounted>>

(* overlayfs: make a filesystem, or resize the one that is there (tune2fs  *)
(* and resize2fs fail if it is not ext4). A mkfs cut short leaves half of  *)
(* a filesystem.                                                           *)
DeltaFilesystem ==
    /\ pc = "ext4"
    /\ IF recreate
       THEN \/ store' = Empty(hdr.vk, "ext4") /\ Goto("mark")
            \/ store' = Empty(hdr.vk, "torn") /\ FaultTo("failed")
       ELSE UNCHANGED store /\ Goto(IF Content = "ext4" THEN "mark" ELSE "failed")
    /\ UNCHANGED <<lv, hdr, runtime>>

PersistentCow == cfg.location = "disk-persist"

(* What blkid -p says of the COW device: noise, half a filesystem and      *)
(* chunks of a snapshot have no signature.                                 *)
probe_device == IF Content \in {"none", "torn", "zeroed", "chunks"} THEN "NoSignatures" ELSE Content

wipe_cow_device_header == store' = Empty(hdr.vk, "zeroed")

(* setup_dm_snapshot_device_chain up to the COW device: dm-linear over     *)
(* dm-verity, then wipe the COW header, keep it, or refuse to overwrite.   *)
SnapshotOrigin ==
    /\ pc = "chain"
    /\ dm' = dm \union {"rootfs_extended"}
    /\ IF cfg.location = "ram" THEN UNCHANGED store /\ Goto("snapshot")
       ELSE IF ~PersistentCow \/ probe_device = "NoSignatures"
            THEN wipe_cow_device_header /\ Goto("snapshot")
       ELSE UNCHANGED store /\ Goto(IF probe_device = "cow" THEN "snapshot" ELSE "failed")
    /\ UNCHANGED <<lv, hdr, initrd, measured, used, recreate, sysroot, upper, ramWrites, dirs, mounted>>

(* A non-persistent snapshot keeps its chunks on the COW device and their  *)
(* addresses in memory: the first chunk may well be a copy of an ext4      *)
(* superblock.                                                             *)
WriteChunks ==
    \/ UNCHANGED store
    \/ "delta" \in dm /\ \E k \in {"chunks", "ext4"} : store' = Empty(hdr.vk, k)

(* The snapshot target (external) starts a persistent COW header on a      *)
(* zeroed device, or takes up the one it finds. Growing the file system on *)
(* it (resize_ext4_filesystem) writes to the snapshot.                     *)
CreateSnapshot ==
    /\ pc = "snapshot"
    /\ dm' = dm \union {"rootfs"}
    /\ upper' = IF PersistentCow THEN "disk" ELSE "ram"
    /\ IF ~PersistentCow THEN WriteChunks
       ELSE IF Content = "zeroed" THEN store' = Empty(hdr.vk, "cow") ELSE UNCHANGED store
    /\ Goto("mark")
    /\ UNCHANGED <<lv, hdr, initrd, measured, used, recreate, sysroot, ramWrites, dirs, mounted>>

MarkDelta ==
    /\ pc = "mark"
    /\ hdr' = IF recreate THEN [hdr EXCEPT !.state = "Ready"] ELSE hdr
    /\ Goto("sysroot")
    /\ UNCHANGED <<lv, store, runtime>>

-----------------------------------------------------------------------------
(* systemd (external) mounts /sysroot from what /etc/fstab or the kernel   *)
(* command line name: the rootfs device, or another one.                   *)
MountSysroot ==
    /\ pc = "sysroot"
    /\ \/ "rootfs" \in dm /\ sysroot' = "rootfs" /\ Goto("config2")
       \/ sysroot' = "other" /\ IF cfg.fde THEN FaultTo("config2") ELSE Goto("config2")
    /\ UNCHANGED <<disk, initrd, measured, used, dm, recreate, upper, ramWrites, dirs, mounted>>

-----------------------------------------------------------------------------
(* Stage 2: setup_mounts_required_by_fde *)

(* Mutant: whatever is mounted at /sysroot will do. *)
CheckSysroot_Any ==
    /\ pc = "check"
    /\ Goto(IF cfg.fde /\ cfg.backend = "overlayfs" THEN "overlay" ELSE "running")
    /\ UNCHANGED <<disk, runtime>>

check_sysroot == sysroot = "rootfs"

CheckSysroot ==
    /\ pc = "check"
    /\ Goto(IF ~cfg.fde THEN "running"
            ELSE IF ~check_sysroot THEN "failed"
            ELSE IF cfg.backend = "overlayfs" THEN "overlay" ELSE "running")
    /\ UNCHANGED <<disk, runtime>>

(* Mount the delta volume, bind /sysroot aside, mount the overlay. *)
MountOverlay ==
    /\ pc = "overlay"
    /\ IF "delta" \in dm
       THEN /\ upper' = IF cfg.location = "ram" THEN "ram" ELSE "disk"
            /\ Goto("bind")
       ELSE UNCHANGED upper /\ Goto("failed")
    /\ UNCHANGED <<disk, initrd, measured, used, dm, recreate, sysroot, ramWrites, dirs, mounted>>

AfterDir == IF Tail(dirs) = <<>> THEN "running" ELSE "bind"
NextDir(bound) == dirs' = Tail(dirs) /\ mounted' = mounted \union bound

(* One turn of the loop over the directories: an origin that exists was    *)
(* set up before and is used as it is; a new one is created, then filled.  *)
BindDir ==
    /\ pc = "bind"
    /\ IF store.binds[Head(dirs)] = "absent"
       THEN SetBind(Head(dirs), "partial") /\ Goto("copy") /\ UNCHANGED <<dirs, mounted>>
       ELSE NextDir({Head(dirs)}) /\ Goto(AfterDir) /\ UNCHANGED store
    /\ UNCHANGED <<lv, hdr, initrd, measured, used, dm, recreate, sysroot, upper, ramWrites>>

(* Mutant: a copy that failed is left behind. *)
CopyDir_Leaves ==
    /\ pc = "copy"
    /\ \/ SetBind(Head(dirs), "complete") /\ NextDir({Head(dirs)}) /\ Goto(AfterDir)
       \/ UNCHANGED store /\ NextDir({}) /\ FaultTo(AfterDir)
    /\ UNCHANGED <<lv, hdr, initrd, measured, used, dm, recreate, sysroot, upper, ramWrites>>

(* cp -a from the lower layer: on failure the origin is removed again, if  *)
(* that succeeds, and the directory goes unbound; the stage goes on.       *)
CopyDir ==
    /\ pc = "copy"
    /\ \/ SetBind(Head(dirs), "complete") /\ NextDir({Head(dirs)}) /\ Goto(AfterDir)
       \/ \E left \in {"absent", "cut"} :
             SetBind(Head(dirs), left) /\ NextDir({}) /\ FaultTo(AfterDir)
    /\ UNCHANGED <<lv, hdr, initrd, measured, used, dm, recreate, sysroot, upper, ramWrites>>

(* The target or the origin is not a directory, or mount fails: logged. *)
SkipDir ==
    /\ pc = "bind"
    /\ NextDir({}) /\ FaultTo(AfterDir)
    /\ UNCHANGED <<disk, initrd, measured, used, dm, recreate, sysroot, upper, ramWrites>>

-----------------------------------------------------------------------------
(* The system runs and writes to its root filesystem.                      *)
UserWrites ==
    /\ pc = "running" /\ upper # "none" /\ session \notin Visible
    /\ IF upper = "disk"
       THEN store' = [store EXCEPT !.writes = @ \union {session}] /\ UNCHANGED ramWrites
       ELSE ramWrites' = ramWrites \union {session} /\ WriteChunks
    /\ UNCHANGED <<lv, hdr, image, mixed, faults, session, pc, initrd, measured, used, dm, recreate, sysroot, upper, dirs, mounted>>

Stage ==
    \/ CopyConfig \/ SyncTime \/ SetupRootfs \/ EnsureDelta \/ ZeroDelta \/ SetupDeltaLuks2
    \/ DeltaFilesystem \/ SnapshotOrigin \/ CreateSnapshot \/ MarkDelta
    \/ MountSysroot \/ CheckSysroot \/ MountOverlay \/ BindDir \/ CopyDir

Next ==
    \/ PowerOn \/ PowerOff \/ Reconfigure \/ CallFails
    \/ Stage \/ SkipDir \/ UserWrites

Spec == Init /\ [][Next]_vars

(* The stages are oneshot units: systemd starts them and they run on, and  *)
(* a machine that is off is started again.                                 *)
FairSpec == Spec /\ WF_vars(Stage) /\ WF_vars(PowerOn)

-----------------------------------------------------------------------------
(* No boot loses what earlier sessions left readable in the delta volume   *)
(* unless its own configuration is not persistent: not by formatting, not  *)
(* by mkfs, not by wiping the COW header, whatever failed or lost power    *)
(* before, and even if the backend changed in between.                     *)
PersistentDataKept == [][Kept \subseteq Kept' \/ ~Persists(cfg)]_vars

(* A running system sees the writes its configuration promises. If its     *)
(* delta data is persistent it sees all that earlier boots left on the     *)
(* disk, and all that it sees is on the disk for the next one, whichever   *)
(* backend holds it. With a delta on "disk" or in RAM, or a temporary      *)
(* delta key, it sees no write of an earlier boot.                         *)
WritesAsConfigured ==
    pc = "running" /\ cfg.fde =>
        IF Persists(cfg) THEN Visible = Kept ELSE Visible \subseteq {session}

(* The system only runs on a root filesystem with dm-verity under it, set  *)
(* up with metadata of a type that is known, and its writes go to the      *)
(* layer that the first stage set up for them.                             *)
RunsOnVerity ==
    pc = "running" /\ cfg.fde =>
        /\ sysroot = "rootfs" /\ upper # "none" /\ image.metadata = "type 1"
        /\ cfg.backend = "dm-snapshot" =>
              {"rootfs", "rootfs_extended", "rootfs_verity"} \subseteq dm
        /\ upper = "disk" => hdr.state = "Ready" /\ store.vk = hdr.vk

(* The stages of one boot act on one configuration, although cloud-init    *)
(* and the measurement service may answer one stage and not the other; a   *)
(* configuration from cloud-init that an attestation agent should measure  *)
(* is acted on only once it is measured.                                   *)
StagesAgree ==
    /\ pc \in {"check", "overlay", "bind", "copy", "running"} => used = cfg
    /\ initrd.agent = "Aael" => cfg \in measured

(* A directory is only bound to an origin that holds all of the lower      *)
(* layer's files, whatever failed in this boot or an earlier one. The      *)
(* exception: what a power loss cut short, or could not be removed, stays  *)
(* on a delta volume that persists, and is bound by the boots after it.    *)
OriginsComplete ==
    pc = "running" => \A d \in mounted :
        store.binds[d] = "complete" \/ (store.binds[d] = "cut" /\ Persists(cfg))

(* What the service can boot with.                                         *)
Bootable ==
    /\ image.files = "ok"
    /\ image.cfg.fde =>
         /\ image.metadata = "type 1" /\ image.cfg.encrypt # "temporary"
         /\ ~(image.cfg.backend = "overlayfs" /\ image.cfg.location = "ram")

(* No sequence of failed calls and power losses leaves a disk the service  *)
(* cannot boot from again: once no call fails any more, a boot that keeps  *)
(* its power reaches the system, if the disk was only used with the        *)
(* configuration it has now.                                               *)
BootsAgain ==
    (pc = "config1" /\ faults = MaxFaults /\ ~mixed /\ Bootable)
        ~> (pc \in {"running", "off"} \/ mixed)

=============================================================================
