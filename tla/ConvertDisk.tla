---------------------------- MODULE ConvertDisk -----------------------------
(***************************************************************************)
(* One cryptpilot-convert at a time (cryptpilot-convert.sh), on an image   *)
(* or in place on a device: the steps of main, which of them mount, map    *)
(* and write what, a failure at any command (set -e), and the cleanup      *)
(* hooks that the exit trap then runs, the latest first. A conversion in   *)
(* place that failed may be started again on what it left.                 *)
(*                                                                         *)
(* The contents of a root filesystem are reduced to whether /boot holds a  *)
(* kernel, whether the guest packages are installed, its read-only flag,   *)
(* and what etc/resolv.conf and its backup are; a root hash is the         *)
(* contents hashed.                                                        *)
(***************************************************************************)
EXTENDS Naturals, Sequences, SequencesExt

CONSTANTS
    EtcKinds,       \* what etc/resolv.conf may be: "file", "link", "absent"
    MaxRuns         \* bound: conversions of the disk

VARIABLES
    opt,            \* the options, and whether there is a boot partition
    pc, stage,      \* step of main; what the chroot is prepared for
    todo,           \* mount points still to be mounted
    outcome,
    hooks,          \* the commands of the exit trap
    mounts,         \* mount points below the work directory in use
    dm,             \* device-mapper devices on the disk
    connected,      \* the image is connected to an NBD device
    workdir,        \* the work directory exists
    files,          \* boot.img, rootfs.img and metadata.toml in it
    disk,           \* the partitions and logical volumes
    runs

work == <<files, workdir>>
vars == <<opt, pc, stage, todo, outcome, hooks, mounts, dm, connected, work, disk, runs>>
ASSUME ConvertAssumption == EtcKinds \subseteq {"file", "link", "absent"} /\ MaxRuns \in Nat \ {0}

(* Contents that may be missing are sequences of at most one element.      *)
None == <<>>
NoFiles == [boot |-> None, root |-> None, metadata |-> None]
Probed == <<"wefi", "wboot", "rootfs">>
ChrootMounts == <<"rootfs", "dev", "boot", "efi", "etc">>
NewBoot == ~opt.boot /\ ~opt.uki

(* The mount points that a recursive unmount takes away.                    *)
Below(p) == CASE p = "rootfs" -> {"rootfs", "dev", "boot", "efi", "etc"}
              [] p = "boot" -> {"boot", "efi"}
              [] OTHER -> {p}

Goto(l) == pc' = l /\ UNCHANGED <<stage, todo, outcome>>
(* Mutant: a new command is put behind the others in the trap.              *)
Hook_Behind(hs) == hooks' = Reverse(hs) \o hooks

Hook(hs) == hooks' = hooks \o hs

OriginalDisk(etc) ==
    [root |-> <<[kernel |-> ~opt.boot, updated |-> FALSE, ro |-> FALSE,
                etc |-> etc, backup |-> "absent"]>>,
     boot |-> [kernel |-> opt.boot, meta |-> None], efi |-> None, lv |-> None, hash |-> None,
     etc |-> etc]

-----------------------------------------------------------------------------
(* Mutant: the hook that deletes the work directory is missing.             *)
Setup_NoHook ==
    /\ pc = "start"
    /\ workdir' = TRUE /\ files' = NoFiles
    /\ IF opt.device THEN Hook(<<>>) /\ UNCHANGED connected
       ELSE Hook(<<"work", "disconnect">>) /\ connected' = TRUE
    /\ pc' = "find" /\ todo' = Probed
    /\ UNCHANGED <<opt, stage, outcome, mounts, dm, disk, runs>>

(* [1] The work directory, the work file and its NBD device; the hooks are  *)
(* registered before what they undo.                                        *)
Setup ==
    /\ pc = "start"
    /\ workdir' = TRUE /\ files' = NoFiles
    /\ IF opt.device THEN Hook(<<"workdir">>) /\ UNCHANGED connected
       ELSE Hook(<<"workdir", "work", "disconnect">>) /\ connected' = TRUE
    /\ pc' = "find" /\ todo' = Probed
    /\ UNCHANGED <<opt, stage, outcome, mounts, dm, disk, runs>>

(* find_efi_partition, find_boot_partition and find_rootfs_partition mount  *)
(* candidates and look into them.                                           *)
ProbeMount ==
    /\ pc = "find" /\ todo # <<>>
    /\ Hook(<<Head(todo)>>) /\ mounts' = {Head(todo)}
    /\ pc' = "probe" /\ todo' = Tail(todo)
    /\ UNCHANGED <<opt, stage, outcome, dm, connected, work, disk, runs>>

ProbeUnmount ==
    /\ pc = "probe"
    /\ mounts' = {}
    /\ Goto("find")
    /\ UNCHANGED <<opt, hooks, dm, connected, work, disk, runs>>

EnterChroot(s) == pc' = "mount" /\ stage' = s /\ todo' = ChrootMounts /\ UNCHANGED outcome

Found ==
    /\ pc = "find" /\ todo = <<>> /\ disk.root # None
    /\ IF NewBoot THEN Goto("extract") ELSE EnterChroot("update")
    /\ UNCHANGED <<opt, hooks, mounts, dm, connected, work, disk, runs>>

(* [2] extract_boot_part_from_rootfs: boot.img gets the contents of /boot,  *)
(* which are then deleted from the root filesystem.                         *)
ExtractMount ==
    /\ pc = "extract"
    /\ Hook(<<"wboot", "rootfs">>) /\ mounts' = {"wboot", "rootfs"}
    /\ files' = [files EXCEPT !.boot = <<[kernel |-> disk.root[1].kernel, meta |-> None]>>]
    /\ Goto("delete")
    /\ UNCHANGED <<opt, dm, connected, workdir, disk, runs>>

ExtractDelete ==
    /\ pc = "delete" /\ ~disk.root[1].ro
    /\ disk' = [disk EXCEPT !.root[1].kernel = FALSE]
    /\ mounts' = {}
    /\ EnterChroot("update")
    /\ UNCHANGED <<opt, hooks, dm, connected, work, runs>>

-----------------------------------------------------------------------------
(* run_in_chroot_mounts: the root filesystem of the chroot is the partition *)
(* while it is updated, and rootfs.img for the initrd. resolv.conf is moved *)
(* away and an empty file bind-mounted over; cleanup moves a regular file   *)
(* back.                                                                    *)
Chroot == IF stage = "update" THEN disk.root[1] ELSE files.root[1]
SetChroot(root) ==
    IF stage = "update" THEN disk' = [disk EXCEPT !.root = <<root>>] /\ UNCHANGED files
    ELSE files' = [files EXCEPT !.root = <<root>>] /\ UNCHANGED disk

MovedAway(r) == [r EXCEPT !.backup = IF r.etc = "absent" THEN @ ELSE r.etc, !.etc = "empty"]
(* Mutant: the backup is left where it is.                                  *)
Restored_Never(r) == r

Restored(r) == IF r.backup \in {"file", "empty"} THEN [r EXCEPT !.etc = r.backup, !.backup = "absent"]
               ELSE r

MountNext ==
    /\ pc = "mount" /\ (Head(todo) = "etc" => ~Chroot.ro)
    /\ Hook(<<Head(todo)>>) /\ mounts' = mounts \cup {Head(todo)}
    /\ IF Head(todo) = "etc" THEN SetChroot(MovedAway(Chroot)) ELSE UNCHANGED <<disk, files>>
    /\ todo' = Tail(todo)
    /\ pc' = IF todo' = <<>> THEN stage ELSE "mount"
    /\ UNCHANGED <<opt, stage, outcome, dm, connected, workdir, runs>>

Unmount == mounts' = {}

(* [3] update_rootfs: packages, fstab and the GRUB configuration.           *)
UpdateRootfs ==
    /\ pc = "update"
    /\ disk' = [disk EXCEPT !.root[1].updated = TRUE]
    /\ Goto("clean")
    /\ UNCHANGED <<opt, hooks, mounts, dm, connected, work, runs>>

(* [9] update_initrd: dracut puts metadata.toml into the initrd, or the     *)
(* UKI; it needs a kernel in /boot.                                         *)
KernelInBoot == IF opt.boot \/ NewBoot THEN disk.boot.kernel ELSE files.root[1].kernel

(* Mutant: a missing kernel image is not noticed.                           *)
UpdateInitrd_AnyKernel ==
    /\ pc = "initrd"
    /\ disk' = IF opt.uki THEN [disk EXCEPT !.efi = files.metadata]
               ELSE [disk EXCEPT !.boot.meta = files.metadata]
    /\ Goto("clean")
    /\ UNCHANGED <<opt, hooks, mounts, dm, connected, work, runs>>

UpdateInitrd ==
    /\ pc = "initrd" /\ KernelInBoot
    /\ disk' = IF opt.uki THEN [disk EXCEPT !.efi = files.metadata]
               ELSE [disk EXCEPT !.boot.meta = files.metadata]
    /\ Goto("clean")
    /\ UNCHANGED <<opt, hooks, mounts, dm, connected, work, runs>>

Cleanup ==
    /\ pc = "clean"
    /\ Unmount
    /\ SetChroot(Restored(Chroot))
    /\ Goto(IF stage = "update" THEN "shrink" ELSE "finish")
    /\ UNCHANGED <<opt, hooks, dm, connected, workdir, runs>>

-----------------------------------------------------------------------------
(* [4] The root filesystem is marked read-only and extracted to rootfs.img, *)
(* and the partition deleted.                                               *)
Shrink ==
    /\ pc = "shrink"
    /\ disk' = [disk EXCEPT !.root[1].ro = TRUE]
    /\ Goto("dump")
    /\ UNCHANGED <<opt, hooks, mounts, dm, connected, work, runs>>

Extract ==
    /\ pc = "dump"
    /\ files' = [files EXCEPT !.root = disk.root]
    /\ Goto("rmpart")
    /\ UNCHANGED <<opt, hooks, mounts, dm, connected, workdir, disk, runs>>

DeletePart ==
    /\ pc = "rmpart"
    /\ disk' = [disk EXCEPT !.root = None]
    /\ Goto("parts")
    /\ UNCHANGED <<opt, hooks, mounts, dm, connected, work, runs>>

(* [5], [6] The boot partition, if it is new, and the LVM partition.        *)
CreateParts ==
    /\ pc = "parts"
    /\ disk' = IF NewBoot THEN [disk EXCEPT !.boot = files.boot[1]] ELSE disk
    /\ Goto("lv")
    /\ UNCHANGED <<opt, hooks, mounts, dm, connected, work, runs>>

(* [7] The logical volume of the root filesystem, encrypted or not.         *)
CreateLv ==
    /\ pc = "lv"
    /\ Hook(<<"lv">>) /\ dm' = {"lv"}
    /\ Goto(IF opt.encrypt THEN "crypt" ELSE "copy")
    /\ UNCHANGED <<opt, mounts, connected, work, disk, runs>>

OpenCrypt ==
    /\ pc = "crypt"
    /\ Hook(<<"crypt">>) /\ dm' = dm \cup {"crypt"}
    /\ Goto("copy")
    /\ UNCHANGED <<opt, mounts, connected, work, disk, runs>>

CopyRoot ==
    /\ pc = "copy"
    /\ disk' = [disk EXCEPT !.lv = files.root]
    /\ dm' = dm \ {"crypt"}
    /\ Goto("hash")
    /\ UNCHANGED <<opt, hooks, mounts, connected, work, runs>>

(* dm_remove_all waits for ever for a logical volume that is still open.    *)
DmRemoveAll == "crypt" \notin dm /\ dm' = {}

(* [8] The hash tree of rootfs.img, its logical volume, and metadata.toml;  *)
(* rootfs.img is then made writable, for the chroot of the last step.       *)
CreateHashLv ==
    /\ pc = "hash"
    /\ Hook(<<"hash">>) /\ dm' = dm \cup {"hash"}
    /\ disk' = [disk EXCEPT !.hash = files.root]
    /\ Goto("metadata")
    /\ UNCHANGED <<opt, mounts, connected, work, runs>>

WriteMetadata ==
    /\ pc = "metadata"
    /\ DmRemoveAll
    /\ files' = [files EXCEPT !.metadata = files.root, !.root[1].ro = FALSE]
    /\ EnterChroot("initrd")
    /\ UNCHANGED <<opt, hooks, mounts, connected, workdir, disk, runs>>

(* [10], [11] and the end of the script; the exit trap runs as well.        *)
Finish ==
    /\ pc = "finish"
    /\ DmRemoveAll
    /\ connected' = FALSE
    /\ pc' = "exit" /\ outcome' = "ok"
    /\ UNCHANGED <<opt, stage, todo, hooks, mounts, work, disk, runs>>

-----------------------------------------------------------------------------
(* A command fails or the script is interrupted; proc::fatal.               *)
Fail ==
    /\ outcome = "running"
    /\ pc' = "exit" /\ outcome' = "failed"
    /\ UNCHANGED <<opt, stage, todo, hooks, mounts, dm, connected, work, disk, runs>>

(* proc::_trap_add puts a new command in front of the others. A hook does   *)
(* nothing if what it undoes is not there.                                  *)
NextHook == Last(hooks)
RestHooks == Front(hooks)

(* Mutant: the logical volume is removed before the encrypted one above it. *)
RunHook_VolumeFirst ==
    /\ pc = "exit" /\ hooks # <<>>
    /\ IF {"lv", "crypt"} \subseteq dm THEN UNCHANGED hooks ELSE hooks' = RestHooks
    /\ IF NextHook = "workdir" THEN workdir' = FALSE /\ files' = NoFiles ELSE UNCHANGED work
    /\ mounts' = mounts \ Below(NextHook)
    /\ UNCHANGED <<opt, pc, stage, todo, outcome, dm, connected, disk, runs>>

RunHook ==
    /\ pc = "exit" /\ hooks # <<>>
    /\ hooks' = RestHooks
    /\ LET h == NextHook IN
       /\ mounts' = mounts \ Below(h)
       /\ CASE h \in {"lv", "hash"} -> IF h \in dm THEN DmRemoveAll ELSE UNCHANGED dm
            [] h = "crypt" -> dm' = dm \ {"crypt"}
            [] OTHER -> UNCHANGED dm
       /\ connected' = (connected /\ h # "disconnect")
       /\ IF h = "workdir" THEN workdir' = FALSE /\ files' = NoFiles ELSE UNCHANGED work
    /\ UNCHANGED <<opt, pc, stage, todo, outcome, disk, runs>>

Exited ==
    /\ pc = "exit" /\ hooks = <<>>
    /\ Goto("over")
    /\ UNCHANGED <<opt, hooks, mounts, dm, connected, work, disk, runs>>

(* Another run: on the device as it is, or on a new copy of the image.      *)
Rerun ==
    /\ pc = "over" /\ outcome = "failed" /\ runs < MaxRuns
    /\ runs' = runs + 1
    /\ pc' = "start" /\ stage' = "update" /\ todo' = <<>> /\ outcome' = "running"
    /\ disk' = IF opt.device THEN disk ELSE OriginalDisk(disk.etc)
    /\ UNCHANGED <<opt, hooks, mounts, dm, connected, work>>

Init ==
    /\ opt \in [boot : BOOLEAN, uki : BOOLEAN, encrypt : BOOLEAN, device : BOOLEAN]
    /\ pc = "start" /\ stage = "update" /\ todo = <<>> /\ outcome = "running"
    /\ hooks = <<>> /\ mounts = {} /\ dm = {} /\ connected = FALSE
    /\ workdir = FALSE /\ files = NoFiles
    /\ \E etc \in EtcKinds : disk = OriginalDisk(etc)
    /\ runs = 1

Over == pc = "over" /\ UNCHANGED vars

Next ==
    \/ Setup \/ ProbeMount \/ ProbeUnmount \/ Found \/ ExtractMount \/ ExtractDelete
    \/ MountNext \/ UpdateRootfs \/ UpdateInitrd \/ Cleanup
    \/ Shrink \/ Extract \/ DeletePart \/ CreateParts \/ CreateLv \/ OpenCrypt \/ CopyRoot
    \/ CreateHashLv \/ WriteMetadata \/ Finish
    \/ Fail \/ RunHook \/ Exited \/ Rerun \/ Over

Spec == Init /\ [][Next]_vars
(* The hooks of the trap run one after the other.                           *)
FairSpec == Spec /\ WF_vars(RunHook) /\ WF_vars(Exited)

-----------------------------------------------------------------------------
(* The work directory is never deleted under a mount, and the image never   *)
(* disconnected under a mount or a device-mapper device, wherever the       *)
(* script fails.                                                            *)
SafeTeardown ==
    /\ ~workdir => mounts = {}
    /\ ~connected /\ ~opt.device => mounts = {} /\ dm = {}

(* After the exit trap nothing is left mounted, mapped or connected.        *)
NothingLeft == pc = "over" => mounts = {} /\ dm = {} /\ ~connected /\ ~workdir

(* A disk that is reported ready boots: the hash tree and the root hash in  *)
(* the initrd or the UKI are of the root filesystem in the logical volume,  *)
(* which has the guest packages, and there is a kernel.                     *)
Bootable ==
    outcome = "ok" =>
      /\ disk.lv # None /\ disk.lv[1].updated /\ disk.hash = disk.lv
      /\ (IF opt.uki THEN disk.efi ELSE disk.boot.meta) = disk.lv
      /\ opt.uki \/ disk.boot.kernel

(* A first conversion that succeeds leaves the etc/resolv.conf and          *)
(* etc/hosts that the disk had, if they were regular files: those moved     *)
(* away for the chroot are moved back after each of its uses.               *)
EtcRestored ==
    outcome = "ok" /\ runs = 1 /\ disk.etc = "file" => disk.lv[1].etc = disk.etc

(* The exit trap ends: no hook waits for a device that a later one frees.   *)
TrapEnds == pc = "exit" ~> pc = "over"
=============================================================================
