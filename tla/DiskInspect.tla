---------------------------- MODULE DiskInspect -----------------------------
(***************************************************************************)
(* The commands of cryptpilot-fde that look into a disk (show-reference-   *)
(* value, config dump): an image behind an NBD device, a block device, or  *)
(* the disk the system runs from. They find its EFI and boot partitions by *)
(* mounting candidates one after the other, read the boot artifacts (this  *)
(* step, and what the commands print, is in ReferenceValues), and undo     *)
(* everything in the order of Rust's destructors.                          *)
(*                                                                         *)
(* A disk is [parts, table, saved, env, opts, loader, menu, bootEnv,       *)
(* bootCfg, files, fde]. A partition is [number, role, mounts, efi,        *)
(* vmlinuz, label, uki, dirs]: `role` is what the disk uses it for; the    *)
(* rest is what the commands look at. `files` are in the directory /boot,  *)
(* and so are grubenv and grub.cfg unless bootEnv and bootCfg say "none"   *)
(* or "link" (relative). `fde` are the initrds with a configuration.       *)
(***************************************************************************)
EXTENDS NbdDevice, Integers, Sequences

CONSTANT Requests   \* what the commands may be asked: command -> [kind, disk]

(* The partitions of a disk are a sequence.                                 *)
ASSUME InspectAssumption ==
    \A req \in Requests : \A c \in Commands : Len(req[c].disk.parts) \in Nat

VARIABLES
    st,         \* command -> its progress
    erased,     \* commands that deleted files of the disk they looked into
    leaks       \* commands whose umount or qemu-nbd --disconnect failed

vars == <<nbd, st, erased, leaks>>
cleanup == <<erased, leaks>>

NoPart == 0
NoResult == [ok |-> FALSE]
Attached(c) == pc[c] \in {"use", "direct"}
At(c, l) == Attached(c) /\ st[c].at = l
Disk(c) == st[c].disk
Parts(c) == Disk(c).parts
Fault(c, b) == st[c].faulty \/ b

InspectInit ==
    /\ NbdInit /\ erased = {} /\ leaks = {}
    /\ \E req \in Requests :
         st = [c \in Commands |->
                 [kind |-> req[c].kind, disk |-> req[c].disk, at |-> "begin",
                  todo |-> <<>>, efi |-> NoPart, boot |-> NoPart, type |-> "none",
                  held |-> <<>>, faulty |-> FALSE, result |-> NoResult]]

(* The connection of an image; other disks are used as they are.            *)
Connecting(c) ==
    /\ st[c].kind = "image"
    /\ GetAvailable(c) \/ InstallRule(c) \/ Connect(c) \/ RemoveHolders(c)
    /\ UNCHANGED <<st, cleanup>>

OpenBlock(c) ==
    /\ pc[c] = "start" /\ st[c].kind # "image"
    /\ Goto(c, "direct")
    /\ UNCHANGED <<number, rule, device, kills, st, cleanup>>

-----------------------------------------------------------------------------
(* Temporary mounts *)

(* Mutant: the partition is mounted for writing.                            *)
Writable_Yes == TRUE

(* Every TmpMountPoint::mount of the commands is read-only.                 *)
Writable == FALSE

(* TmpMountPoint::drop unmounts; if that fails, the removal of the          *)
(* temporary directory goes into the file system that is still mounted.     *)
Unmount(c) ==
    \/ UNCHANGED cleanup
    \/ leaks' = leaks \cup {c} /\ erased' = IF Writable THEN erased \cup {c} ELSE erased

ListParts(c) ==
    /\ At(c, "begin") /\ st[c].kind # "current"
    /\ st' = [st EXCEPT ![c].at = "efi", ![c].todo = [i \in 1 .. Len(Parts(c)) |-> i]]
    /\ UNCHANGED <<nbd, cleanup>>

(* A candidate that cannot be mounted is passed over, whatever the reason.  *)
ProbeMount(c) ==
    /\ Attached(c) /\ st[c].at \in {"efi", "boot"} /\ st[c].todo # <<>>
    /\ \/ /\ Parts(c)[Head(st[c].todo)].mounts
          /\ st' = [st EXCEPT ![c].at = IF @ = "efi" THEN "efi?" ELSE "boot?",
                              ![c].held = <<Head(st[c].todo)>> \o @]
       \/ st' = [st EXCEPT ![c].todo = Tail(@),
                           ![c].faulty = Fault(c, Parts(c)[Head(st[c].todo)].mounts)]
    /\ UNCHANGED <<nbd, cleanup>>

(* What detect_efi_part and detect_boot_part look for on a candidate.       *)
LooksLikeEfi(p) == p.efi /\ p.vmlinuz # "files"
LooksLikeBoot(p) == p.vmlinuz # "none"

(* A candidate is looked into and unmounted; an error while reading it      *)
(* counts as "no".                                                          *)
ProbeEfi(c) ==
    /\ At(c, "efi?")
    /\ LET p == Head(st[c].todo) IN
       \/ /\ LooksLikeEfi(Parts(c)[p])
          /\ st' = [st EXCEPT ![c].at = "mountEfi", ![c].efi = p, ![c].held = Tail(@)]
       \/ st' = [st EXCEPT ![c].at = "efi", ![c].todo = Tail(@), ![c].held = Tail(@),
                           ![c].faulty = Fault(c, LooksLikeEfi(Parts(c)[p]))]
    /\ Unmount(c)
    /\ UNCHANGED nbd

ProbeBoot(c) ==
    /\ At(c, "boot?")
    /\ LET p == Head(st[c].todo) IN
       \/ /\ LooksLikeBoot(Parts(c)[p])
          /\ st' = [st EXCEPT ![c].at = "mountBoot", ![c].boot = p, ![c].type = "Grub",
                              ![c].held = Tail(@)]
       \/ st' = [st EXCEPT ![c].at = "boot", ![c].todo = Tail(@), ![c].held = Tail(@),
                           ![c].faulty = Fault(c, LooksLikeBoot(Parts(c)[p]))]
    /\ Unmount(c)
    /\ UNCHANGED nbd

-----------------------------------------------------------------------------
(* new_from_disk *)

(* lsblk fails, no EFI partition is found, or one that was chosen cannot be *)
(* mounted: the function returns an error.                                  *)
GiveUp(c) ==
    /\ Attached(c) /\ st[c].at \in {"begin", "efi", "mountEfi", "mountBoot"}
    /\ st[c].kind # "current" /\ (st[c].at = "efi" => st[c].todo = <<>>)
    /\ st' = [st EXCEPT ![c].at = "undo"]
    /\ UNCHANGED <<nbd, cleanup>>

(* Whether BOOTX64.EFI of an EFI partition is a UKI.                        *)
assume_uki_image(p) == p.uki = "uki"

Labelled(c, role) ==
    {p \in 1 .. Len(Parts(c)) : Parts(c)[p].label /\ Parts(c)[p].role = role}

MountEfi(c) ==
    /\ At(c, "mountEfi")
    /\ st' = [st EXCEPT ![c].held = <<st[c].efi>>, ![c].at = "type"]
    /\ UNCHANGED <<nbd, cleanup>>

(* A UKI, or else the partition with the label "boot" (blkid), or else a    *)
(* search. A read, a blkid or an lsblk that fails counts as "not there".    *)
ChooseType(c) ==
    /\ At(c, "type")
    /\ LET uki == assume_uki_image(Parts(c)[st[c].efi])
       IN \/ /\ uki
             /\ st' = [st EXCEPT ![c].type = "Uki", ![c].at = "extract"]
          \/ \E p \in Labelled(c, "boot") :
                st' = [st EXCEPT ![c].type = "Grub", ![c].boot = p, ![c].at = "mountBoot",
                                 ![c].faulty = Fault(c, uki)]
          \/ \E todo \in {<<>>, [i \in 1 .. Len(Parts(c)) |-> i]} :
                st' = [st EXCEPT ![c].at = "boot", ![c].todo = todo, ![c].faulty = Fault(c, uki)]
    /\ UNCHANGED <<nbd, cleanup>>

(* No boot partition: detect_root_part, by its label.                       *)
ChooseRoot(c) ==
    /\ At(c, "boot") /\ st[c].todo = <<>>
    /\ \/ \E p \in Labelled(c, "root") :
             st' = [st EXCEPT ![c].type = "NoFde", ![c].boot = p, ![c].at = "mountBoot"]
       \/ st' = [st EXCEPT ![c].at = "undo"]
    /\ UNCHANGED <<nbd, cleanup>>

(* The fields of ExternalDiskType are dropped in the order of declaration.  *)
MountBoot(c) ==
    /\ At(c, "mountBoot")
    /\ st' = [st EXCEPT ![c].at = "extract",
                        ![c].held = IF st[c].type = "Grub" THEN <<st[c].boot>> \o @
                                    ELSE @ \o <<st[c].boot>>]
    /\ UNCHANGED <<nbd, cleanup>>

(* OnCurrentSystemFdeDisk::new: the mount points of the running system. A   *)
(* UKI that cannot be read or a /boot that findmnt does not find counts as  *)
(* "not there"; without / the command fails.                                *)
FindCurrent(c) ==
    /\ At(c, "begin") /\ st[c].kind = "current"
    /\ LET Role(r) == {p \in 1 .. Len(Parts(c)) : Parts(c)[p].role = r}
           uki == \E e \in Role("efi") : assume_uki_image(Parts(c)[e])
       IN \E e \in Role("efi") :
            \/ uki /\ st' = [st EXCEPT ![c].type = "Uki", ![c].efi = e, ![c].at = "extract"]
            \/ \E p \in Role("boot") :
                  st' = [st EXCEPT ![c].type = "Grub", ![c].efi = e, ![c].boot = p,
                                   ![c].at = "extract", ![c].faulty = uki]
            \/ \E p \in Role("root") :
                  st' = [st EXCEPT ![c].type = "NoFde", ![c].efi = e, ![c].boot = p,
                                   ![c].at = "extract", ![c].faulty = uki \/ Role("boot") # {}]
            \/ st' = [st EXCEPT ![c].at = "undo"]
    /\ UNCHANGED <<nbd, cleanup>>

-----------------------------------------------------------------------------
(* The end *)

(* An error in new_from_disk drops its local variables: the mounts, then    *)
(* the device.                                                              *)
Undo(c) ==
    /\ At(c, "undo")
    /\ IF st[c].held = <<>> THEN st' = [st EXCEPT ![c].at = "drop"] /\ UNCHANGED cleanup
       ELSE st' = [st EXCEPT ![c].held = Tail(@)] /\ Unmount(c)
    /\ UNCHANGED nbd

(* The device is the first field of OnExternalFdeDisk, and is disconnected  *)
(* before the mounts below it go.                                           *)
DropFirst(c) ==
    /\ At(c, "drop") \/ pc[c] = "droprule"
    /\ IF pc[c] = "direct" THEN Goto(c, "end") /\ UNCHANGED <<number, rule, device, kills>>
       ELSE DropDevice(c, st[c].held # <<>>) \/ DropRule(c)
    /\ leaks' = IF pc[c] = "use" /\ owner'[number[c]] = c THEN leaks \cup {c} ELSE leaks
    /\ UNCHANGED <<st, erased>>

(* The last mount that goes frees the device.                               *)
DropMounts(c) ==
    /\ pc[c] = "end" /\ st[c].at = "drop" /\ st[c].held # <<>>
    /\ st' = [st EXCEPT ![c].held = Tail(@)]
    /\ Unmount(c)
    /\ owner' = [n \in Numbers |-> IF /\ n = number[c] /\ owner[n] = Closing
                                      /\ Len(st[c].held) = 1 /\ c \notin leaks'
                                   THEN None ELSE owner[n]]
    /\ UNCHANGED <<pc, number, rule, holders, kills>>

KilledHere(c) ==
    /\ Killed(c)
    /\ st' = [st EXCEPT ![c].at = "killed"]
    /\ UNCHANGED cleanup

UdevStep(n) == UdevActs(n) /\ UNCHANGED <<st, cleanup>>

Returned(c) ==
    /\ pc[c] \in {"failed", "end"}
    /\ st[c].at = "drop" => st[c].held = <<>>

AllReturned == (\A c \in Commands : Returned(c)) /\ UNCHANGED vars

-----------------------------------------------------------------------------
(* Properties *)

(* When every command has returned, none was killed, and every umount and   *)
(* disconnect succeeded, nothing is left: the udev rule that the commands   *)
(* share is gone, whichever step of connect failed, and every device is     *)
(* free again although it is disconnected before its mounts go.             *)
EverythingReleased ==
    (\A c \in Commands : Returned(c)) /\ kills = 0 /\ leaks = {}
        => ~ruleFile /\ \A n \in Numbers : owner[n] \in {None, Orphan}

(* No command deletes files of the disk it looks into: the temporary        *)
(* directory is removed even if the partition is still mounted there.       *)
DiskIntact == erased = {}

=============================================================================
