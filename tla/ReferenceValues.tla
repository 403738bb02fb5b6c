-------------------------- MODULE ReferenceValues ---------------------------
(***************************************************************************)
(* show-reference-value and config dump as a whole: what they read from    *)
(* the partitions that DiskInspect finds and mounts, the artifacts of GRUB *)
(* or of a UKI, and the values they print.                                 *)
(***************************************************************************)
EXTENDS DiskInspect, GrubConfig

-----------------------------------------------------------------------------
(* extract_boot_artifacts *)

(* The partition that holds the directory /boot of a disk.                  *)
BootPart(d) ==
    LET Role(r) == {p \in 1 .. Len(d.parts) : d.parts[p].role = r}
    IN IF Role("boot") # {} THEN Min(Role("boot"))
       ELSE IF Role("root") # {} THEN Min(Role("root")) ELSE NoPart

(* resolve_path_on_real_disk: whether the partition that was chosen holds   *)
(* what the disk has at /boot.                                              *)
BootVisible(c) ==
    \/ st[c].kind = "current"
    \/ st[c].boot = BootPart(Disk(c))
       /\ st[c].type = IF Parts(c)[st[c].boot].role = "boot" THEN "Grub" ELSE "NoFde"

(* A relative link does not lead to its target when its text is joined to   *)
(* its own path; the running system follows it.                             *)
Readable(c, how) == BootVisible(c) /\ (how = "file" \/ (how = "link" /\ st[c].kind = "current"))
load_global_grub_env_file(c) == Readable(c, Disk(c).bootEnv)
load_global_grub_cfg_file(c) == Readable(c, Disk(c).bootCfg)

(* load_grub_artifacts over the files that the walks came across: the       *)
(* directories with GRUB and a shim in them.                                *)
load_grub_artifacts(dirs) ==
    {d \in DOMAIN dirs : {"grubx64.efi", "shimx64.efi"} \subseteq dirs[d]}

(* The entry that load_kernel_artifacts takes, for any order of the         *)
(* variables; none if it is not found.                                      *)
FoundEntries(c) ==
    LET d == Disk(c)
        vars_ == parse_grub_env_vars(d.env, d.opts)
        files == {e \in d.loader : BootVisible(c) /\ d.saved = <<e.id>>}
    IN IF d.saved = <<>> THEN {}
       ELSE IF files # {}
       THEN {load_from_loader_entry_file(e, vars_, o) : e \in files, o \in SetToSeqs(DOMAIN vars_)}
       ELSE IF \E i \in DOMAIN d.menu : Last(d.saved) \in d.menu[i].names
       THEN {load_from_grub_cfg(d.menu, Last(d.saved))} ELSE {}

(* load_kernel_artifacts: relative paths go below /boot, a path elsewhere   *)
(* is refused; the partition number and the type of the table name the      *)
(* device.                                                                  *)
load_kernel_artifacts(c) ==
    LET n == Parts(c)[st[c].boot].number
        parent == get_disk_root_device(n)
        known == parent = 0 \/ \E p \in 1 .. Len(Parts(c)) : Parts(c)[p].number = parent
    IN {[kernel |-> e.kernel, initrd |-> e.initrd, cmdline |-> e.cmdline,
         dev |-> <<detect_disk_partition_type(n, Disk(c).table), n>>] :
           e \in {f \in FoundEntries(c) : /\ known /\ f.form # "abs" /\ BootVisible(c)
                                          /\ {f.kernel, f.initrd} \subseteq Disk(c).files}}

(* extract_boot_artifacts_grub: an item per GRUB directory, with grubenv    *)
(* and grub.cfg from /boot or else from the directory.                      *)
GrubItems(c, dirs) ==
    LET usable == {d \in load_grub_artifacts(dirs) :
                     /\ load_global_grub_env_file(c) \/ "grubenv" \in dirs[d]
                     /\ load_global_grub_cfg_file(c) \/ "grub.cfg" \in dirs[d]}
        items == [usable -> load_kernel_artifacts(c)]
    IN IF usable = {} THEN {} ELSE {{[at |-> <<st[c].efi, d>>] @@ f[d] : d \in usable} : f \in items}

(* WalkDir ends at the first error: the rest of a directory is not seen.    *)
Seen(dirs) ==
    {f \in [DOMAIN dirs -> SUBSET UNION {dirs[d] : d \in DOMAIN dirs}] :
       \A d \in DOMAIN dirs : f[d] \subseteq dirs[d]}

(* inseart_reference_value: the digests of what is measured, which tell     *)
(* apart what they are made of. Two forms of the command line: with the     *)
(* path below /boot, and with the device.                                   *)
inseart_reference_value(items) ==
    [kernel_cmdline |-> {[dev |-> <<>>, path |-> i.kernel, args |-> i.cmdline] : i \in items}
                        \cup {[dev |-> i.dev, path |-> i.kernel, args |-> i.cmdline] : i \in items},
     kernel |-> {i.kernel : i \in items}, initrd |-> {i.initrd : i \in items},
     grub |-> {i.at : i \in items}]
UkiReferenceValue(c) == [uki |-> {st[c].efi}]

ShowReferenceValue(c, values, cut) ==
    st' = [st EXCEPT ![c].at = "drop", ![c].faulty = Fault(c, cut),
                     ![c].result = [ok |-> TRUE, values |-> values]]

(* config dump prints the configuration in the first initrd that has one.   *)
extract_cryptpilot_files(c, initrds) == initrds \cap Disk(c).fde
ConfigDump(c, initrds) ==
    extract_cryptpilot_files(c, initrds) # {} /\ st' = [st EXCEPT ![c].at = "drop"]

Extract(c) ==
    /\ At(c, "extract")
    /\ IF st[c].type = "Uki"
       THEN ShowReferenceValue(c, UkiReferenceValue(c), FALSE) \/ ConfigDump(c, {"uki"})
       ELSE LET dirs == Parts(c)[st[c].efi].dirs IN
            \E seen \in Seen(dirs) : \E items \in GrubItems(c, seen) :
               \/ ShowReferenceValue(c, inseart_reference_value(items), seen # dirs)
               \/ ConfigDump(c, {i.initrd : i \in items})
    /\ UNCHANGED <<nbd, cleanup>>

(* A file that is missing or cannot be read, or a command that fails.       *)
ExtractFails(c) ==
    /\ At(c, "extract")
    /\ st' = [st EXCEPT ![c].at = "drop"]
    /\ UNCHANGED <<nbd, cleanup>>

-----------------------------------------------------------------------------
(* The specification *)

Next ==
    \/ \E c \in Commands :
         \/ Connecting(c) \/ OpenBlock(c) \/ ListParts(c) \/ ProbeMount(c) \/ ProbeEfi(c) \/ ProbeBoot(c)
         \/ GiveUp(c) \/ MountEfi(c) \/ ChooseType(c) \/ ChooseRoot(c) \/ MountBoot(c)
         \/ FindCurrent(c) \/ Extract(c) \/ ExtractFails(c) \/ Undo(c)
         \/ DropFirst(c) \/ DropMounts(c) \/ KilledHere(c)
    \/ \E n \in Numbers : UdevStep(n)
    \/ AllReturned

Spec == InspectInit /\ [][Next]_vars

-----------------------------------------------------------------------------
(* Properties *)

(* A GRUB that finds its configuration beside it or in /boot.               *)
Usable(c, files) ==
    /\ {"grubx64.efi", "shimx64.efi"} \subseteq files
    /\ load_global_grub_env_file(c) \/ "grubenv" \in files
    /\ load_global_grub_cfg_file(c) \/ "grub.cfg" \in files

(* The entry that the firmware and GRUB boot by default, where its name is  *)
(* that of one entry only.                                                  *)
Candidates(d) ==
    IF \E e \in d.loader : d.saved = <<e.id>> THEN {e \in d.loader : d.saved = <<e.id>>}
    ELSE {d.menu[i] : i \in {j \in DOMAIN d.menu : Last(d.saved) \in d.menu[j].names}}

BootsUki(d) == \E p \in 1 .. Len(d.parts) : d.parts[p].role = "efi" /\ d.parts[p].uki = "uki"

(* Texts that str::replace and GRUB read alike: a menu entry without        *)
(* variables; a loader entry whose variables are set where the code looks,  *)
(* no name of which begins with another, no two empty ones side by side.    *)
RegularText(d, e) ==
    LET vars_ == parse_grub_env_vars(d.env, d.opts)
        Empty(t) == IsVar(t) /\ Tail(t) \in DOMAIN vars_ /\ vars_[Tail(t)] = <<>>
    IN IF d.saved # <<e.id>> \/ e \notin d.loader
       THEN \A i \in DOMAIN e.options : ~IsVar(e.options[i])
       ELSE /\ \A i \in DOMAIN e.options : IsVar(e.options[i]) =>
                  \A n \in DOMAIN vars_ \cup {Tail(e.options[i])} :
                     IsPrefix(n, Tail(e.options[i])) => n = Tail(e.options[i]) /\ n \in DOMAIN vars_
            /\ \A i, j \in DOMAIN e.options :
                  Empty(e.options[i]) /\ Empty(e.options[j]) => j - i \notin {1, 2}

(* The reference values are those of what the disk boots, although every    *)
(* probe, mount and read may fail on the way: the kernel and the initrd of  *)
(* the default entry with the parameters that GRUB passes, the partition of *)
(* /boot in the table's notation; and, without such a failure, the UKI or   *)
(* every GRUB on the EFI partition. (A partition number of two digits is    *)
(* looked up in the wrong place, which matters for an MBR table.)           *)
RecordedBoots ==
    \A c \in Commands : st[c].result.ok =>
        LET d == Disk(c)
            v == st[c].result.values
            esp == {p \in 1 .. Len(d.parts) : d.parts[p].role = "efi"}
            n == d.parts[BootPart(d)].number
            known == (d.table = "gpt" \/ n < 10) /\ (st[c].kind = "current" => ~st[c].faulty)
        IN /\ ~st[c].faulty =>
                IF BootsUki(d) THEN v = [uki |-> esp]
                ELSE v.grub = UNION {{<<p, g>> : g \in {h \in DOMAIN d.parts[p].dirs :
                                                       Usable(c, d.parts[p].dirs[h])}} : p \in esp}
           /\ ~BootsUki(d) => \A e \in Candidates(d) : Cardinality(Candidates(d)) = 1 =>
                /\ v.kernel = {e.kernel} /\ v.initrd = {e.initrd}
                /\ RegularText(d, e) => \A l \in v.kernel_cmdline :
                      l.args = GrubExpand(e.options, GrubVars(d.env, d.opts))
                /\ known => {l.dev : l \in v.kernel_cmdline} \subseteq {<<>>, <<d.table, n>>}

=============================================================================
