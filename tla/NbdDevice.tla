----------------------------- MODULE NbdDevice ------------------------------
(***************************************************************************)
(* Disk images connected as NBD devices by commands that run side by side: *)
(* the scan for a device, the udev rule file that all commands share, the  *)
(* connection, the device-mapper devices that udevd puts on a connected    *)
(* disk, and what is undone when the value is dropped or a step fails.     *)
(* What a command does with the device is in DiskInspect.                  *)
(***************************************************************************)
EXTENDS Naturals, FiniteSets

CONSTANTS
    Commands,       \* processes of cryptpilot-fde that open a disk image
    Devices,        \* /dev/nbd0 .. /dev/nbd(Devices - 1)
    Udev,           \* udevadm is installed
    MaxKills        \* bound: commands that are killed

VARIABLES
    pc,             \* command -> where it is
    number,         \* command -> the device number it found
    ruleFile,       \* the rule file is in /run/udev/rules.d
    ruleLoaded,     \* the rules in udevd's memory hold it
    owner,          \* device -> the command whose image it serves, or None,
                    \* Orphan (a stranger's, or its command was killed), Closing
                    \* (disconnected but still mounted: the kernel keeps its size)
    holders,        \* devices with device-mapper devices on them
    kills

nbd == <<pc, number, ruleFile, ruleLoaded, owner, holders, kills>>
rule == <<ruleFile, ruleLoaded>>
device == <<owner, holders>>

Numbers == 0 .. Devices - 1
None == "none"
Orphan == "orphan"
Closing == "closing"

ASSUME NbdAssumption == Devices \in Nat /\ MaxKills \in Nat /\ Udev \in BOOLEAN
                        /\ {None, Orphan, Closing} \cap Commands = {}

Idle == {n \in Numbers : owner[n] = None}
Goto(c, l) == pc' = [pc EXCEPT ![c] = l]

(* get_avaliable: the first device whose size is zero.                      *)
GetAvailable(c) ==
    /\ pc[c] = "start"
    /\ IF Idle = {} THEN Goto(c, "failed") /\ UNCHANGED number
       ELSE /\ \E n \in Idle : (\A k \in Idle : n <= k) /\ number' = [number EXCEPT ![c] = n]
            /\ Goto(c, "install")
    /\ UNCHANGED <<rule, device, kills>>

(* UdevRule::install_ignore_nbd_rule: the reload may fail, which is a       *)
(* warning. Without udevadm nothing is installed. A rule that cannot be     *)
(* written ends the command (a file left empty is no rule).                 *)
InstallRule(c) ==
    /\ pc[c] = "install"
    /\ \/ /\ IF Udev THEN ruleFile' = TRUE /\ ruleLoaded' \in {ruleLoaded, TRUE}
             ELSE UNCHANGED rule
          /\ Goto(c, "connect")
       \/ Udev /\ UNCHANGED rule /\ Goto(c, "failed")
    /\ UNCHANGED <<number, device, kills>>

(* Mutant: a failed connection is undone like a successful one.             *)
Connect_Disconnects(c) ==
    /\ pc[c] = "connect"
    /\ \/ /\ owner[number[c]] = None
          /\ owner' = [owner EXCEPT ![number[c]] = c]
          /\ Goto(c, "settle")
       \/ Goto(c, "droprule") /\ owner' = [owner EXCEPT ![number[c]] = None]
    /\ UNCHANGED <<number, rule, holders, kills>>
(* Mutant: a failed connection leaves the rule behind.                      *)
Connect_LeavesRule(c) ==
    /\ pc[c] = "connect"
    /\ \/ /\ owner[number[c]] = None
          /\ owner' = [owner EXCEPT ![number[c]] = c]
          /\ Goto(c, "settle")
       \/ Goto(c, "end") /\ UNCHANGED owner
    /\ UNCHANGED <<number, rule, holders, kills>>

(* qemu-nbd --connect fails on a device that another command connected      *)
(* since the scan, or for a reason of its own; the rule is then dropped.    *)
Connect(c) ==
    /\ pc[c] = "connect"
    /\ \/ /\ owner[number[c]] = None
          /\ owner' = [owner EXCEPT ![number[c]] = c]
          /\ Goto(c, "settle")
       \/ Goto(c, "droprule") /\ UNCHANGED owner
    /\ UNCHANGED <<number, rule, holders, kills>>

(* udevd, without the rule, puts device-mapper devices on a new disk.       *)
UdevActs(n) ==
    /\ Udev /\ owner[n] \in Commands /\ ~ruleLoaded
    /\ holders' = holders \cup {n}
    /\ UNCHANGED <<pc, number, rule, owner, kills>>

(* remove_holder_dm_devices after the wait; a failure is a warning.         *)
RemoveHolders(c) ==
    /\ pc[c] = "settle"
    /\ holders' \in {holders, holders \ {number[c]}}
    /\ Goto(c, "use")
    /\ UNCHANGED <<number, rule, owner, kills>>

(* NbdDevice::drop: disconnect, which may fail, remove the holders, and     *)
(* then drop the rule, the last field.                                      *)
DropDevice(c, mounted) ==
    /\ pc[c] = "use"
    /\ owner' \in {owner, [owner EXCEPT ![number[c]] = IF mounted THEN Closing ELSE None]}
    /\ holders' \in {holders, holders \ {number[c]}}
    /\ Goto(c, "droprule")
    /\ UNCHANGED <<number, rule, kills>>

(* UdevRule::drop removes the file whoever wrote it, and udevd reloads.     *)
DropRule(c) ==
    /\ pc[c] = "droprule"
    /\ IF Udev THEN ruleFile' = FALSE /\ ruleLoaded' \in {ruleLoaded, FALSE} ELSE UNCHANGED rule
    /\ Goto(c, "end")
    /\ UNCHANGED <<number, device, kills>>

(* A command that is killed runs no destructor; qemu-nbd goes on.           *)
Killed(c) ==
    /\ pc[c] \notin {"start", "failed", "end"} /\ kills < MaxKills
    /\ kills' = kills + 1
    /\ owner' = [n \in Numbers |-> IF owner[n] = c THEN Orphan ELSE owner[n]]
    /\ Goto(c, "end")
    /\ UNCHANGED <<number, rule, holders>>

(* Some devices may serve somebody else.                                    *)
NbdInit ==
    /\ pc = [c \in Commands |-> "start"] /\ number = [c \in Commands |-> Devices]
    /\ ruleFile = FALSE /\ ruleLoaded = FALSE
    /\ owner \in [Numbers -> {None, Orphan}] /\ holders = {} /\ kills = 0

-----------------------------------------------------------------------------
(* From its connection until it drops it, a command's device serves that    *)
(* command's image: commands that found the same device number, and the     *)
(* cleanup of those that failed to connect, never take it away.             *)
KeepsDevice == \A c \in Commands : pc[c] \in {"settle", "use"} => owner[number[c]] = c

=============================================================================
