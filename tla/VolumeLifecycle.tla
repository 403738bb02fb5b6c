-------------------------- MODULE VolumeLifecycle --------------------------
(***************************************************************************)
(* Encrypted data volumes as the cryptpilot-crypt commands drive them:     *)
(* init, open, close and the boot service that opens the auto_open         *)
(* volumes, over the LUKS2 header on each volume's device, the data behind *)
(* it and the kernel's device-mapper table.                                *)
(*                                                                         *)
(* A command is a process that works through its list of volumes. Each of  *)
(* its steps is one call that touches the disk, the mapper or the key      *)
(* provider, so commands interleave at those calls, fail at any of them,   *)
(* are killed between any two, and the machine can restart at any time.    *)
(* cryptpilot takes no lock of its own: Serial says whether the operator   *)
(* runs one command at a time.                                             *)
(***************************************************************************)
EXTENDS Naturals, Sequences

CONSTANTS
    Procs,          \* cryptpilot-crypt processes
    Volumes,        \* configured volumes, each on a device of its own
    Temporary,      \* volumes whose key provider is otp
    MakeFs,         \* volumes with makefs set
    AutoOpen,       \* the volumes with auto_open = true, in config order
    Args,           \* volume lists an operator gives on the command line
    Serial,         \* TRUE: a command starts only when no other one runs
    MaxFormats      \* bound on the number of LUKS2 formats

ASSUME VolumesAssumption ==
    /\ Temporary \subseteq Volumes
    /\ MakeFs \subseteq Volumes
    /\ AutoOpen \in Seq(Volumes)
    /\ Args \subseteq Seq(Volumes) \ {<<>>}
    /\ Serial \in BOOLEAN
    /\ MaxFormats \in Nat

VARIABLES
    hdr,        \* hdr[v]: LUKS2 header on the device
    payload,    \* payload[v]: what is behind the header, and under which key
    mapping,    \* mapping[v]: volume key of /dev/mapper/<volume>, or NoVk
    temp,       \* temp[v]: volume key of a TempLuksVolume on v's device, or NoVk
    nextVk,     \* volume keys generated so far
    pc,         \* pc[p]: the call process p makes next
    todo,       \* todo[p]: volumes left on p's list, the current one first
    job,        \* job[p]: command and options
    usable      \* usable[v]: an open of v returned Ok for the current mapping

disk == <<hdr, payload, nextVk>>
mapper == <<mapping, temp>>
vars == <<hdr, payload, mapping, temp, nextVk, pc, todo, job, usable>>

NoVk == 0
VolumeKeys == 0 .. MaxFormats
Persistent == Volumes \ Temporary

(* Passphrases: the persistent providers return the same one every time,   *)
(* otp a fresh random one that only the process that drew it knows.        *)
Passphrase(p, v) == IF v \in Temporary THEN <<"otp", p>> ELSE <<"provider">>
Passphrases == { <<"otp", p>> : p \in Procs } \cup { <<"provider">> }

InitStates == {"None", "Initializing", "Ready"}
Headers == [state : InitStates, vk : VolumeKeys, slots : SUBSET Passphrases]

(* What a read through a mapping finds: nothing recognisable, a mkfs that  *)
(* has not finished, the configured file system, the same with user data   *)
(* in it, or something else that the user put there.                       *)
Contents == {"junk", "partial", "fs", "user", "other"}
Finished == {"fs", "user", "other"}

PCs == {"idle", "begin", "confirm", "in_use", "is_initialized", "get_key",
        "format", "activate", "mkfs", "mkfs_runs", "drop",
        "unwind", "mark", "check_fs", "close"}

NoJob == [cmd |-> "none", force |-> FALSE, check |-> FALSE]
Jobs == [cmd : {"none", "init", "open", "close", "auto_open"},
         force : BOOLEAN, check : BOOLEAN]

(* Headers, key slots, payloads and mappings have their types, and a       *)
(* running command has a volume to work on.                                *)
TypeOK ==
    /\ hdr \in [Volumes -> Headers]
    /\ payload \in [Volumes -> [vk : VolumeKeys, content : Contents]]
    /\ mapping \in [Volumes -> VolumeKeys]
    /\ temp \in [Volumes -> VolumeKeys]
    /\ nextVk \in VolumeKeys
    /\ pc \in [Procs -> PCs]
    /\ todo \in [Procs -> Seq(Volumes)]
    /\ \A p \in Procs : pc[p] # "idle" => todo[p] # <<>>
    /\ job \in [Procs -> Jobs]
    /\ usable \in [Volumes -> BOOLEAN]

Init ==
    /\ hdr = [v \in Volumes |-> [state |-> "None", vk |-> NoVk, slots |-> {}]]
    /\ payload = [v \in Volumes |-> [vk |-> NoVk, content |-> "junk"]]
    /\ mapping = [v \in Volumes |-> NoVk]
    /\ temp = [v \in Volumes |-> NoVk]
    /\ nextVk = 0
    /\ pc = [p \in Procs |-> "idle"]
    /\ todo = [p \in Procs |-> <<>>]
    /\ job = [p \in Procs |-> NoJob]
    /\ usable = [v \in Volumes |-> FALSE]

-----------------------------------------------------------------------------
(* Reads of the header, the mapper and the data. *)

Vol(p) == Head(todo[p])
Opening(p) == job[p].cmd \in {"open", "auto_open"}

is_active(v) == mapping[v] # NoVk

(* Mutant: a device held by a TempLuksVolume counts as free. *)
is_dev_in_use_ByName(v) == mapping[v] # NoVk

(* open(O_EXCL) is refused while a device-mapper table holds the device. *)
is_dev_in_use(v) == mapping[v] # NoVk \/ temp[v] # NoVk

get_init_state(v) == hdr[v].state

determine_status(v) ==
    IF is_active(v) THEN "Opened"
    ELSE IF v \in Temporary THEN "ReadyToOpen"
    ELSE CASE get_init_state(v) = "Ready" -> "ReadyToOpen"
           [] get_init_state(v) = "Initializing" -> "Initializing"
           [] get_init_state(v) = "None" -> "RequiresInit"

(* Data written under another volume key decrypts to noise. *)
Visible(v, vk) == IF payload[v].vk = vk THEN payload[v].content ELSE "junk"

-----------------------------------------------------------------------------
(* Control: how a command goes on to its next call, volume, or return. *)

Goto(p, l) ==
    /\ pc' = [pc EXCEPT ![p] = l]
    /\ UNCHANGED <<todo, job>>

Exit(p) ==
    /\ pc' = [pc EXCEPT ![p] = "idle"]
    /\ todo' = [todo EXCEPT ![p] = <<>>]
    /\ job' = [job EXCEPT ![p] = NoJob]

(* Mutant: the loop goes on after the last volume. *)
NextVolume_NoEnd(p) ==
    /\ pc' = [pc EXCEPT ![p] = "begin"]
    /\ todo' = [todo EXCEPT ![p] = Tail(@)]
    /\ UNCHANGED job

NextVolume(p) ==
    IF Tail(todo[p]) = <<>> THEN Exit(p)
    ELSE /\ pc' = [pc EXCEPT ![p] = "begin"]
         /\ todo' = [todo EXCEPT ![p] = Tail(@)]
         /\ UNCHANGED job

(* Mutant: the boot service ends at the first error, like the commands. *)
Fail_Exits(p) == Exit(p)

(* `?` ends the command at the first volume that fails; the boot service   *)
(* logs the error and goes on.                                             *)
Fail(p) == IF job[p].cmd = "auto_open" THEN NextVolume(p) ELSE Exit(p)

OpenOk(p) ==
    /\ NextVolume(p)
    /\ usable' = [usable EXCEPT ![Vol(p)] = is_active(Vol(p))]

Start(p, j, vs) ==
    /\ pc[p] = "idle"
    /\ Serial => \A q \in Procs : pc[q] = "idle"
    /\ vs # <<>>
    /\ pc' = [pc EXCEPT ![p] = "begin"]
    /\ todo' = [todo EXCEPT ![p] = vs]
    /\ job' = [job EXCEPT ![p] = j]
    /\ UNCHANGED <<disk, mapper, usable>>

InitCommand(p) == \E vs \in Args, f \in BOOLEAN :
    Start(p, [cmd |-> "init", force |-> f, check |-> FALSE], vs)

OpenCommand(p) == \E vs \in Args, c \in BOOLEAN :
    Start(p, [cmd |-> "open", force |-> FALSE, check |-> c], vs)

CloseCommand(p) == \E vs \in Args :
    Start(p, [cmd |-> "close", force |-> FALSE, check |-> FALSE], vs)

BootService(p) ==
    Start(p, [cmd |-> "auto_open", force |-> FALSE, check |-> FALSE], AutoOpen)

-----------------------------------------------------------------------------
(* persistent_disk_init up to the format. *)

(* Mutant: a Ready volume is initialised again without --force-reinit. *)
InitMayProceed_Unforced(p) == determine_status(Vol(p)) # "Opened"

InitMayProceed(p) ==
    LET s == determine_status(Vol(p))
    IN  \/ s \in {"RequiresInit", "Initializing"}
        \/ s = "ReadyToOpen" /\ job[p].force

InitStatus(p) ==
    /\ pc[p] = "begin" /\ job[p].cmd = "init"
    /\ CASE Vol(p) \in Temporary -> NextVolume(p)
         [] Vol(p) \in Persistent /\ InitMayProceed(p) -> Goto(p, "confirm")
         [] OTHER -> Fail(p)
    /\ UNCHANGED <<disk, mapper, usable>>

(* --yes, or the operator answers the prompt, after any length of time. *)
Confirm(p) ==
    /\ pc[p] = "confirm"
    /\ Goto(p, "in_use")
    /\ UNCHANGED <<disk, mapper, usable>>

(* open_for_specific_volume up to the device check. *)
OpenBegin(p) ==
    /\ pc[p] = "begin" /\ Opening(p)
    /\ IF is_active(Vol(p))
       THEN OpenOk(p)
       ELSE Goto(p, "in_use") /\ UNCHANGED usable
    /\ UNCHANGED <<disk, mapper>>

CheckInUse(p) ==
    /\ pc[p] = "in_use"
    /\ IF is_dev_in_use(Vol(p)) THEN Fail(p)
       ELSE Goto(p, IF Opening(p) /\ Vol(p) \in Persistent
                    THEN "is_initialized" ELSE "get_key")
    /\ UNCHANGED <<disk, mapper, usable>>

(* Mutant: open takes a volume that is still initialising. *)
IsInitialized_AnyHeader(p) ==
    /\ pc[p] = "is_initialized"
    /\ IF get_init_state(Vol(p)) # "None" THEN Goto(p, "get_key") ELSE Fail(p)
    /\ UNCHANGED <<disk, mapper, usable>>

IsInitialized(p) ==
    /\ pc[p] = "is_initialized"
    /\ IF get_init_state(Vol(p)) = "Ready" THEN Goto(p, "get_key") ELSE Fail(p)
    /\ UNCHANGED <<disk, mapper, usable>>

(* Mutant: an otp volume that says Ready is opened as it is. *)
GetKey_ReusesReady(p) ==
    /\ pc[p] = "get_key"
    /\ Goto(p, IF Opening(p) /\ get_init_state(Vol(p)) = "Ready" THEN "activate" ELSE "format")
    /\ UNCHANGED <<disk, mapper, usable>>

GetKey(p) ==
    /\ pc[p] = "get_key"
    /\ Goto(p, IF Opening(p) /\ Vol(p) \in Persistent THEN "activate" ELSE "format")
    /\ UNCHANGED <<disk, mapper, usable>>

-----------------------------------------------------------------------------
(* luks2::format writes the header with a fresh volume key, then its key   *)
(* slot. libcryptsetup opens the device exclusively to write a new header. *)
(* It may stop half-way through the header, which leaves none, or between  *)
(* the two writes, which leaves a header that no passphrase opens.         *)
NewHeader(s, keys) == [state |-> s, vk |-> nextVk + 1, slots |-> keys]

Format(p) ==
    /\ pc[p] = "format"
    /\ ~is_dev_in_use(Vol(p))
    /\ nextVk < MaxFormats
    /\ nextVk' = nextVk + 1
    /\ \/ /\ hdr' = [hdr EXCEPT ![Vol(p)] =
                      NewHeader("Initializing", {Passphrase(p, Vol(p))})]
          /\ Goto(p, IF Opening(p) \/ Vol(p) \in MakeFs THEN "activate" ELSE "mark")
       \/ /\ hdr' = [hdr EXCEPT ![Vol(p)] = NewHeader("Initializing", {})]
          /\ Fail(p)
       \/ /\ hdr' = [hdr EXCEPT ![Vol(p)] = NewHeader("None", {})]
          /\ Fail(p)
    /\ UNCHANGED <<payload, mapper, usable>>

(* open_with_check_passphrase: under the volume's name for open, under a   *)
(* random name for the TempLuksVolume of init.                             *)
Activate(p) ==
    /\ pc[p] = "activate"
    /\ ~is_dev_in_use(Vol(p))
    /\ Passphrase(p, Vol(p)) \in hdr[Vol(p)].slots
    /\ LET v == Vol(p)
       IN  IF Opening(p)
           THEN /\ mapping' = [mapping EXCEPT ![v] = hdr[v].vk]
                /\ Goto(p, IF v \in Persistent THEN "check_fs"
                           ELSE IF v \in MakeFs THEN "mkfs" ELSE "mark")
                /\ UNCHANGED temp
           ELSE /\ temp' = [temp EXCEPT ![v] = hdr[v].vk]
                /\ Goto(p, "mkfs")
                /\ UNCHANGED mapping
    /\ UNCHANGED <<disk, usable>>

-----------------------------------------------------------------------------
(* force_mkfs, on the mapping or on the TempLuksVolume. A device-mapper    *)
(* table that mkfs holds open cannot be removed.                           *)

MkfsTarget(p) == IF Opening(p) THEN mapping[Vol(p)] ELSE temp[Vol(p)]

MkfsStart(p) ==
    /\ pc[p] = "mkfs"
    /\ MkfsTarget(p) # NoVk
    /\ payload' = [payload EXCEPT ![Vol(p)] =
                     [vk |-> MkfsTarget(p), content |-> "partial"]]
    /\ Goto(p, "mkfs_runs")
    /\ UNCHANGED <<hdr, nextVk, mapper, usable>>

MkfsEnd(p) ==
    /\ pc[p] = "mkfs_runs"
    /\ payload' = [payload EXCEPT ![Vol(p)].content = "fs"]
    /\ Goto(p, IF Opening(p) THEN "mark" ELSE "drop")
    /\ UNCHANGED <<hdr, nextVk, mapper, usable>>

(* Mutant: the result of mkfs is not looked at. *)
MkfsFails_Ignored(p) ==
    /\ pc[p] \in {"mkfs", "mkfs_runs"}
    /\ Goto(p, IF Opening(p) THEN "mark" ELSE "drop")
    /\ UNCHANGED <<disk, mapper, usable>>

(* The error path closes the volume it opened, then returns the error. *)
MkfsFails(p) ==
    /\ pc[p] \in {"mkfs", "mkfs_runs"}
    /\ Goto(p, "unwind")
    /\ UNCHANGED <<disk, mapper, usable>>

Busy(v) == \E q \in Procs : pc[q] = "mkfs_runs" /\ Vol(q) = v

(* Deactivating may fail; whether the caller looks at that differs. *)
RemoveMapping(v) ==
    /\ ~Busy(v)
    /\ mapping' = [mapping EXCEPT ![v] = NoVk]
    /\ usable' = [usable EXCEPT ![v] = FALSE]
    /\ UNCHANGED temp

RemoveTemp(v) ==
    /\ temp' = [temp EXCEPT ![v] = NoVk]
    /\ UNCHANGED <<mapping, usable>>

Unwind(p) ==
    /\ pc[p] = "unwind"
    /\ \/ IF Opening(p) THEN RemoveMapping(Vol(p)) ELSE RemoveTemp(Vol(p))
       \/ UNCHANGED <<mapper, usable>>
    /\ Fail(p)
    /\ UNCHANGED disk

(* TempLuksVolume::drop ignores the result of close. *)
DropTemp(p) ==
    /\ pc[p] = "drop"
    /\ RemoveTemp(Vol(p)) \/ UNCHANGED <<mapper, usable>>
    /\ Goto(p, "mark")
    /\ UNCHANGED disk

(* Only the subsystem field changes, in whatever LUKS2 header is there. *)
Mark(p) ==
    /\ pc[p] = "mark"
    /\ hdr[Vol(p)].state # "None"
    /\ hdr' = [hdr EXCEPT ![Vol(p)].state = "Ready"]
    /\ IF Opening(p) THEN Goto(p, "check_fs") ELSE NextVolume(p)
    /\ UNCHANGED <<payload, nextVk, mapper, usable>>

-----------------------------------------------------------------------------
(* The end of open_for_specific_volume. *)

(* Results of has_valuable_data: "true", "false" or an error. *)
has_valuable_data(v) ==
    CASE Visible(v, mapping[v]) = "junk" -> {"false"}
      [] Visible(v, mapping[v]) = "partial" -> {"true", "false", "error"}
      [] Visible(v, mapping[v]) = "other" -> {"error"}
      [] OTHER -> {"true"}

CheckFs(p) ==
    /\ pc[p] = "check_fs"
    /\ IF ~(job[p].check /\ Vol(p) \in MakeFs)
       THEN OpenOk(p) /\ UNCHANGED mapper
       ELSE \/ "true" \in has_valuable_data(Vol(p)) /\ OpenOk(p) /\ UNCHANGED mapper
            \/ /\ "error" \in has_valuable_data(Vol(p))
               /\ Fail(p)
               /\ UNCHANGED <<mapper, usable>>
            \/ /\ "false" \in has_valuable_data(Vol(p))
               /\ RemoveMapping(Vol(p)) \/ UNCHANGED <<mapper, usable>>
               /\ Fail(p)
    /\ UNCHANGED disk

CloseBegin(p) ==
    /\ pc[p] = "begin" /\ job[p].cmd = "close"
    /\ IF is_active(Vol(p)) THEN Goto(p, "close") ELSE NextVolume(p)
    /\ UNCHANGED <<disk, mapper, usable>>

Close(p) ==
    /\ pc[p] = "close"
    /\ is_active(Vol(p))
    /\ RemoveMapping(Vol(p))
    /\ NextVolume(p)
    /\ UNCHANGED disk

(* Every other call may return an error, and the command bails. *)
CallFails(p) ==
    /\ \/ pc[p] \in {"confirm", "in_use", "get_key", "format", "activate",
                     "mark", "close"}
       \/ pc[p] = "check_fs" /\ job[p].check /\ Vol(p) \in MakeFs
       \/ pc[p] = "begin" /\ job[p].cmd = "init" /\ Vol(p) \in Persistent
    /\ Fail(p)
    /\ UNCHANGED <<disk, mapper, usable>>

-----------------------------------------------------------------------------
(* The environment. *)

Kill(p) ==
    /\ pc[p] # "idle"
    /\ Exit(p)
    /\ UNCHANGED <<disk, mapper, usable>>

Reboot ==
    /\ pc' = [p \in Procs |-> "idle"]
    /\ mapping' = [v \in Volumes |-> NoVk]
    /\ temp' = [v \in Volumes |-> NoVk]
    /\ usable' = [v \in Volumes |-> FALSE]
    /\ todo' = [p \in Procs |-> <<>>]
    /\ job' = [p \in Procs |-> NoJob]
    /\ UNCHANGED disk

(* The user fills the file system, or puts something else in its place. *)
UserWrites(v) ==
    /\ usable[v]
    /\ \E c \in {"user", "other"} :
          payload' = [payload EXCEPT ![v] = [vk |-> mapping[v], content |-> c]]
    /\ UNCHANGED <<hdr, nextVk, mapper, pc, todo, job, usable>>

Step(p) ==
    \/ InitStatus(p) \/ Confirm(p) \/ OpenBegin(p) \/ CheckInUse(p)
    \/ IsInitialized(p) \/ GetKey(p) \/ Format(p) \/ Activate(p)
    \/ MkfsStart(p) \/ MkfsEnd(p) \/ MkfsFails(p) \/ Unwind(p) \/ DropTemp(p)
    \/ Mark(p) \/ CheckFs(p) \/ CloseBegin(p) \/ Close(p) \/ CallFails(p)

StartCommand(p) ==
    InitCommand(p) \/ OpenCommand(p) \/ CloseCommand(p) \/ BootService(p)

Next ==
    \/ \E p \in Procs : StartCommand(p) \/ Step(p) \/ Kill(p)
    \/ \E v \in Volumes : UserWrites(v)
    \/ Reboot

Spec == Init /\ [][Next]_vars

-----------------------------------------------------------------------------
(* Everything the header promises is there, under its own volume key. *)
Complete(v) ==
    /\ hdr[v].slots # {}
    /\ v \in MakeFs => payload[v].vk = hdr[v].vk /\ payload[v].content \in Finished

(* A persistent volume that says "Ready" has a key slot and, with makefs,  *)
(* a file system that mkfs finished: an init that fails, is killed or      *)
(* loses power half-way never leaves a volume that open would take.        *)
ReadyIsComplete ==
    \A v \in Persistent : hdr[v].state = "Ready" => Complete(v)

(* A mapping is backed by the header that is on the device: format never   *)
(* replaces the header of a device that is mapped, under the volume's own  *)
(* name or as a TempLuksVolume, and a device is not mapped twice.          *)
MappedHeaderStays ==
    \A v \in Volumes :
        /\ is_active(v) => mapping[v] = hdr[v].vk /\ temp[v] = NoVk
        /\ temp[v] # NoVk => temp[v] = hdr[v].vk

Recoverable(v) ==
    /\ hdr[v].state = "Ready"
    /\ hdr[v].slots # {}
    /\ payload[v] = [vk |-> hdr[v].vk, content |-> "user"]

(* User data on an initialised persistent volume is lost only when the     *)
(* user overwrites it or an init that was given --force-reinit formats the *)
(* device.                                                                 *)
DataLostOnlyByForce ==
    [][\A v \in Persistent : Recoverable(v) /\ ~Recoverable(v)' =>
          \/ UserWrites(v)
          \/ \E p \in Procs : pc[p] = "format" /\ Vol(p) = v /\ job[p].force]_vars

(* An otp volume never comes up with data of an earlier life: whenever its *)
(* mapping appears, what is behind it is noise under the new volume key.   *)
TemporaryStartsEmpty ==
    [][\A v \in Temporary : mapping[v] = NoVk /\ mapping'[v] # NoVk =>
          Visible(v, mapping'[v]) = "junk"]_vars

(* The boot service works through its whole list whatever happens to one   *)
(* volume: unless it is killed it returns after the last one.              *)
BootServiceTriesAll ==
    [][\A p \in Procs : job[p].cmd = "auto_open" /\ Step(p) /\ pc'[p] = "idle" =>
          Tail(todo[p]) = <<>>]_vars

(* The three-state contract of the persistent volumes. *)
Contract == INSTANCE VolumeContract WITH
    Volumes <- Persistent,
    phase <- [v \in Persistent |-> hdr[v].state],
    built <- [v \in Persistent |-> Complete(v)],
    exposed <- [v \in Persistent |-> is_active(v)]

(* The commands, run one at a time, implement the contract. *)
ImplementsContract == Contract!Spec
=============================================================================
