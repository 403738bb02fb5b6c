--------------------------- MODULE ConvertImages ----------------------------
(***************************************************************************)
(* Conversions of disk images that share a machine                         *)
(* (cryptpilot-convert.sh, steps 1 and 11): each one finds a free NBD      *)
(* device, makes a work file beside its input, connects it, writes to the  *)
(* device, disconnects it and converts the work file to the output. Work   *)
(* files are found by path and devices by number; a work file that was     *)
(* deleted lives on while it is connected. What the steps in between write *)
(* is reduced to who wrote, see ConvertDisk.                               *)
(***************************************************************************)
EXTENDS Naturals, Sequences, FiniteSets

CONSTANTS
    Runs,           \* the conversions
    Inputs,         \* their input files
    Devices,        \* NBD devices: 0 .. Devices - 1
    InputOf,        \* conversion -> its input
    OneAtATime,     \* a conversion starts only when the others have ended
    Writes,         \* bound: writes that make up a conversion
    MaxKills        \* bound: conversions that are killed

VARIABLES
    pc, number,
    path,           \* input -> the work file beside it
    data,           \* work file -> the conversions that wrote to it, in order
    device,         \* NBD device -> the work file that is connected
    written,        \* conversion -> its writes so far
    output,         \* conversion -> what its output holds
    kills

vars == <<pc, number, path, data, device, written, output, kills>>

Numbers == 0 .. Devices - 1
NoFile == 0
Files == 1 .. Cardinality(Runs)     \* a conversion makes at most one new file
NewFile(files) == CHOOSE n \in files : \A k \in files : n <= k

ASSUME ConvertImagesAssumption ==
    /\ InputOf \in [Runs -> Inputs] /\ Devices \in Nat
    /\ OneAtATime \in BOOLEAN /\ Writes \in Nat \ {0} /\ MaxKills \in Nat

Goto(r, l) == pc' = [pc EXCEPT ![r] = l]
Idle == {n \in Numbers : device[n] = NoFile}
Unused == Files \ DOMAIN data
Work(r) == path[InputOf[r]]
Locked(file) == \E n \in Numbers : device[n] = file
Ended(r) == pc[r] \in {"new", "done", "failed"}

(* get_available_nbd                                                        *)
GetDevice(r) ==
    /\ pc[r] = "new"
    /\ OneAtATime => \A other \in Runs : Ended(other)
    /\ IF Idle = {} THEN Goto(r, "failed") /\ UNCHANGED number
       ELSE /\ number' = [number EXCEPT ![r] = NewFile(Idle)]
            /\ Goto(r, "check")
    /\ UNCHANGED <<path, data, device, written, output, kills>>

(* A work file that is there already is tried with flock, which fails for   *)
(* want of a command to run, and a failure is taken to mean that nobody     *)
(* uses the file: it is deleted.                                            *)
CheckWorkFile(r) ==
    /\ pc[r] = "check"
    /\ path' = [path EXCEPT ![InputOf[r]] = NoFile]
    /\ Goto(r, "create")
    /\ UNCHANGED <<number, data, device, written, output, kills>>

(* qemu-img create; a file that appeared meanwhile is overwritten, by       *)
(* qemu-img or, if it is locked, by cp.                                     *)
CreateWorkFile(r) ==
    /\ pc[r] = "create"
    /\ LET file == IF Work(r) = NoFile THEN NewFile(Unused) ELSE Work(r) IN
       /\ path' = [path EXCEPT ![InputOf[r]] = file]
       /\ data' = [f \in DOMAIN data \cup {file} |-> IF f = file THEN <<>> ELSE data[f]]
    /\ Goto(r, "connect")
    /\ UNCHANGED <<number, device, written, output, kills>>

(* The hook that disconnects the device is registered before the connection *)
(* is tried, and runs when it fails.                                        *)
Connect(r) ==
    /\ pc[r] = "connect"
    /\ IF device[number[r]] = NoFile /\ Work(r) # NoFile /\ ~Locked(Work(r))
       THEN device' = [device EXCEPT ![number[r]] = Work(r)] /\ Goto(r, "write")
       ELSE Goto(r, "exit") /\ UNCHANGED device
    /\ UNCHANGED <<number, path, data, written, output, kills>>

(* A step of the conversion writes to the device, whatever is connected.    *)
Write(r) ==
    /\ pc[r] = "write" /\ device[number[r]] # NoFile /\ written[r] < Writes
    /\ data' = [data EXCEPT ![device[number[r]]] = Append(@, r)]
    /\ written' = [written EXCEPT ![r] = @ + 1]
    /\ UNCHANGED <<pc, number, path, device, output, kills>>

Disconnect(r) ==
    /\ pc[r] = "write" /\ written[r] = Writes
    /\ device' = [device EXCEPT ![number[r]] = NoFile]
    /\ Goto(r, "convert")
    /\ UNCHANGED <<number, path, data, written, output, kills>>

(* qemu-img convert reads the work file at the path; then the exit trap.    *)
MakeOutput(r) ==
    /\ pc[r] = "convert"
    /\ IF Work(r) # NoFile /\ ~Locked(Work(r))
       THEN output' = [output EXCEPT ![r] = data[Work(r)]] /\ Goto(r, "ready")
       ELSE Goto(r, "exit") /\ UNCHANGED output
    /\ UNCHANGED <<number, path, data, device, written, kills>>

(* Mutant: the script goes on after a command that failed.                  *)
Fail_Continues(r) ==
    /\ pc[r] = "write"
    /\ Goto(r, "convert")
    /\ device' = [device EXCEPT ![number[r]] = NoFile]
    /\ UNCHANGED <<number, path, data, written, output, kills>>

(* A command fails: the device is gone, or for another reason.              *)
Fail(r) ==
    /\ pc[r] \in {"create", "connect", "write", "convert"}
    /\ Goto(r, IF pc[r] \in {"write", "convert"} THEN "exit" ELSE "failed")
    /\ path' = IF pc[r] = "connect" THEN [path EXCEPT ![InputOf[r]] = NoFile] ELSE path
    /\ UNCHANGED <<number, data, device, written, output, kills>>

(* The exit trap disconnects the device and deletes the work file.          *)
ExitTrap(r) ==
    /\ pc[r] \in {"exit", "ready"}
    /\ device' = [device EXCEPT ![number[r]] = NoFile]
    /\ path' = [path EXCEPT ![InputOf[r]] = NoFile]
    /\ Goto(r, IF pc[r] = "ready" THEN "done" ELSE "failed")
    /\ UNCHANGED <<number, data, written, output, kills>>

(* A conversion is killed: the work file stays, and stays connected.        *)
Kill(r) ==
    /\ ~Ended(r) /\ kills < MaxKills
    /\ kills' = kills + 1
    /\ Goto(r, "failed")
    /\ UNCHANGED <<number, path, data, device, written, output>>

Init ==
    /\ pc = [r \in Runs |-> "new"] /\ number = [r \in Runs |-> Devices]
    /\ path = [i \in Inputs |-> NoFile] /\ data = <<>>
    /\ device = [n \in Numbers |-> NoFile] /\ written = [r \in Runs |-> 0]
    /\ output = [r \in Runs |-> <<>>]
    /\ kills = 0

Over == (\A r \in Runs : pc[r] \in {"done", "failed"}) /\ UNCHANGED vars

Next ==
    \/ \E r \in Runs :
         \/ GetDevice(r) \/ CheckWorkFile(r) \/ CreateWorkFile(r) \/ Connect(r)
         \/ Write(r) \/ Disconnect(r) \/ MakeOutput(r) \/ Fail(r) \/ ExitTrap(r) \/ Kill(r)
    \/ Over

Spec == Init /\ [][Next]_vars

-----------------------------------------------------------------------------
(* An output that is reported ready holds all of this conversion's writes   *)
(* and nobody else's.                                                       *)
OutputIsOwn ==
    \A r \in Runs : pc[r] \in {"ready", "done"} => output[r] = [k \in 1 .. Writes |-> r]

=============================================================================
