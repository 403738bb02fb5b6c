--------------------------- MODULE IntegrityMkfs ----------------------------
(***************************************************************************)
(* mkfs on a volume with integrity that is not wiped: the filesystem is    *)
(* made on a dummy loop device while blktrace records what it touches, and *)
(* the touched pages are copied to the real device, whose other pages must *)
(* not be read before they are written.                                    *)
(*                                                                         *)
(* The kernel's page cache, its per-CPU relay channels, the reader task of *)
(* each CPU, the bounded channel they send to and the collecting task are  *)
(* separate processes.                                                     *)
(***************************************************************************)
EXTENDS Naturals, Sequences, FiniteSets

CONSTANTS
    Cpus,
    LoopDevices,        \* loop devices of the machine: 0 .. LoopDevices - 1
    PageSectors,        \* sectors in a page
    DeviceSectors,      \* size of the device
    RelayCapacity,      \* events a relay channel holds
    ChannelCapacity,    \* events the channel of the tasks holds
    Ops,                \* what mkfs may do: [kind, sector, sectors]
    MaxOps,             \* bounds: operations of mkfs, attempts to get a loop device
    MaxAttempts

VARIABLES
    pc,             \* force_mkfs
    attempts,       \* of the loop device retry
    loop,           \* loop device -> "free", "ours" or "other"
    ld,             \* the loop device in use
    count,          \* operations of mkfs so far
    dummy,          \* sector -> the operation that wrote it last
    touched,        \* pages that mkfs read or wrote
    dirty,          \* events of the page cache that did not reach the device
    relay,          \* CPU -> events in its relay channel
    dropped,
    cancelled,      \* the cancellation token
    reader,         \* CPU -> its task
    channel, events,
    positions,      \* pages still to be copied
    real            \* page -> contents of the real device

setup == <<attempts, loop, ld>>
disk == <<count, dummy, touched>>
kernel == <<dirty, relay, dropped>>
tasks == <<cancelled, reader, channel, events>>
vars == <<pc, setup, disk, kernel, tasks, positions, real>>

(* An operation of mkfs on the device is of at least one sector.            *)
ASSUME IntegrityMkfsAssumption ==
    /\ Ops \subseteq [kind : {"read", "write", "discard"}, sector : Nat, sectors : Nat \ {0}]
    /\ PageSectors \in Nat \ {0} /\ DeviceSectors \in Nat \ {0}
    /\ RelayCapacity \in Nat \ {0} /\ ChannelCapacity \in Nat \ {0}
    /\ MaxOps \in Nat /\ MaxAttempts \in Nat

Sectors == 0 .. DeviceSectors - 1
DivCeil(a, b) == (a + b - 1) \div b
PageCount == DivCeil(DeviceSectors, PageSectors)
Pages == 0 .. PageCount - 1
Unwritten == [n \in 1 .. PageSectors |-> 99]
Reading == [pc |-> "read", held |-> <<>>]
NoDevice == LoopDevices

(* The sectors of a page and of an operation, and the pages that the code   *)
(* works out for the range [bytes_start, bytes_end) of an event.            *)
SectorsOf(page) == page * PageSectors .. (page + 1) * PageSectors - 1
SectorRange(op) == op.sector .. op.sector + op.sectors - 1
PagesOf(op) == op.sector \div PageSectors .. DivCeil(op.sector + op.sectors, PageSectors) - 1

-----------------------------------------------------------------------------
(* DummyDevice::setup: ask for a free loop device and attach to it; another *)
(* process may take it in between, and setting the block size may fail.     *)
(* Each failure is one attempt of the retry policy; a device attached by a  *)
(* failing attempt stays attached. Dropping the DummyDevice detaches it.    *)

Free == {n \in DOMAIN loop : loop[n] = "free"}

Retry ==
    /\ attempts' = attempts + 1
    /\ pc' = IF attempts < MaxAttempts THEN "setup" ELSE "failed"
    /\ ld' = NoDevice

NextFree ==
    /\ pc = "setup"
    /\ \/ /\ \E n \in Free : (\A k \in Free : n <= k) /\ ld' = n
          /\ pc' = "attach" /\ UNCHANGED attempts
       \/ Free = {} /\ Retry
    /\ UNCHANGED <<loop, disk, kernel, tasks, positions, real>>

(* Mutant: the error of a device that was taken meanwhile is ignored.       *)
Attach_Unchecked ==
    /\ pc = "attach"
    /\ loop' = [loop EXCEPT ![ld] = IF @ = "free" THEN "ours" ELSE @]
    /\ pc' = "blocksize"
    /\ UNCHANGED <<ld, attempts, disk, kernel, tasks, positions, real>>

Attach ==
    /\ pc = "attach"
    /\ IF loop[ld] = "free"
       THEN /\ loop' = [loop EXCEPT ![ld] = "ours"]
            /\ pc' = "blocksize"
            /\ UNCHANGED <<ld, attempts>>
       ELSE Retry /\ UNCHANGED loop
    /\ UNCHANGED <<disk, kernel, tasks, positions, real>>

SetBlockSize ==
    /\ pc = "blocksize"
    /\ \/ pc' = "monitor" /\ UNCHANGED <<ld, attempts>>
       \/ Retry
    /\ UNCHANGED <<loop, disk, kernel, tasks, positions, real>>

(* Another process attaches or detaches a loop device.                      *)
OtherProcess ==
    /\ \E n \in DOMAIN loop :
         /\ loop[n] # "ours"
         /\ loop' = [loop EXCEPT ![n] = IF @ = "free" THEN "other" ELSE "free"]
    /\ pc \in {"setup", "attach"}
    /\ UNCHANGED <<pc, attempts, ld, disk, kernel, tasks, positions, real>>

-----------------------------------------------------------------------------
(* BlkTrace::monitor starts the trace and one reader per CPU. mkfs and      *)
(* blkid then run: a write goes to the page cache, a read that the cache    *)
(* does not hold and a discard go to the device.                            *)

Monitor ==
    /\ pc = "monitor"
    /\ reader' = [c \in Cpus |-> Reading]
    /\ pc' = "mkfs"
    /\ UNCHANGED <<setup, disk, kernel, cancelled, channel, events, positions, real>>

Emit(event, cpu) ==
    IF Len(relay[cpu]) < RelayCapacity
    THEN relay' = [relay EXCEPT ![cpu] = Append(@, event)] /\ UNCHANGED dropped
    ELSE dropped' = dropped + 1 /\ UNCHANGED relay

Operation(op) ==
    /\ pc = "mkfs" /\ count < MaxOps
    /\ count' = count + 1
    /\ dummy' = [s \in Sectors |->
                    IF s \in SectorRange(op) /\ op.kind # "read"
                    THEN IF op.kind = "write" THEN count + 1 ELSE 0
                    ELSE dummy[s]]
    /\ touched' = IF op.kind = "discard" THEN touched
                  ELSE touched \cup {p \in Pages : SectorsOf(p) \cap SectorRange(op) # {}}
    /\ IF op.kind = "write" THEN dirty' = dirty \cup {op} /\ UNCHANGED <<relay, dropped>>
       ELSE (\E cpu \in Cpus : Emit(op, cpu)) /\ UNCHANGED dirty
    /\ UNCHANGED <<pc, setup, tasks, positions, real>>

Writeback ==
    /\ \E op \in dirty :
         /\ dirty' = dirty \ {op}
         /\ \E cpu \in Cpus : Emit(op, cpu)
    /\ UNCHANGED <<pc, setup, disk, tasks, positions, real>>

Detach == loop' = [loop EXCEPT ![ld] = "free"]

MkfsEnds ==
    /\ pc = "mkfs"
    /\ \/ pc' = "flush" /\ UNCHANGED loop
       \/ pc' = "failed" /\ Detach
    /\ UNCHANGED <<attempts, ld, disk, kernel, tasks, positions, real>>

-----------------------------------------------------------------------------
(* The reader of a CPU: at the end of the relay channel it waits and tries  *)
(* again, and stops only if the trace was cancelled and there is still      *)
(* nothing to read.                                                         *)

ReadEvent(c) ==
    /\ reader[c].pc \in {"read", "again"} /\ relay[c] # <<>>
    /\ reader' = [reader EXCEPT ![c] = [pc |-> "send", held |-> <<Head(relay[c])>>]]
    /\ relay' = [relay EXCEPT ![c] = Tail(@)]
    /\ UNCHANGED <<pc, setup, disk, dirty, dropped, cancelled, channel, events, positions, real>>

(* Mutant: the end of the relay channel is taken for the end of the trace.  *)
ReadEof_Stops(c) ==
    /\ relay[c] = <<>> /\ reader[c].pc = "read"
    /\ reader' = [reader EXCEPT ![c].pc = "done"]
    /\ UNCHANGED <<pc, setup, disk, kernel, cancelled, channel, events, positions, real>>
(* Mutant: the reader waits for more whether it is cancelled or not.        *)
ReadEof_Waits(c) ==
    /\ relay[c] = <<>> /\ reader[c].pc = "read" /\ cancelled
    /\ UNCHANGED vars

ReadEof(c) ==
    /\ relay[c] = <<>>
    /\ \/ /\ reader[c].pc = "read" /\ cancelled
          /\ reader' = [reader EXCEPT ![c].pc = "again"]
       \/ /\ reader[c].pc = "again"
          /\ reader' = [reader EXCEPT ![c].pc = "done"]
    /\ UNCHANGED <<pc, setup, disk, kernel, cancelled, channel, events, positions, real>>

SendEvent(c) ==
    /\ reader[c].pc = "send" /\ Len(channel) < ChannelCapacity
    /\ channel' = channel \o reader[c].held
    /\ reader' = [reader EXCEPT ![c] = Reading]
    /\ UNCHANGED <<pc, setup, disk, kernel, cancelled, events, positions, real>>

Collect ==
    /\ channel # <<>>
    /\ events' = events \cup {Head(channel)}
    /\ channel' = Tail(channel)
    /\ UNCHANGED <<pc, setup, disk, kernel, cancelled, reader, positions, real>>

-----------------------------------------------------------------------------
(* shutdown: flush the buffers of the device, wait, cancel, and join the    *)
(* collector, which ends when every reader has dropped its sender.          *)

FlushBuffers ==
    /\ pc = "flush" /\ dirty = {}
    /\ pc' = "cancel"
    /\ UNCHANGED <<setup, disk, kernel, tasks, positions, real>>

Cancel ==
    /\ pc = "cancel"
    /\ cancelled' = TRUE
    /\ pc' = "join"
    /\ UNCHANGED <<setup, disk, kernel, reader, channel, events, positions, real>>

(* Mutant: discards are copied like writes.                                 *)
Recorded_Discards == UNION {PagesOf(e) : e \in events}
Recorded == UNION {PagesOf(e) : e \in {e \in events : e.kind # "discard"}}

Join ==
    /\ pc = "join"
    /\ channel = <<>> /\ \A c \in Cpus : reader[c].pc = "done"
    /\ positions' = Recorded
    /\ pc' = "migrate"
    /\ UNCHANGED <<setup, disk, kernel, tasks, real>>

(* The pages are read whole: the last one is shorter when the size of the   *)
(* device is not a multiple of the page size, and read_exact fails.         *)
Whole(page) == SectorsOf(page) \subseteq Sectors
PageContents(page) == [n \in 1 .. PageSectors |-> dummy[page * PageSectors + n - 1]]

Migrate(page) ==
    /\ pc = "migrate" /\ page \in positions
    /\ IF Whole(page)
       THEN /\ real' = [real EXCEPT ![page] = PageContents(page)]
            /\ positions' = positions \ {page}
            /\ UNCHANGED <<pc, loop>>
       ELSE pc' = "failed" /\ Detach /\ UNCHANGED <<real, positions>>
    /\ UNCHANGED <<attempts, ld, disk, kernel, tasks>>

(* force_mkfs returns.                                                      *)
Done ==
    /\ pc = "migrate" /\ positions = {}
    /\ pc' = "ok"
    /\ Detach
    /\ UNCHANGED <<attempts, ld, disk, kernel, tasks, positions, real>>

Init ==
    /\ pc = "setup" /\ attempts = 0 /\ ld = NoDevice
    /\ loop = [n \in 0 .. LoopDevices - 1 |-> "free"]
    /\ count = 0 /\ dummy = [s \in Sectors |-> 0] /\ touched = {}
    /\ dirty = {} /\ relay = [c \in Cpus |-> <<>>] /\ dropped = 0
    /\ cancelled = FALSE /\ reader = [c \in Cpus |-> [pc |-> "off", held |-> <<>>]]
    /\ channel = <<>> /\ events = {}
    /\ positions = {} /\ real = [p \in Pages |-> Unwritten]

Stopped == pc \in {"ok", "failed"} /\ UNCHANGED vars

Next ==
    \/ NextFree \/ Attach \/ SetBlockSize \/ OtherProcess
    \/ Monitor \/ (\E op \in Ops : Operation(op)) \/ Writeback \/ MkfsEnds
    \/ \E c \in Cpus : ReadEvent(c) \/ ReadEof(c) \/ SendEvent(c)
    \/ Collect \/ FlushBuffers \/ Cancel \/ Join
    \/ (\E page \in positions : Migrate(page)) \/ Done
    \/ Stopped

Spec == Init /\ [][Next]_vars

(* Tasks of the tokio runtime run on, mkfs ends, and the kernel writes the  *)
(* buffers back that it is told to flush.                                   *)
FairSpec ==
    /\ Spec
    /\ WF_vars(Monitor) /\ WF_vars(MkfsEnds) /\ WF_vars(Writeback)
    /\ \A c \in Cpus : WF_vars(ReadEvent(c)) /\ WF_vars(ReadEof(c)) /\ WF_vars(SendEvent(c))
    /\ WF_vars(Collect) /\ WF_vars(FlushBuffers) /\ WF_vars(Cancel) /\ WF_vars(Join)
    /\ WF_vars(\E page \in positions : Migrate(page)) /\ WF_vars(Done)

-----------------------------------------------------------------------------
(* From the attach to the end, the device that mkfs writes to is a loop     *)
(* device that this process attached (the retry of DummyDevice::setup).     *)
OwnLoopDevice ==
    pc \in {"blocksize", "monitor", "mkfs", "flush", "cancel", "join", "migrate"} => loop[ld] = "ours"

(* When force_mkfs succeeds, every page that mkfs read or wrote has on the  *)
(* real device the contents it has on the dummy one (blktrace records, and  *)
(* migration copies, all the positions touched).                            *)
ReplayComplete ==
    pc = "ok" => \A p \in touched : Whole(p) /\ real[p] = PageContents(p)

(* Nothing but touched pages is ever written to the real device: the volume *)
(* is not wiped.                                                            *)
OnlyTouched == \A p \in Pages \ touched : real[p] = Unwritten

(* Once mkfs runs, force_mkfs returns: the readers see the cancellation,    *)
(* the full channel drains and the collector joins them all.                *)
MkfsReturns == pc = "mkfs" ~> pc \in {"ok", "failed"}
=============================================================================
