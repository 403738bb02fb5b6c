----------------------- MODULE VolumeLifecycleProofs -----------------------
(***************************************************************************)
(* Machine-checked proofs about VolumeLifecycle, for any set of processes  *)
(* and volumes.                                                            *)
(***************************************************************************)
EXTENDS VolumeLifecycle, TLAPS

(* Which command can be at which call, and on which kind of volume. *)
ControlInv ==
    \A p \in Procs :
        /\ pc[p] \in {"confirm", "drop"} => job[p].cmd = "init"
        /\ pc[p] \in {"is_initialized", "check_fs"} => Opening(p)
        /\ pc[p] \notin {"idle", "begin", "close"} =>
              job[p].cmd \in {"init", "open", "auto_open"}
        /\ job[p].cmd = "init" /\ pc[p] \notin {"idle", "begin", "close"} =>
              Vol(p) \in Persistent
        /\ Opening(p) /\ pc[p] \in {"format", "mkfs", "mkfs_runs", "unwind", "mark"} =>
              Vol(p) \in Temporary
        /\ job[p].cmd = "init" /\ pc[p] \in {"activate", "mkfs", "mkfs_runs", "drop"} =>
              Vol(p) \in MakeFs

(* Volume keys are numbered in the order they are made; a volume is usable *)
(* only while it is mapped; a header has at most one key slot.             *)
KeyInv ==
    \A v \in Volumes :
        /\ hdr[v].vk <= nextVk
        /\ payload[v].vk <= nextVk
        /\ usable[v] => mapping[v] # NoVk
        /\ \A a, b \in hdr[v].slots : a = b

(* Between its own format and its own activate, an otp open finds its      *)
(* passphrase in the header only if nobody has used that header yet.       *)
OtpInv ==
    \A p \in Procs :
        /\ pc[p] = "activate"
        /\ Vol(p) \in Temporary
        /\ <<"otp", p>> \in hdr[Vol(p)].slots
        => /\ mapping[Vol(p)] = NoVk
           /\ payload[Vol(p)].vk # hdr[Vol(p)].vk

CommonInv == TypeOK /\ ControlInv /\ MappedHeaderStays /\ KeyInv /\ OtpInv

(* One command at a time. *)
AloneInv == \A p, q \in Procs : pc[p] # "idle" /\ pc[q] # "idle" => p = q

(* What a serial init and a serial open know about the volume at each call. *)
ProgressAt(p) ==
    /\ /\ job[p].cmd = "init" /\ ~job[p].force
       /\ pc[p] \in {"confirm", "in_use", "get_key", "format"}
       => hdr[Vol(p)].state # "Ready"
    /\ /\ job[p].cmd = "init"
       /\ pc[p] \in {"activate", "mkfs", "mkfs_runs", "drop", "unwind", "mark"}
       => /\ hdr[Vol(p)].state = "Initializing"
          /\ hdr[Vol(p)].slots # {}
          /\ mapping[Vol(p)] = NoVk
    /\ job[p].cmd = "init" /\ pc[p] = "mkfs_runs" =>
          payload[Vol(p)].vk = hdr[Vol(p)].vk
    /\ job[p].cmd = "init" /\ pc[p] \in {"activate", "mkfs"} => ~Complete(Vol(p))
    /\ job[p].cmd = "init" /\ pc[p] \in {"drop", "mark"} => Complete(Vol(p))
    /\ Opening(p) /\ Vol(p) \in Persistent /\ pc[p] \in {"get_key", "activate"} =>
          hdr[Vol(p)].state = "Ready"

ProgressInv == \A p \in Procs : ProgressAt(p)

SerialInv == Serial /\ CommonInv /\ AloneInv /\ ProgressInv /\ ReadyIsComplete

-----------------------------------------------------------------------------
(* The effect of a step on the control variables: p is either done with    *)
(* its volume (idle, or at the start of the next one) or at one of the     *)
(* calls in L for the same volume; the other processes do not move.        *)
ControlOK ==
    /\ pc \in [Procs -> PCs]
    /\ todo \in [Procs -> Seq(Volumes)]
    /\ \A p \in Procs : pc[p] # "idle" => todo[p] # <<>>
    /\ job \in [Procs -> Jobs]

Moves(p, L) ==
    /\ ControlOK'
    /\ \/ pc'[p] \in {"idle", "begin"}
       \/ pc'[p] \in L /\ todo'[p] = todo[p] /\ job'[p] = job[p]
    /\ \A q \in Procs \ {p} :
          pc'[q] = pc[q] /\ todo'[q] = todo[q] /\ job'[q] = job[q]

(* Going on to the next call. *)
LEMMA GotoMoves ==
    ASSUME ControlOK, NEW p \in Procs, pc[p] # "idle",
           NEW l \in PCs, Goto(p, l)
    PROVE  Moves(p, {l})
BY DEF ControlOK, Goto, Moves

(* Leaving the command. *)
LEMMA ExitMoves ==
    ASSUME ControlOK, NEW p \in Procs, Exit(p)
    PROVE  Moves(p, {})
<1>1. NoJob \in Jobs
  BY DEF NoJob, Jobs
<1>2. "idle" \in PCs
  BY DEF PCs
<1> QED
  BY <1>1, <1>2 DEF ControlOK, Exit, Moves

(* Leaving the volume, with success or with an error. *)
LEMMA NextVolumeMoves ==
    ASSUME ControlOK, NEW p \in Procs, pc[p] # "idle", NextVolume(p)
    PROVE  Moves(p, {})
<1>1. CASE Tail(todo[p]) = <<>>
  BY <1>1, ExitMoves DEF NextVolume
<1>2. CASE Tail(todo[p]) # <<>>
  <2>1. "begin" \in PCs
    BY DEF PCs
  <2>2. Tail(todo[p]) \in Seq(Volumes)
    BY DEF ControlOK
  <2> QED
    BY <1>2, <2>1, <2>2 DEF ControlOK, NextVolume, Moves
<1> QED
  BY <1>1, <1>2

(* Failing: a command exits, and the boot service goes to its next volume. *)
LEMMA FailMoves ==
    ASSUME ControlOK, NEW p \in Procs, pc[p] # "idle", Fail(p)
    PROVE  Moves(p, {})
BY ExitMoves, NextVolumeMoves DEF Fail

-----------------------------------------------------------------------------
(* Control invariants: what a step that moves one process preserves. *)

(* A running command works on a configured volume.                         *)
LEMMA VolInVolumes ==
    ASSUME ControlOK, NEW p \in Procs, pc[p] # "idle"
    PROVE  Vol(p) \in Volumes
BY DEF ControlOK, Vol

(* A move of one process keeps the control invariant, if the calls it goes *)
(* to are ones its command makes.                                          *)
LEMMA MovesControl ==
    ASSUME ControlOK, ControlInv, NEW p \in Procs, pc[p] # "idle",
           NEW L, Moves(p, L),
           \A l \in L :
              /\ l \in {"confirm", "drop"} => job[p].cmd = "init"
              /\ l \in {"is_initialized", "check_fs"} => Opening(p)
              /\ l \notin {"idle", "begin", "close"} =>
                    job[p].cmd \in {"init", "open", "auto_open"}
              /\ job[p].cmd = "init" /\ l \notin {"idle", "begin", "close"} =>
                    Vol(p) \in Persistent
              /\ Opening(p) /\ l \in {"format", "mkfs", "mkfs_runs", "unwind", "mark"} =>
                    Vol(p) \in Temporary
              /\ job[p].cmd = "init" /\ l \in {"activate", "mkfs", "mkfs_runs", "drop"} =>
                    Vol(p) \in MakeFs
    PROVE  ControlInv'
<1> SUFFICES ASSUME NEW q \in Procs
             PROVE
               /\ pc'[q] \in {"confirm", "drop"} => job'[q].cmd = "init"
               /\ pc'[q] \in {"is_initialized", "check_fs"} => Opening(q)'
               /\ pc'[q] \notin {"idle", "begin", "close"} =>
                     job'[q].cmd \in {"init", "open", "auto_open"}
               /\ job'[q].cmd = "init" /\ pc'[q] \notin {"idle", "begin", "close"} =>
                     Vol(q)' \in Persistent
               /\ Opening(q)' /\ pc'[q] \in {"format", "mkfs", "mkfs_runs", "unwind", "mark"} =>
                     Vol(q)' \in Temporary
               /\ job'[q].cmd = "init" /\ pc'[q] \in {"activate", "mkfs", "mkfs_runs", "drop"} =>
                     Vol(q)' \in MakeFs
  BY DEF ControlInv
<1>1. CASE q # p
  BY <1>1 DEF ControlInv, Moves, Vol, Opening
<1>2. CASE q = p
  BY <1>2 DEF Moves, Vol, Opening
<1> QED
  BY <1>1, <1>2

-----------------------------------------------------------------------------
(* The common invariant holds on a machine with blank devices.             *)
LEMMA InitCommon == Init => CommonInv
<1> SUFFICES ASSUME Init PROVE CommonInv
  OBVIOUS
<1> USE VolumesAssumption
<1>1. TypeOK
  <2>1. NoJob \in Jobs
    BY DEF NoJob, Jobs
  <2>2. [state |-> "None", vk |-> NoVk, slots |-> {}] \in Headers
    BY DEF Headers, InitStates, NoVk, VolumeKeys
  <2>3. [vk |-> NoVk, content |-> "junk"] \in [vk : VolumeKeys, content : Contents]
    BY DEF NoVk, VolumeKeys, Contents
  <2> QED
    BY <2>1, <2>2, <2>3 DEF Init, TypeOK, NoVk, VolumeKeys, PCs
<1>2. ControlInv
  BY DEF Init, ControlInv, NoJob, Opening
<1>3. MappedHeaderStays
  BY DEF Init, MappedHeaderStays, is_active
<1>4. KeyInv
  BY DEF Init, KeyInv, NoVk
<1>5. OtpInv
  BY DEF Init, OtpInv
<1> QED
  BY <1>1, <1>2, <1>3, <1>4, <1>5 DEF CommonInv

-----------------------------------------------------------------------------
(* The invariants on disk and mapper, step by step. *)

DiskOK ==
    /\ hdr \in [Volumes -> Headers]
    /\ payload \in [Volumes -> [vk : VolumeKeys, content : Contents]]
    /\ mapping \in [Volumes -> VolumeKeys]
    /\ temp \in [Volumes -> VolumeKeys]
    /\ nextVk \in VolumeKeys
    /\ usable \in [Volumes -> BOOLEAN]

DataInv == DiskOK /\ MappedHeaderStays /\ KeyInv

(* Type correctness is that of the disks and that of the processes.        *)
LEMMA TypeParts == TypeOK <=> DiskOK /\ ControlOK
BY DEF TypeOK, DiskOK, ControlOK

(* The same in the next state.                                             *)
LEMMA TypePartsNext == TypeOK' <=> DiskOK' /\ ControlOK'
BY DEF TypeOK, DiskOK, ControlOK

(* "Not mapped" is a value of the mapping table.                           *)
LEMMA NoVkIsKey == NoVk \in VolumeKeys
BY VolumesAssumption DEF NoVk, VolumeKeys

(* A call that only reads, and does not send an otp open to activate. *)
LEMMA QuietStep ==
    ASSUME CommonInv, NEW p \in Procs, pc[p] # "idle", NEW L, Moves(p, L),
           "activate" \in L => Vol(p) \in Persistent,
           UNCHANGED <<disk, mapper>>,
           usable' = usable \/ usable' = [usable EXCEPT ![Vol(p)] = is_active(Vol(p))]
    PROVE  DataInv' /\ OtpInv'
<1> USE DEF CommonInv, disk, mapper
<1>0. DiskOK /\ ControlOK
  BY TypeParts
<1>1. Vol(p) \in Volumes
  BY <1>0, VolInVolumes
<1>2. DiskOK'
  BY <1>0, <1>1 DEF DiskOK, is_active
<1>3. MappedHeaderStays'
  BY DEF MappedHeaderStays, is_active
<1>4. KeyInv'
  BY <1>0, <1>1 DEF KeyInv, DiskOK, is_active
<1>5. OtpInv'
  <2> SUFFICES ASSUME NEW q \in Procs, pc'[q] = "activate", Vol(q)' \in Temporary,
                      <<"otp", q>> \in hdr[Vol(q)'].slots
               PROVE  mapping[Vol(q)'] = NoVk /\ payload[Vol(q)'].vk # hdr[Vol(q)'].vk
    BY DEF OtpInv
  <2>1. CASE q = p
    <3>1. "activate" \in L /\ Vol(p)' = Vol(p)
      BY <2>1 DEF Moves, Vol
    <3> QED
      BY <3>1, <2>1 DEF Persistent
  <2>2. CASE q # p
    BY <2>2 DEF OtpInv, Moves, Vol
  <2> QED
    BY <2>1, <2>2
<1> QED
  BY <1>2, <1>3, <1>4, <1>5 DEF DataInv

(* format: the device is free, and the volume key is new. *)
LEMMA FormatStep ==
    ASSUME CommonInv, NEW p \in Procs, Format(p)
    PROVE  DataInv' /\ OtpInv'
<1> USE DEF CommonInv, mapper
<1>0. DiskOK /\ ControlOK
  BY TypeParts
<1> DEFINE v == Vol(p)
<1>1. v \in Volumes /\ pc[p] = "format" /\ p \in Procs
  BY <1>0, VolInVolumes DEF Format
<1>2. PICK h : /\ hdr' = [hdr EXCEPT ![v] = h]
               /\ h.vk = nextVk + 1
               /\ h.slots \subseteq {Passphrase(p, v)}
               /\ h \in Headers
  <2>1. nextVk + 1 \in VolumeKeys
    BY <1>0, VolumesAssumption DEF Format, DiskOK, VolumeKeys
  <2>2. Passphrase(p, v) \in Passphrases
    BY DEF Passphrase, Passphrases
  <2>3. \A s \in InitStates, k \in SUBSET {Passphrase(p, v)} :
           NewHeader(s, k) \in Headers /\ NewHeader(s, k).vk = nextVk + 1
           /\ NewHeader(s, k).slots = k
    BY <2>1, <2>2 DEF NewHeader, Headers
  <2>4. \/ hdr' = [hdr EXCEPT ![v] = NewHeader("Initializing", {Passphrase(p, v)})]
        \/ hdr' = [hdr EXCEPT ![v] = NewHeader("Initializing", {})]
        \/ hdr' = [hdr EXCEPT ![v] = NewHeader("None", {})]
    BY DEF Format
  <2> QED
    BY <2>3, <2>4 DEF InitStates
<1>3. /\ mapping[v] = NoVk /\ temp[v] = NoVk
      /\ nextVk' = nextVk + 1 /\ nextVk < MaxFormats
      /\ UNCHANGED <<payload, mapping, temp, usable>>
  BY DEF Format, is_dev_in_use
<1>4. DiskOK'
  BY <1>0, <1>1, <1>2, <1>3, VolumesAssumption DEF DiskOK, VolumeKeys
<1>5. MappedHeaderStays'
  BY <1>0, <1>1, <1>2, <1>3 DEF MappedHeaderStays, is_active, DiskOK
<1>6. KeyInv'
  <2> SUFFICES ASSUME NEW w \in Volumes
               PROVE  /\ hdr'[w].vk <= nextVk'
                      /\ payload'[w].vk <= nextVk'
                      /\ usable'[w] => mapping'[w] # NoVk
                      /\ \A a, b \in hdr'[w].slots : a = b
    BY DEF KeyInv
  <2>1. nextVk \in Nat /\ hdr[w].vk \in Nat /\ payload[w].vk \in Nat
    BY <1>0 DEF DiskOK, Headers, VolumeKeys
  <2>2. hdr'[w] = IF w = v THEN h ELSE hdr[w]
    BY <1>0, <1>1, <1>2 DEF DiskOK
  <2> QED
    BY <1>2, <1>3, <2>1, <2>2 DEF KeyInv
<1>7. OtpInv'
  <2> SUFFICES ASSUME NEW q \in Procs, pc'[q] = "activate", Vol(q)' \in Temporary,
                      <<"otp", q>> \in hdr'[Vol(q)'].slots
               PROVE  mapping[Vol(q)'] = NoVk /\ payload[Vol(q)'].vk # hdr'[Vol(q)'].vk
    BY <1>3 DEF OtpInv
  <2>0. Moves(p, {"activate", "mark"})
    <3>1. CASE Goto(p, "activate") \/ Goto(p, "mark")
      BY <1>0, <1>1, <3>1, GotoMoves DEF PCs, Moves
    <3>2. CASE Fail(p)
      BY <1>0, <1>1, <3>2, FailMoves DEF Moves
    <3> QED
      BY <3>1, <3>2 DEF Format
  <2>1. CASE Vol(q)' = v
    <3>1. payload[v].vk < nextVk + 1
      BY <1>0, <1>1 DEF KeyInv, DiskOK, Headers, VolumeKeys
    <3>2. hdr'[v].vk = nextVk + 1
      BY <1>0, <1>1, <1>2 DEF DiskOK
    <3> QED
      BY <2>1, <3>1, <3>2, <1>0, <1>1, <1>3 DEF DiskOK, VolumeKeys
  <2>2. CASE Vol(q)' # v
    <3>1. q # p
      BY <2>0, <2>2 DEF Moves, Vol
    <3>2. Vol(q)' = Vol(q) /\ pc[q] = "activate"
      BY <2>0, <3>1 DEF Moves, Vol
    <3>3. Vol(q) \in Volumes
      BY <1>0, <3>2, VolInVolumes
    <3> QED
      BY <1>0, <1>2, <2>2, <3>2, <3>3 DEF OtpInv, DiskOK
  <2> QED
    BY <2>1, <2>2
<1> QED
  BY <1>4, <1>5, <1>6, <1>7 DEF DataInv

(* activate: the mapping gets the key of the header on the device. *)
LEMMA ActivateStep ==
    ASSUME CommonInv, NEW p \in Procs, Activate(p)
    PROVE  DataInv' /\ OtpInv'
<1> USE DEF CommonInv, disk
<1>0. DiskOK /\ ControlOK
  BY TypeParts
<1> DEFINE v == Vol(p)
<1>1. v \in Volumes /\ pc[p] = "activate"
  BY <1>0, VolInVolumes DEF Activate
<1>2. /\ mapping[v] = NoVk /\ temp[v] = NoVk
      /\ Passphrase(p, v) \in hdr[v].slots
      /\ UNCHANGED <<hdr, payload, nextVk, usable>>
      /\ \/ Opening(p) /\ mapping' = [mapping EXCEPT ![v] = hdr[v].vk] /\ temp' = temp
         \/ ~Opening(p) /\ temp' = [temp EXCEPT ![v] = hdr[v].vk] /\ mapping' = mapping
  BY DEF Activate, is_dev_in_use
<1>3. hdr[v].vk \in VolumeKeys
  BY <1>0, <1>1 DEF DiskOK, Headers
<1>4. DiskOK'
  BY <1>0, <1>1, <1>2, <1>3 DEF DiskOK
<1>5. MappedHeaderStays'
  BY <1>0, <1>1, <1>2 DEF MappedHeaderStays, is_active, DiskOK
<1>6. KeyInv'
  BY <1>0, <1>1, <1>2 DEF KeyInv, DiskOK
<1>7. OtpInv'
  <2> SUFFICES ASSUME NEW q \in Procs, pc'[q] = "activate", Vol(q)' \in Temporary,
                      <<"otp", q>> \in hdr[Vol(q)'].slots
               PROVE  mapping'[Vol(q)'] = NoVk /\ payload[Vol(q)'].vk # hdr[Vol(q)'].vk
    BY <1>2 DEF OtpInv
  <2>0. Moves(p, {"check_fs", "mkfs", "mark"})
    <3>1. Goto(p, "check_fs") \/ Goto(p, "mkfs") \/ Goto(p, "mark")
      BY DEF Activate
    <3> QED
      BY <1>0, <1>1, <3>1, GotoMoves DEF PCs, Moves
  <2>1. q # p
    BY <2>0 DEF Moves
  <2>2. Vol(q)' = Vol(q) /\ pc[q] = "activate"
    BY <2>0, <2>1 DEF Moves, Vol
  <2>3. Vol(q) \in Volumes
    BY <1>0, <2>2, VolInVolumes
  <2>4. CASE Vol(q) = v
    <3>1. <<"otp", p>> \in hdr[v].slots
      BY <1>2, <2>2, <2>4 DEF Passphrase
    <3>2. <<"otp", q>> = <<"otp", p>>
      BY <3>1, <2>2, <2>4, <1>1 DEF KeyInv
    <3> QED
      BY <3>2, <2>1
  <2>5. CASE Vol(q) # v
    BY <1>0, <1>2, <2>2, <2>3, <2>5 DEF OtpInv, DiskOK
  <2> QED
    BY <2>4, <2>5
<1> QED
  BY <1>4, <1>5, <1>6, <1>7 DEF DataInv

(* mkfs writes behind the mapping it was given. *)
LEMMA MkfsStep ==
    ASSUME CommonInv, NEW p \in Procs, MkfsStart(p) \/ MkfsEnd(p)
    PROVE  DataInv' /\ OtpInv'
<1> USE DEF CommonInv, mapper
<1>0. DiskOK /\ ControlOK
  BY TypeParts
<1> DEFINE v == Vol(p)
<1>1. v \in Volumes /\ pc[p] \in {"mkfs", "mkfs_runs"}
  BY <1>0, VolInVolumes DEF MkfsStart, MkfsEnd
<1>2. PICK x \in [vk : VolumeKeys, content : Contents] :
         /\ payload' = [payload EXCEPT ![v] = x]
         /\ \/ x.vk = payload[v].vk /\ MkfsEnd(p)
            \/ x.vk = MkfsTarget(p) /\ MkfsStart(p)
  <2>1. CASE MkfsStart(p)
    <3>1. [vk |-> MkfsTarget(p), content |-> "partial"] \in [vk : VolumeKeys, content : Contents]
      BY <1>0, <1>1 DEF DiskOK, MkfsTarget, Contents
    <3> QED
      BY <2>1, <3>1 DEF MkfsStart
  <2>2. CASE MkfsEnd(p)
    <3> DEFINE y == [payload[v] EXCEPT !.content = "fs"]
    <3>1. y \in [vk : VolumeKeys, content : Contents] /\ y.vk = payload[v].vk
      BY <1>0, <1>1 DEF DiskOK, Contents
    <3>2. payload' = [payload EXCEPT ![v] = y]
      BY <2>2 DEF MkfsEnd
    <3> QED
      BY <2>2, <3>1, <3>2
  <2> QED
    BY <2>1, <2>2
<1>3. UNCHANGED <<hdr, nextVk, mapping, temp, usable>>
  BY DEF MkfsStart, MkfsEnd
<1>4. MkfsTarget(p) # NoVk => MkfsTarget(p) = hdr[v].vk
  BY <1>1 DEF MkfsTarget, MappedHeaderStays, is_active
<1>5. DiskOK'
  BY <1>0, <1>1, <1>2, <1>3 DEF DiskOK
<1>6. MappedHeaderStays'
  BY <1>3 DEF MappedHeaderStays, is_active
<1>7. KeyInv'
  BY <1>0, <1>1, <1>2, <1>3, <1>4 DEF KeyInv, DiskOK, MkfsStart
<1>8. OtpInv'
  <2> SUFFICES ASSUME NEW q \in Procs, pc'[q] = "activate", Vol(q)' \in Temporary,
                      <<"otp", q>> \in hdr[Vol(q)'].slots
               PROVE  mapping[Vol(q)'] = NoVk /\ payload'[Vol(q)'].vk # hdr[Vol(q)'].vk
    BY <1>3 DEF OtpInv
  <2>0. Moves(p, {"mkfs_runs", "mark", "drop"})
    <3>1. Goto(p, "mkfs_runs") \/ Goto(p, "mark") \/ Goto(p, "drop")
      BY DEF MkfsStart, MkfsEnd
    <3> QED
      BY <1>0, <1>1, <3>1, GotoMoves DEF PCs, Moves
  <2>1. q # p
    BY <2>0 DEF Moves
  <2>2. Vol(q)' = Vol(q) /\ pc[q] = "activate"
    BY <2>0, <2>1 DEF Moves, Vol
  <2>3. Vol(q) \in Volumes
    BY <1>0, <2>2, VolInVolumes
  <2>4. mapping[Vol(q)] = NoVk /\ payload[Vol(q)].vk # hdr[Vol(q)].vk
    BY <2>2 DEF OtpInv
  <2>5. CASE Vol(q) = v /\ MkfsStart(p)
    <3>1. Opening(p)
      BY <2>2, <2>5, <1>1 DEF ControlInv, Opening, Persistent
    <3> QED
      BY <3>1, <2>4, <2>5 DEF MkfsStart, MkfsTarget
  <2>6. CASE ~(Vol(q) = v /\ MkfsStart(p))
    BY <1>0, <1>2, <2>2, <2>3, <2>4, <2>6 DEF DiskOK
  <2> QED
    BY <2>5, <2>6
<1> QED
  BY <1>5, <1>6, <1>7, <1>8 DEF DataInv

(* mark changes nothing but the state in the header. *)
LEMMA MarkStep ==
    ASSUME CommonInv, NEW p \in Procs, Mark(p)
    PROVE  DataInv' /\ OtpInv'
<1> USE DEF CommonInv, mapper
<1>0. DiskOK /\ ControlOK
  BY TypeParts
<1> DEFINE v == Vol(p)
<1>1. v \in Volumes /\ pc[p] = "mark"
  BY <1>0, VolInVolumes DEF Mark
<1>2. UNCHANGED <<payload, nextVk, mapping, temp, usable>>
  BY DEF Mark
<1>3. \A w \in Volumes : hdr'[w].vk = hdr[w].vk /\ hdr'[w].slots = hdr[w].slots
  BY <1>0, <1>1 DEF Mark, DiskOK, Headers
<1>4. DiskOK'
  <2>1. hdr' \in [Volumes -> Headers]
    BY <1>0, <1>1 DEF Mark, DiskOK, Headers, InitStates
  <2> QED
    BY <2>1, <1>0, <1>2 DEF DiskOK
<1>5. MappedHeaderStays'
  BY <1>2, <1>3 DEF MappedHeaderStays, is_active
<1>6. KeyInv'
  BY <1>2, <1>3 DEF KeyInv
<1>7. OtpInv'
  <2>0. Moves(p, {"check_fs"})
    <3>1. Goto(p, "check_fs") \/ NextVolume(p)
      BY DEF Mark
    <3> QED
      BY <1>0, <1>1, <3>1, GotoMoves, NextVolumeMoves DEF PCs, Moves
  <2> SUFFICES ASSUME NEW q \in Procs, pc'[q] = "activate", Vol(q)' \in Temporary,
                      <<"otp", q>> \in hdr'[Vol(q)'].slots
               PROVE  mapping[Vol(q)'] = NoVk /\ payload[Vol(q)'].vk # hdr'[Vol(q)'].vk
    BY <1>2 DEF OtpInv
  <2>1. q # p /\ Vol(q)' = Vol(q) /\ pc[q] = "activate"
    BY <2>0 DEF Moves, Vol
  <2>2. Vol(q) \in Volumes
    BY <1>0, <2>1, VolInVolumes
  <2> QED
    BY <1>3, <2>1, <2>2 DEF OtpInv
<1> QED
  BY <1>4, <1>5, <1>6, <1>7 DEF DataInv

(* Removing mappings. *)
LEMMA UnmapStep ==
    ASSUME CommonInv, NEW p \in Procs, pc[p] # "idle", NEW L, Moves(p, L),
           "activate" \notin L, UNCHANGED disk,
           \/ RemoveMapping(Vol(p))
           \/ RemoveTemp(Vol(p))
    PROVE  DataInv' /\ OtpInv'
<1> USE DEF CommonInv, disk
<1>0. DiskOK /\ ControlOK
  BY TypeParts
<1>1. Vol(p) \in Volumes
  BY <1>0, VolInVolumes
<1>2. DiskOK'
  BY <1>0, <1>1, NoVkIsKey DEF DiskOK, RemoveMapping, RemoveTemp
<1>3. \A w \in Volumes : /\ mapping'[w] \in {NoVk, mapping[w]}
                         /\ temp'[w] \in {NoVk, temp[w]}
                         /\ usable'[w] => usable[w] /\ mapping'[w] = mapping[w]
  BY <1>0, <1>1 DEF DiskOK, RemoveMapping, RemoveTemp
<1>4. MappedHeaderStays'
  BY <1>3 DEF MappedHeaderStays, is_active
<1>5. KeyInv'
  BY <1>3 DEF KeyInv
<1>6. OtpInv'
  <2> SUFFICES ASSUME NEW q \in Procs, pc'[q] = "activate", Vol(q)' \in Temporary,
                      <<"otp", q>> \in hdr[Vol(q)'].slots
               PROVE  mapping'[Vol(q)'] = NoVk /\ payload[Vol(q)'].vk # hdr[Vol(q)'].vk
    BY DEF OtpInv
  <2>1. q # p /\ Vol(q)' = Vol(q) /\ pc[q] = "activate"
    BY DEF Moves, Vol
  <2>2. Vol(q) \in Volumes
    BY <1>0, <2>1, VolInVolumes
  <2> QED
    BY <1>3, <2>1, <2>2 DEF OtpInv
<1> QED
  BY <1>2, <1>4, <1>5, <1>6 DEF DataInv

(* The user writes through a mapping that is in place. *)
LEMMA UserStep ==
    ASSUME CommonInv, NEW v \in Volumes, UserWrites(v)
    PROVE  DataInv' /\ OtpInv'
<1> USE DEF CommonInv, mapper
<1>0. DiskOK /\ ControlOK
  BY TypeParts
<1>1. PICK c \in {"user", "other"} :
         payload' = [payload EXCEPT ![v] = [vk |-> mapping[v], content |-> c]]
  BY DEF UserWrites
<1>2. /\ UNCHANGED <<hdr, nextVk, mapping, temp, pc, todo, job, usable>>
      /\ mapping[v] # NoVk
  BY DEF UserWrites, KeyInv
<1>3. mapping[v] = hdr[v].vk
  BY <1>2 DEF MappedHeaderStays, is_active
<1>4. DiskOK'
  BY <1>0, <1>1, <1>2 DEF DiskOK, Contents
<1>5. MappedHeaderStays'
  BY <1>2 DEF MappedHeaderStays, is_active
<1>6. KeyInv'
  BY <1>0, <1>1, <1>2, <1>3 DEF KeyInv, DiskOK
<1>7. OtpInv'
  <2> SUFFICES ASSUME NEW q \in Procs, pc[q] = "activate", Vol(q) \in Temporary,
                      <<"otp", q>> \in hdr[Vol(q)].slots
               PROVE  mapping[Vol(q)] = NoVk /\ payload'[Vol(q)].vk # hdr[Vol(q)].vk
    BY <1>2 DEF OtpInv, Vol
  <2>1. mapping[Vol(q)] = NoVk /\ payload[Vol(q)].vk # hdr[Vol(q)].vk
    BY DEF OtpInv
  <2>2. Vol(q) # v
    BY <2>1, <1>2
  <2>3. Vol(q) \in Volumes
    BY <1>0, VolInVolumes
  <2> QED
    BY <1>0, <1>1, <2>1, <2>2, <2>3 DEF DiskOK
<1> QED
  BY <1>4, <1>5, <1>6, <1>7 DEF DataInv

(* A command starts. *)
LEMMA StartStep ==
    ASSUME CommonInv, NEW p \in Procs, StartCommand(p)
    PROVE  CommonInv' /\ UNCHANGED <<disk, mapper, usable>>
<1> USE DEF CommonInv
<1>0. DiskOK /\ ControlOK
  BY TypeParts
<1>1. PICK j \in Jobs, vs \in Seq(Volumes) : Start(p, j, vs)
  BY VolumesAssumption
  DEF StartCommand, InitCommand, OpenCommand, CloseCommand, BootService, Jobs
<1>2. /\ UNCHANGED <<hdr, payload, nextVk, mapping, temp, usable>>
      /\ pc'[p] = "begin" /\ vs # <<>>
      /\ pc' = [pc EXCEPT ![p] = "begin"]
      /\ todo' = [todo EXCEPT ![p] = vs]
      /\ job' = [job EXCEPT ![p] = j]
  BY <1>0, <1>1 DEF Start, disk, mapper, ControlOK
<1>3. Moves(p, {})
  BY <1>0, <1>2 DEF Moves, ControlOK, PCs
<1>4. TypeOK'
  <2>1. DiskOK'
    BY <1>0, <1>2 DEF DiskOK
  <2> QED
    BY <1>3, <2>1, TypePartsNext DEF Moves
<1>5. ControlInv'
  BY <1>3 DEF ControlInv, Moves, Vol, Opening
<1>6. MappedHeaderStays' /\ KeyInv'
  BY <1>2 DEF MappedHeaderStays, KeyInv, is_active
<1>7. OtpInv'
  BY <1>2, <1>3 DEF OtpInv, Moves, Vol
<1> QED
  BY <1>2, <1>4, <1>5, <1>6, <1>7 DEF disk, mapper

(* The machine restarts. *)
LEMMA RebootStep ==
    ASSUME CommonInv, Reboot
    PROVE  CommonInv'
<1> USE DEF CommonInv, disk
<1>0. DiskOK /\ ControlOK
  BY TypeParts
<1>1. TypeOK'
  <2>1. NoJob \in Jobs
    BY DEF NoJob, Jobs
  <2>2. ControlOK'
    BY <2>1 DEF Reboot, ControlOK, PCs
  <2>3. DiskOK'
    BY <1>0, NoVkIsKey DEF Reboot, DiskOK
  <2> QED
    BY <2>2, <2>3, TypePartsNext
<1>2. ControlInv'
  BY DEF Reboot, ControlInv, NoJob, Opening
<1>3. MappedHeaderStays' /\ KeyInv'
  BY DEF Reboot, MappedHeaderStays, KeyInv, is_active
<1>4. OtpInv'
  BY DEF Reboot, OtpInv
<1> QED
  BY <1>1, <1>2, <1>3, <1>4

(* Every step of a running command, with the calls it can move to. *)
Calls(p) ==
    CASE pc[p] = "begin" -> IF Opening(p) THEN {"in_use"}
                            ELSE IF job[p].cmd = "close" THEN {"close"}
                            ELSE IF job[p].cmd = "init" /\ Vol(p) \in Persistent
                            THEN {"confirm"} ELSE {}
      [] pc[p] = "confirm" -> {"in_use"}
      [] pc[p] = "in_use" -> IF Opening(p) /\ Vol(p) \in Persistent
                             THEN {"is_initialized"} ELSE {"get_key"}
      [] pc[p] = "is_initialized" -> {"get_key"}
      [] pc[p] = "get_key" -> IF Opening(p) /\ Vol(p) \in Persistent
                              THEN {"activate"} ELSE {"format"}
      [] pc[p] = "format" -> IF Opening(p) \/ Vol(p) \in MakeFs
                             THEN {"activate"} ELSE {"mark"}
      [] pc[p] = "activate" -> IF ~Opening(p) THEN {"mkfs"}
                               ELSE IF Vol(p) \in Persistent THEN {"check_fs"}
                               ELSE {"mkfs", "mark"}
      [] pc[p] = "mkfs" -> {"mkfs_runs", "unwind"}
      [] pc[p] = "mkfs_runs" -> IF Opening(p) THEN {"mark", "unwind"}
                                ELSE {"drop", "unwind"}
      [] pc[p] = "drop" -> {"mark"}
      [] pc[p] = "mark" -> IF Opening(p) THEN {"check_fs"} ELSE {}
      [] OTHER -> {}

(* Every call of a command moves its process to a call that Calls lists.   *)
LEMMA StepMoves ==
    ASSUME ControlOK, NEW p \in Procs, Step(p)
    PROVE  pc[p] # "idle" /\ Moves(p, Calls(p))
<1>0. pc[p] # "idle"
  BY DEF Step, InitStatus, Confirm, OpenBegin, CheckInUse, IsInitialized, GetKey,
         Format, Activate, MkfsStart, MkfsEnd, MkfsFails, Unwind, DropTemp, Mark,
         CheckFs, CloseBegin, Close, CallFails
<1>1. ASSUME NEW l \in Calls(p), l \in PCs, Goto(p, l)
      PROVE  Moves(p, Calls(p))
  BY <1>0, <1>1, GotoMoves DEF Moves
<1>2. ASSUME Fail(p) \/ NextVolume(p) \/ OpenOk(p)
      PROVE  Moves(p, Calls(p))
  BY <1>0, <1>2, FailMoves, NextVolumeMoves DEF Moves, OpenOk
<1> USE DEF PCs, Calls
<1>3. CASE InitStatus(p)
  <2>1. ~Opening(p) /\ job[p].cmd = "init" /\ pc[p] = "begin"
    BY <1>3 DEF InitStatus, Opening
  <2> QED
    BY <1>1, <1>2, <1>3, <2>1 DEF InitStatus
<1>4. CASE Confirm(p)
  BY <1>1, <1>4 DEF Confirm
<1>5. CASE OpenBegin(p)
  BY <1>1, <1>2, <1>5 DEF OpenBegin
<1>6. CASE CheckInUse(p)
  BY <1>1, <1>2, <1>6 DEF CheckInUse
<1>7. CASE IsInitialized(p)
  BY <1>1, <1>2, <1>7 DEF IsInitialized
<1>8. CASE GetKey(p)
  BY <1>1, <1>8 DEF GetKey
<1>9. CASE Format(p)
  BY <1>1, <1>2, <1>9 DEF Format
<1>10. CASE Activate(p)
  <2>1. pc[p] = "activate"
    BY <1>10 DEF Activate
  <2>2. CASE Opening(p)
    <3>1. PICK l \in Calls(p) : l \in {"check_fs", "mkfs", "mark"} /\ Goto(p, l)
      BY <1>10, <2>1, <2>2 DEF Activate, Persistent
    <3> QED
      BY <1>1, <3>1
  <2>3. CASE ~Opening(p)
    BY <1>1, <1>10, <2>1, <2>3 DEF Activate
  <2> QED
    BY <2>2, <2>3
<1>11. CASE MkfsStart(p)
  BY <1>1, <1>11 DEF MkfsStart
<1>12. CASE MkfsEnd(p)
  BY <1>1, <1>12 DEF MkfsEnd
<1>13. CASE MkfsFails(p)
  BY <1>1, <1>13 DEF MkfsFails
<1>14. CASE Unwind(p)
  BY <1>2, <1>14 DEF Unwind
<1>15. CASE DropTemp(p)
  BY <1>1, <1>15 DEF DropTemp
<1>16. CASE Mark(p)
  BY <1>1, <1>2, <1>16 DEF Mark
<1>17. CASE CheckFs(p)
  BY <1>2, <1>17 DEF CheckFs
<1>18. CASE CloseBegin(p)
  <2>1. pc[p] = "begin" /\ ~Opening(p) /\ job[p].cmd = "close"
    BY <1>18 DEF CloseBegin, Opening
  <2> QED
    BY <1>1, <1>2, <1>18, <2>1 DEF CloseBegin
<1>19. CASE Close(p)
  BY <1>2, <1>19 DEF Close
<1>20. CASE CallFails(p)
  BY <1>2, <1>20 DEF CallFails
<1> QED
  BY <1>0, <1>3, <1>4, <1>5, <1>6, <1>7, <1>8, <1>9, <1>10, <1>11, <1>12, <1>13,
     <1>14, <1>15, <1>16, <1>17, <1>18, <1>19, <1>20 DEF Step

(* The moves respect the control invariant. *)
LEMMA StepControl ==
    ASSUME ControlOK, ControlInv, NEW p \in Procs, Step(p)
    PROVE  ControlInv'
<1>1. pc[p] # "idle" /\ Moves(p, Calls(p))
  BY StepMoves
<1>2. job[p].cmd \in {"none", "init", "open", "close", "auto_open"} /\ pc[p] \in PCs
  BY DEF ControlOK, Jobs
<1>3. Vol(p) \in Volumes
  BY <1>1, VolInVolumes
<1>4. SUFFICES ASSUME NEW l \in Calls(p)
      PROVE   /\ l \in {"confirm", "drop"} => job[p].cmd = "init"
              /\ l \in {"is_initialized", "check_fs"} => Opening(p)
              /\ l \notin {"idle", "begin", "close"} =>
                    job[p].cmd \in {"init", "open", "auto_open"}
              /\ job[p].cmd = "init" /\ l \notin {"idle", "begin", "close"} =>
                    Vol(p) \in Persistent
              /\ Opening(p) /\ l \in {"format", "mkfs", "mkfs_runs", "unwind", "mark"} =>
                    Vol(p) \in Temporary
              /\ job[p].cmd = "init" /\ l \in {"activate", "mkfs", "mkfs_runs", "drop"} =>
                    Vol(p) \in MakeFs
  BY <1>1, MovesControl
<1> QED
  BY <1>1, <1>2, <1>3 DEF Calls, ControlInv, Opening, Persistent, PCs

(* Every step of a command preserves the data invariants. *)
LEMMA StepData ==
    ASSUME CommonInv, NEW p \in Procs, Step(p)
    PROVE  DataInv' /\ OtpInv'
<1>0. ControlOK
  BY TypeParts DEF CommonInv
<1>1. pc[p] # "idle" /\ Moves(p, Calls(p))
  BY <1>0, StepMoves
<1>2. ASSUME UNCHANGED <<disk, mapper>>, pc[p] # "format",
             \/ usable' = usable
             \/ usable' = [usable EXCEPT ![Vol(p)] = is_active(Vol(p))]
      PROVE  DataInv' /\ OtpInv'
  <2>1. "activate" \in Calls(p) => Vol(p) \in Persistent
    BY <1>2 DEF Calls
  <2> QED
    BY <1>1, <1>2, <2>1, QuietStep
<1>3. ASSUME UNCHANGED disk, pc[p] \in {"unwind", "drop", "check_fs", "close"},
             RemoveMapping(Vol(p)) \/ RemoveTemp(Vol(p))
      PROVE  DataInv' /\ OtpInv'
  <2>1. "activate" \notin Calls(p)
    BY <1>3 DEF Calls
  <2> QED
    BY <1>1, <1>3, <2>1, UnmapStep
<1>4. CASE Format(p)
  BY <1>4, FormatStep
<1>5. CASE Activate(p)
  BY <1>5, ActivateStep
<1>6. CASE MkfsStart(p) \/ MkfsEnd(p)
  BY <1>6, MkfsStep
<1>7. CASE Mark(p)
  BY <1>7, MarkStep
<1>8. CASE Unwind(p)
  BY <1>2, <1>3, <1>8 DEF Unwind, mapper
<1>9. CASE DropTemp(p)
  BY <1>2, <1>3, <1>9 DEF DropTemp, mapper
<1>10. CASE CheckFs(p)
  BY <1>2, <1>3, <1>10 DEF CheckFs, OpenOk, mapper
<1>11. CASE Close(p)
  BY <1>3, <1>11 DEF Close
<1>12. CASE OpenBegin(p)
  BY <1>2, <1>12 DEF OpenBegin, OpenOk
<1>13. CASE InitStatus(p) \/ Confirm(p) \/ CheckInUse(p) \/ IsInitialized(p)
            \/ GetKey(p) \/ MkfsFails(p) \/ CloseBegin(p)
  BY <1>2, <1>13
  DEF InitStatus, Confirm, CheckInUse, IsInitialized, GetKey, MkfsFails, CloseBegin
<1>14. CASE CallFails(p)
  <2>1. Moves(p, {})
    BY <1>0, <1>1, <1>14, FailMoves DEF CallFails
  <2> QED
    BY <1>1, <1>14, <2>1, QuietStep DEF CallFails
<1> QED
  BY <1>4, <1>5, <1>6, <1>7, <1>8, <1>9, <1>10, <1>11, <1>12, <1>13, <1>14 DEF Step

(* Killing a process changes nothing but its control state. *)
LEMMA KillStep ==
    ASSUME CommonInv, NEW p \in Procs, Kill(p)
    PROVE  Moves(p, {}) /\ CommonInv'
<1>0. ControlOK
  BY TypeParts DEF CommonInv
<1>1. Moves(p, {}) /\ pc[p] # "idle"
  BY <1>0, ExitMoves DEF Kill
<1>2. DataInv' /\ OtpInv'
  BY <1>1, QuietStep DEF Kill
<1>3. ControlInv'
  BY <1>0, <1>1, MovesControl DEF CommonInv
<1> QED
  BY <1>1, <1>2, <1>3, TypePartsNext DEF CommonInv, DataInv, Moves

(* Every step of every process, and a reboot, keep the common invariant.   *)
LEMMA CommonInductive == CommonInv /\ [Next]_vars => CommonInv'
<1> SUFFICES ASSUME CommonInv, [Next]_vars PROVE CommonInv'
  OBVIOUS
<1>0. ControlOK
  BY TypeParts DEF CommonInv
<1>1. ASSUME NEW p \in Procs, Step(p) PROVE CommonInv'
  <2>1. DataInv' /\ OtpInv'
    BY <1>1, StepData
  <2>2. ControlInv' /\ ControlOK'
    BY <1>0, <1>1, StepControl, StepMoves DEF CommonInv, Moves
  <2> QED
    BY <2>1, <2>2, TypePartsNext DEF CommonInv, DataInv
<1>2. ASSUME NEW p \in Procs, StartCommand(p) PROVE CommonInv'
  BY <1>2, StartStep
<1>3. ASSUME NEW p \in Procs, Kill(p) PROVE CommonInv'
  BY <1>3, KillStep
<1>4. ASSUME NEW v \in Volumes, UserWrites(v) PROVE CommonInv'
  <2>1. DataInv' /\ OtpInv'
    BY <1>4, UserStep
  <2>2. UNCHANGED <<pc, todo, job>>
    BY <1>4 DEF UserWrites
  <2>3. ControlOK' /\ ControlInv'
    BY <1>0, <2>2 DEF CommonInv, ControlOK, ControlInv, Opening, Vol
  <2> QED
    BY <2>1, <2>3, TypePartsNext DEF CommonInv, DataInv
<1>5. CASE Reboot
  BY <1>5, RebootStep
<1>6. CASE UNCHANGED vars
  BY <1>6 DEF vars, CommonInv, TypeOK, ControlInv, MappedHeaderStays, KeyInv, OtpInv,
              Opening, Vol, is_active
<1> QED
  BY <1>1, <1>2, <1>3, <1>4, <1>5, <1>6 DEF Next

(* The invariants that hold however many commands run at once. *)
THEOREM CommonInvariant == Spec => []CommonInv
BY InitCommon, CommonInductive, PTL DEF Spec

(* Every variable keeps its type, and a running command always has a       *)
(* volume to work on.                                                      *)
THEOREM TypeCorrect == Spec => []TypeOK
<1>1. CommonInv => TypeOK
  BY DEF CommonInv
<1> QED
  BY <1>1, CommonInvariant, PTL

(* Whatever commands run at once, and wherever they are interrupted, no    *)
(* format replaces the header behind an active mapping.                    *)
THEOREM MappedHeader == Spec => []MappedHeaderStays
<1>1. CommonInv => MappedHeaderStays
  BY DEF CommonInv
<1> QED
  BY <1>1, CommonInvariant, PTL

(* An otp volume never comes up with earlier data, however many processes  *)
(* open and close it at once.                                              *)
THEOREM OtpStartsEmpty == Spec => TemporaryStartsEmpty
<1> DEFINE P == \A v \in Temporary : mapping[v] = NoVk /\ mapping'[v] # NoVk =>
                     Visible(v, mapping'[v]) = "junk"
<1>1. CommonInv /\ [Next]_vars => [P]_vars
  <2> SUFFICES ASSUME CommonInv, Next, NEW v \in Temporary,
                      mapping[v] = NoVk, mapping'[v] # NoVk
               PROVE  Visible(v, mapping'[v]) = "junk"
    OBVIOUS
  <2>0. DiskOK /\ ControlOK /\ v \in Volumes
    BY TypeParts, VolumesAssumption DEF CommonInv
  <2>1. PICK p \in Procs : Activate(p)
    <3>1. ASSUME NEW p \in Procs, Step(p), ~Activate(p) PROVE FALSE
      <4>1. \/ UNCHANGED mapping
            \/ \E w \in Volumes : mapping' = [mapping EXCEPT ![w] = NoVk]
        <5>1. Vol(p) \in Volumes
          BY <2>0, <3>1, StepMoves, VolInVolumes
        <5> QED
          BY <3>1, <5>1
          DEF Step, InitStatus, Confirm, OpenBegin, CheckInUse, IsInitialized, GetKey,
              Format, MkfsStart, MkfsEnd, MkfsFails, Unwind, DropTemp, Mark, CheckFs,
              CloseBegin, Close, CallFails, RemoveMapping, RemoveTemp, mapper
      <4> QED
        BY <2>0, <4>1 DEF DiskOK
    <3>2. ASSUME NEW p \in Procs, StartCommand(p) \/ Kill(p) PROVE FALSE
      BY <3>2, StartStep DEF Kill, mapper
    <3>3. ASSUME NEW w \in Volumes, UserWrites(w) PROVE FALSE
      BY <3>3 DEF UserWrites, mapper
    <3>4. ~Reboot
      BY <2>0 DEF Reboot
    <3> QED
      BY <3>1, <3>2, <3>3, <3>4 DEF Next
  <2>2. Vol(p) \in Volumes
    BY <2>0, <2>1, VolInVolumes DEF Activate
  <2>3. Vol(p) = v /\ mapping'[v] = hdr[v].vk
    BY <2>0, <2>1, <2>2 DEF Activate, DiskOK
  <2>4. payload[v].vk # hdr[v].vk
    BY <2>1, <2>3 DEF CommonInv, OtpInv, Activate, Passphrase
  <2> QED
    BY <2>3, <2>4 DEF Visible
<1>2. TemporaryStartsEmpty <=> [][P]_vars
  BY DEF TemporaryStartsEmpty
<1> QED
  BY <1>1, <1>2, CommonInvariant, PTL DEF Spec

(* A call of the boot service leads to another call for the same volume,   *)
(* to the next volume, or past the last one.                               *)
LEMMA BootServiceGoesOn ==
    ASSUME ControlOK, NEW p \in Procs, job[p].cmd = "auto_open", Step(p)
    PROVE  \/ pc'[p] # "idle" /\ todo'[p] = todo[p]
           \/ pc'[p] = "begin" /\ todo'[p] = Tail(todo[p])
           \/ Tail(todo[p]) = <<>>
<1> DEFINE Good == \/ pc'[p] # "idle" /\ todo'[p] = todo[p]
                   \/ pc'[p] = "begin" /\ todo'[p] = Tail(todo[p])
                   \/ Tail(todo[p]) = <<>>
<1>0. DOMAIN pc = Procs /\ DOMAIN todo = Procs
  BY DEF ControlOK
<1>1. ASSUME NEW l, l # "idle", Goto(p, l) PROVE Good
  BY <1>0, <1>1 DEF Goto
<1>2. ASSUME NextVolume(p) \/ Fail(p) \/ OpenOk(p) PROVE Good
  <2>1. NextVolume(p)
    BY <1>2 DEF Fail, OpenOk
  <2> QED
    BY <1>0, <2>1 DEF NextVolume
<1>3. NextVolume(p) \/ Fail(p) \/ OpenOk(p) \/ \E l : l # "idle" /\ Goto(p, l)
  <2>1. CASE InitStatus(p) \/ Close(p) \/ CallFails(p) \/ CloseBegin(p) \/ Unwind(p)
    BY <2>1 DEF InitStatus, Close, CallFails, CloseBegin, Unwind
  <2>2. CASE Confirm(p) \/ OpenBegin(p) \/ CheckInUse(p) \/ IsInitialized(p) \/ GetKey(p)
    BY <2>2 DEF Confirm, OpenBegin, CheckInUse, IsInitialized, GetKey
  <2>3. CASE Format(p) \/ Activate(p)
    BY <2>3 DEF Format, Activate
  <2>4. CASE MkfsStart(p) \/ MkfsEnd(p) \/ MkfsFails(p)
    BY <2>4 DEF MkfsStart, MkfsEnd, MkfsFails
  <2>5. CASE DropTemp(p) \/ Mark(p) \/ CheckFs(p)
    BY <2>5 DEF DropTemp, Mark, CheckFs
  <2> QED
    BY <2>1, <2>2, <2>3, <2>4, <2>5 DEF Step
<1> QED
  BY <1>1, <1>2, <1>3

(* Unless it is killed the boot service returns only after the last volume *)
(* of its list, whatever fails on the way and whatever runs beside it      *)
(* (the loop over the volumes to open on boot).                            *)
THEOREM BootServiceThorough == Spec => BootServiceTriesAll
<1> DEFINE P == \A p \in Procs : job[p].cmd = "auto_open" /\ Step(p) /\ pc'[p] = "idle" =>
                     Tail(todo[p]) = <<>>
<1>1. CommonInv /\ [Next]_vars => [P]_vars
  <2> SUFFICES ASSUME CommonInv, NEW p \in Procs,
                      job[p].cmd = "auto_open", Step(p), pc'[p] = "idle"
               PROVE  Tail(todo[p]) = <<>>
    OBVIOUS
  <2>1. ControlOK
    BY TypeParts DEF CommonInv
  <2> QED
    BY <2>1, BootServiceGoesOn
<1>2. BootServiceTriesAll <=> [][P]_vars
  BY DEF BootServiceTriesAll
<1> QED
  BY <1>1, <1>2, CommonInvariant, PTL DEF Spec

-----------------------------------------------------------------------------
(* One command at a time. *)

(* The invariant of one command at a time holds initially.                 *)
LEMMA InitSerial == Serial /\ Init => SerialInv
<1> SUFFICES ASSUME Serial, Init PROVE SerialInv
  OBVIOUS
<1>1. CommonInv
  BY InitCommon
<1>2. AloneInv
  BY DEF Init, AloneInv
<1>3. ProgressInv
  BY DEF Init, ProgressInv, ProgressAt, NoJob, Opening
<1>4. ReadyIsComplete
  BY DEF Init, ReadyIsComplete, Persistent
<1> QED
  BY <1>1, <1>2, <1>3, <1>4 DEF SerialInv

(* When a process that is alone moves, only its own progress matters. *)
LEMMA MovesAlone ==
    ASSUME ControlOK, AloneInv, NEW p \in Procs, pc[p] # "idle", NEW L, Moves(p, L),
           ProgressAt(p)'
    PROVE  AloneInv' /\ ProgressInv'
<1>1. \A q \in Procs \ {p} : pc[q] = "idle" /\ pc'[q] = "idle"
  BY DEF AloneInv, Moves
<1>2. AloneInv'
  BY <1>1 DEF AloneInv
<1>3. ASSUME NEW q \in Procs \ {p} PROVE ProgressAt(q)'
  BY <1>1, <1>3 DEF ProgressAt
<1> QED
  BY <1>2, <1>3 DEF ProgressInv

(* A call of a command that runs alone leaves what its next call relies    *)
(* on: how far open and init have got with the header, key slot and file   *)
(* system.                                                                 *)
LEMMA StepProgress ==
    ASSUME SerialInv, NEW p \in Procs, Step(p)
    PROVE  ProgressAt(p)' /\ ReadyIsComplete'
<1> USE DEF SerialInv, CommonInv, mapper, disk
<1>0. DiskOK /\ ControlOK
  BY TypeParts
<1>1. pc[p] # "idle" /\ Moves(p, Calls(p))
  BY <1>0, StepMoves
<1>2. Vol(p) \in Volumes
  BY <1>0, <1>1, VolInVolumes
<1> SUFFICES ASSUME NEW v \in Volumes, v = Vol(p)
             PROVE  ProgressAt(p)' /\ ReadyIsComplete'
  BY <1>2
<1>3. ProgressAt(p)
  BY DEF ProgressInv
<1>4. CASE pc'[p] \in {"idle", "begin"} /\ UNCHANGED <<hdr, payload>>
  <2>1. ProgressAt(p)'
    BY <1>4 DEF ProgressAt
  <2> QED
    BY <1>4, <2>1 DEF ReadyIsComplete, Complete
<1> DEFINE At(l) == /\ pc'[p] = l /\ job'[p] = job[p] /\ Vol(p)' = v
                    /\ Opening(p)' <=> Opening(p)
<1>5. ASSUME NEW l, Goto(p, l) PROVE At(l)
  BY <1>0, <1>5 DEF Goto, Vol, Opening, ControlOK
<1>6. ASSUME UNCHANGED <<hdr, payload>> PROVE ReadyIsComplete' /\ (Complete(v)' <=> Complete(v))
  BY <1>6 DEF ReadyIsComplete, Complete
<1>7. ASSUME Fail(p) \/ NextVolume(p) PROVE pc'[p] \in {"idle", "begin"}
  BY <1>0, <1>1, <1>7, FailMoves, NextVolumeMoves DEF Moves
<1>8. CASE InitStatus(p)
  <2>1. CASE Goto(p, "confirm") /\ InitMayProceed(p)
    <3>1. job[p].cmd = "init" /\ UNCHANGED <<hdr, payload>> /\ ~Opening(p)
      BY <1>8 DEF InitStatus, Opening
    <3>2. ~job[p].force => hdr[v].state # "Ready"
      BY <2>1 DEF InitMayProceed, determine_status, get_init_state, Persistent
    <3>3. At("confirm")
      BY <1>5, <2>1
    <3> QED
      BY <1>6, <3>1, <3>2, <3>3 DEF ProgressAt
  <2>2. CASE Fail(p) \/ NextVolume(p)
    BY <1>4, <1>7, <1>8, <2>2 DEF InitStatus
  <2> QED
    BY <1>8, <2>1, <2>2 DEF InitStatus
<1>9. CASE Confirm(p)
  <2>1. /\ pc[p] = "confirm" /\ job[p].cmd = "init" /\ ~Opening(p)
        /\ UNCHANGED <<hdr, payload>>
    BY <1>9 DEF Confirm, ControlInv, Opening
  <2>2. At("in_use")
    BY <1>5, <1>9 DEF Confirm
  <2> QED
    BY <1>3, <1>6, <2>1, <2>2 DEF ProgressAt
<1>10. CASE OpenBegin(p)
  <2>1. CASE Goto(p, "in_use")
    <3>1. UNCHANGED <<hdr, payload>> /\ job[p].cmd # "init"
      BY <1>10 DEF OpenBegin, Opening
    <3>2. At("in_use")
      BY <1>5, <2>1
    <3> QED
      BY <1>6, <3>1, <3>2 DEF ProgressAt
  <2>2. CASE NextVolume(p)
    BY <1>4, <1>7, <1>10, <2>2 DEF OpenBegin
  <2> QED
    BY <1>10, <2>1, <2>2 DEF OpenBegin, OpenOk
<1>11. CASE CheckInUse(p)
  <2>1. CASE Goto(p, "is_initialized") /\ Opening(p)
    <3>1. UNCHANGED <<hdr, payload>> /\ job[p].cmd # "init"
      BY <1>11, <2>1 DEF CheckInUse, Opening
    <3>2. At("is_initialized")
      BY <1>5, <2>1
    <3> QED
      BY <1>6, <3>1, <3>2 DEF ProgressAt
  <2>2. CASE Goto(p, "get_key") /\ ~(Opening(p) /\ v \in Persistent)
    <3>1. UNCHANGED <<hdr, payload>> /\ pc[p] = "in_use"
      BY <1>11 DEF CheckInUse
    <3>2. At("get_key")
      BY <1>5, <2>2
    <3> QED
      BY <1>3, <1>6, <2>2, <3>1, <3>2 DEF ProgressAt
  <2>3. CASE Fail(p)
    BY <1>4, <1>7, <1>11, <2>3 DEF CheckInUse
  <2> QED
    BY <1>11, <2>1, <2>2, <2>3 DEF CheckInUse
<1>12. CASE IsInitialized(p)
  <2>1. Opening(p) /\ UNCHANGED <<hdr, payload>> /\ job[p].cmd # "init"
    BY <1>12 DEF IsInitialized, ControlInv, Opening
  <2>2. CASE Goto(p, "get_key") /\ hdr[v].state = "Ready"
    <3>1. At("get_key")
      BY <1>5, <2>2
    <3> QED
      BY <1>6, <2>1, <2>2, <3>1 DEF ProgressAt
  <2>3. CASE Fail(p)
    BY <1>4, <1>7, <2>1, <2>3
  <2> QED
    BY <1>12, <2>2, <2>3 DEF IsInitialized, get_init_state
<1>13. CASE GetKey(p)
  <2>1. UNCHANGED <<hdr, payload>> /\ pc[p] = "get_key"
    BY <1>13 DEF GetKey
  <2>2. CASE Opening(p) /\ v \in Persistent
    <3>1. Goto(p, "activate") /\ job[p].cmd # "init"
      BY <1>13, <2>2 DEF GetKey, Opening
    <3>2. At("activate")
      BY <1>5, <3>1
    <3>3. hdr[v].state = "Ready"
      BY <1>3, <2>1, <2>2 DEF ProgressAt
    <3> QED
      BY <1>6, <2>1, <3>1, <3>2, <3>3 DEF ProgressAt
  <2>3. CASE ~(Opening(p) /\ v \in Persistent)
    <3>1. Goto(p, "format")
      BY <1>13, <2>3 DEF GetKey
    <3>2. At("format")
      BY <1>5, <3>1
    <3> QED
      BY <1>3, <1>6, <2>1, <3>2 DEF ProgressAt
  <2> QED
    BY <2>2, <2>3
<1>14. CASE Format(p)
  <2>0. PICK s, k : /\ s \in {"None", "Initializing"}
                    /\ hdr' = [hdr EXCEPT ![v] = NewHeader(s, k)]
    BY <1>14 DEF Format
  <2>6. /\ \A w \in Volumes \ {v} : hdr'[w] = hdr[w]
        /\ hdr'[v] = NewHeader(s, k)
    BY <1>0, <2>0 DEF DiskOK
  <2>1. /\ pc[p] = "format" /\ mapping[v] = NoVk /\ mapping' = mapping /\ payload' = payload
        /\ \A w \in Volumes \ {v} : hdr'[w] = hdr[w]
        /\ hdr'[v].state # "Ready" /\ hdr'[v].vk = nextVk + 1
    <3>1. pc[p] = "format" /\ mapping[v] = NoVk /\ mapping' = mapping /\ payload' = payload
      BY <1>14 DEF Format, is_dev_in_use
    <3>2. hdr'[v].state # "Ready" /\ hdr'[v].vk = nextVk + 1
      BY <2>0, <2>6 DEF NewHeader
    <3> QED
      BY <2>6, <3>1, <3>2
  <2>2. ReadyIsComplete'
    BY <2>1 DEF ReadyIsComplete, Complete, Persistent
  <2>3. Opening(p) => v \notin Persistent
    BY <2>1 DEF ControlInv, Persistent
  <2>4. CASE /\ Goto(p, IF Opening(p) \/ v \in MakeFs THEN "activate" ELSE "mark")
             /\ hdr'[v] = NewHeader("Initializing", {Passphrase(p, v)})
    <3>1. payload[v].vk # nextVk + 1
      BY <1>0, <1>2 DEF KeyInv, DiskOK, VolumeKeys
    <3>2. hdr'[v].state = "Initializing" /\ hdr'[v].slots # {}
      <4> DEFINE k2 == {Passphrase(p, v)}
      <4>1. hdr'[v] = NewHeader("Initializing", k2) /\ k2 # {}
        BY <2>4
      <4> HIDE DEF k2
      <4> QED
        BY <4>1 DEF NewHeader
    <3>3. Complete(v)' <=> v \notin MakeFs
      BY <2>1, <3>1, <3>2 DEF Complete
    <3>4. CASE Opening(p)
      <4>1. Goto(p, "activate") /\ job[p].cmd # "init"
        BY <2>4, <3>4 DEF Opening
      <4>2. At("activate")
        BY <1>5, <4>1
      <4> QED
        BY <2>2, <2>3, <3>4, <4>1, <4>2 DEF ProgressAt
    <3>5. CASE ~Opening(p) /\ v \in MakeFs
      <4>1. Goto(p, "activate")
        BY <2>4, <3>5
      <4>2. At("activate")
        BY <1>5, <4>1
      <4> QED
        BY <2>1, <2>2, <3>2, <3>3, <3>5, <4>2 DEF ProgressAt
    <3>6. CASE ~Opening(p) /\ v \notin MakeFs
      <4>1. Goto(p, "mark")
        BY <2>4, <3>6
      <4>2. At("mark")
        BY <1>5, <4>1
      <4> QED
        BY <2>1, <2>2, <3>2, <3>3, <3>6, <4>2 DEF ProgressAt
    <3> QED
      BY <3>4, <3>5, <3>6
  <2>5. CASE Fail(p)
    BY <1>7, <2>2, <2>5 DEF ProgressAt
  <2> QED
    BY <1>0, <1>2, <1>14, <2>4, <2>5 DEF Format, DiskOK
<1>15. CASE Activate(p)
  <2>1. UNCHANGED <<hdr, payload>> /\ pc[p] = "activate"
    BY <1>15 DEF Activate
  <2>2. CASE Opening(p)
    <3>1. job[p].cmd # "init" /\ pc'[p] \in {"check_fs", "mkfs", "mark"}
      BY <1>5, <1>15, <2>2 DEF Activate, Opening
    <3>2. job'[p] = job[p]
      BY <1>15, <2>2 DEF Activate, Goto
    <3> QED
      BY <1>6, <2>1, <3>1, <3>2 DEF ProgressAt
  <2>3. CASE ~Opening(p)
    <3>1. Goto(p, "mkfs") /\ mapping' = mapping
      BY <1>15, <2>3 DEF Activate
    <3>2. At("mkfs")
      BY <1>5, <3>1
    <3> QED
      BY <1>3, <1>6, <2>1, <2>3, <3>1, <3>2 DEF ProgressAt
  <2> QED
    BY <2>2, <2>3
<1>16. CASE MkfsStart(p)
  <2>1. /\ pc[p] = "mkfs" /\ Goto(p, "mkfs_runs") /\ UNCHANGED <<hdr, mapping>>
        /\ MkfsTarget(p) # NoVk /\ payload'[v].vk = MkfsTarget(p)
        /\ \A w \in Volumes \ {v} : payload'[w] = payload[w]
    BY <1>0, <1>2, <1>16 DEF MkfsStart, DiskOK
  <2>2. MkfsTarget(p) = hdr[v].vk
    BY <1>2, <2>1 DEF MkfsTarget, MappedHeaderStays, is_active
  <2>3. v \in Persistent => hdr[v].state # "Ready"
    BY <1>3, <2>1 DEF ControlInv, ProgressAt, Persistent, Opening
  <2>4. ReadyIsComplete'
    BY <2>1, <2>3 DEF ReadyIsComplete, Complete, Persistent
  <2>5. At("mkfs_runs")
    BY <1>5, <2>1
  <2> QED
    BY <1>3, <2>1, <2>2, <2>4, <2>5 DEF ProgressAt
<1>17. CASE MkfsEnd(p)
  <2>1. /\ pc[p] = "mkfs_runs" /\ UNCHANGED <<hdr, mapping>>
        /\ Goto(p, IF Opening(p) THEN "mark" ELSE "drop")
        /\ payload'[v].vk = payload[v].vk /\ payload'[v].content = "fs"
        /\ \A w \in Volumes \ {v} : payload'[w] = payload[w]
    BY <1>0, <1>2, <1>17 DEF MkfsEnd, DiskOK
  <2>2. v \in Persistent => hdr[v].state # "Ready"
    BY <1>3, <2>1 DEF ControlInv, ProgressAt, Persistent, Opening
  <2>3. ReadyIsComplete'
    BY <2>1, <2>2 DEF ReadyIsComplete, Complete, Persistent
  <2>4. CASE Opening(p)
    <3>1. job[p].cmd # "init" /\ Goto(p, "mark")
      BY <2>1, <2>4 DEF Opening
    <3>2. At("mark")
      BY <1>5, <3>1
    <3> QED
      BY <2>3, <3>1, <3>2 DEF ProgressAt
  <2>5. CASE ~Opening(p)
    <3>1. Goto(p, "drop")
      BY <2>1, <2>5
    <3>2. job[p].cmd = "init" => Complete(v)'
      BY <1>3, <2>1 DEF ProgressAt, Complete, Finished
    <3>3. At("drop")
      BY <1>5, <3>1
    <3> QED
      BY <1>3, <2>1, <2>3, <2>5, <3>2, <3>3 DEF ProgressAt
  <2> QED
    BY <2>4, <2>5
<1>18. CASE MkfsFails(p)
  <2>1. /\ UNCHANGED <<hdr, payload, mapping>> /\ Goto(p, "unwind")
        /\ pc[p] \in {"mkfs", "mkfs_runs"}
    BY <1>18 DEF MkfsFails
  <2>2. At("unwind")
    BY <1>5, <2>1
  <2> QED
    BY <1>3, <1>6, <2>1, <2>2 DEF ProgressAt
<1>19. CASE DropTemp(p)
  <2>1. /\ UNCHANGED <<hdr, payload, mapping>> /\ Goto(p, "mark") /\ pc[p] = "drop"
        /\ ~Opening(p)
    BY <1>19 DEF DropTemp, RemoveTemp, ControlInv, Opening
  <2>2. At("mark")
    BY <1>5, <2>1
  <2> QED
    BY <1>3, <1>6, <2>1, <2>2 DEF ProgressAt
<1>20. CASE Mark(p)
  <2>1. /\ pc[p] = "mark" /\ payload' = payload
        /\ \A w \in Volumes : hdr'[w].vk = hdr[w].vk /\ hdr'[w].slots = hdr[w].slots
        /\ \A w \in Volumes \ {v} : hdr'[w] = hdr[w]
    BY <1>0, <1>2, <1>20 DEF Mark, DiskOK, Headers
  <2>2. v \in Persistent => Complete(v)
    BY <1>3, <2>1 DEF ControlInv, ProgressAt, Persistent, Opening
  <2>3. ReadyIsComplete'
    BY <2>1, <2>2 DEF ReadyIsComplete, Complete, Persistent
  <2>4. CASE Opening(p)
    <3>1. job[p].cmd # "init" /\ Goto(p, "check_fs")
      BY <1>20, <2>4 DEF Mark, Opening
    <3>2. At("check_fs")
      BY <1>5, <3>1
    <3> QED
      BY <2>3, <3>1, <3>2 DEF ProgressAt
  <2>5. CASE ~Opening(p)
    <3>1. pc'[p] \in {"idle", "begin"}
      BY <1>7, <1>20, <2>5 DEF Mark
    <3> QED
      BY <2>3, <3>1 DEF ProgressAt
  <2> QED
    BY <2>4, <2>5
<1>21. CASE CloseBegin(p)
  <2>1. CASE Goto(p, "close")
    BY <1>5, <1>6, <1>21, <2>1 DEF CloseBegin, ProgressAt
  <2>2. CASE NextVolume(p)
    BY <1>4, <1>7, <1>21, <2>2 DEF CloseBegin
  <2> QED
    BY <1>21, <2>1, <2>2 DEF CloseBegin
<1>22. CASE Unwind(p) \/ CheckFs(p) \/ Close(p) \/ CallFails(p)
  BY <1>4, <1>7, <1>22 DEF Unwind, CheckFs, Close, CallFails, OpenOk
<1> QED
  BY <1>8, <1>9, <1>10, <1>11, <1>12, <1>13, <1>14, <1>15, <1>16, <1>17, <1>18, <1>19,
     <1>20, <1>21, <1>22 DEF Step

(* Every step keeps the invariant of one command at a time.                *)
LEMMA SerialInductive == SerialInv /\ [Next]_vars => SerialInv'
<1> SUFFICES ASSUME SerialInv, [Next]_vars PROVE SerialInv'
  OBVIOUS
<1>0. CommonInv' /\ ControlOK /\ DiskOK
  BY CommonInductive, TypeParts DEF SerialInv, CommonInv
<1>1. ASSUME NEW p \in Procs, Step(p) PROVE SerialInv'
  <2>1. pc[p] # "idle" /\ Moves(p, Calls(p))
    BY <1>0, <1>1, StepMoves
  <2>2. ProgressAt(p)' /\ ReadyIsComplete'
    BY <1>1, StepProgress
  <2> QED
    BY <1>0, <2>1, <2>2, MovesAlone DEF SerialInv
<1>2. ASSUME NEW p \in Procs, StartCommand(p) PROVE SerialInv'
  <2>1. PICK j, vs : Start(p, j, vs)
    BY <1>2 DEF StartCommand, InitCommand, OpenCommand, CloseCommand, BootService
  <2>2. /\ \A q \in Procs : pc[q] = "idle"
        /\ pc' = [pc EXCEPT ![p] = "begin"]
        /\ UNCHANGED <<hdr, payload>>
    BY <2>1 DEF Start, SerialInv, disk
  <2>3. \A q \in Procs : pc'[q] = IF q = p THEN "begin" ELSE "idle"
    BY <1>0, <2>2 DEF ControlOK
  <2>4. AloneInv'
    BY <2>3 DEF AloneInv
  <2>5. ProgressInv'
    BY <2>3 DEF ProgressInv, ProgressAt
  <2>6. ReadyIsComplete'
    BY <2>2 DEF SerialInv, ReadyIsComplete, Complete
  <2> QED
    BY <1>0, <2>4, <2>5, <2>6 DEF SerialInv
<1>3. ASSUME NEW p \in Procs, Kill(p) PROVE SerialInv'
  <2>1. Moves(p, {}) /\ pc[p] # "idle"
    BY <1>3, KillStep DEF SerialInv, Kill
  <2>2. ProgressAt(p)'
    BY <2>1 DEF Moves, ProgressAt
  <2>3. ReadyIsComplete'
    BY <1>3 DEF SerialInv, Kill, disk, ReadyIsComplete, Complete
  <2> QED
    BY <1>0, <2>1, <2>2, <2>3, MovesAlone DEF SerialInv
<1>4. ASSUME NEW v \in Volumes, UserWrites(v) PROVE SerialInv'
  <2>0. mapping[v] # NoVk /\ mapping[v] = hdr[v].vk
    BY <1>4 DEF UserWrites, SerialInv, CommonInv, KeyInv, MappedHeaderStays, is_active
  <2>1. /\ UNCHANGED <<hdr, mapping, pc, todo, job>>
        /\ mapping[v] # NoVk /\ mapping[v] = hdr[v].vk
        /\ payload'[v].vk = hdr[v].vk /\ payload'[v].content \in Finished
        /\ \A w \in Volumes \ {v} : payload'[w] = payload[w]
    BY <1>0, <1>4, <2>0 DEF UserWrites, mapper, DiskOK, Finished
  <2>2. AloneInv'
    BY <2>1 DEF SerialInv, AloneInv
  <2>3. ReadyIsComplete'
    BY <2>1 DEF SerialInv, ReadyIsComplete, Complete, Persistent
  <2>4. ASSUME NEW q \in Procs PROVE ProgressAt(q)'
    <3>1. ProgressAt(q)
      BY DEF SerialInv, ProgressInv
    <3>2. CASE pc[q] = "idle"
      BY <2>1, <3>2 DEF ProgressAt
    <3>3. CASE pc[q] # "idle" /\ Vol(q) # v
      <4>1. Vol(q) \in Volumes
        BY <1>0, <3>3, VolInVolumes
      <4>2. Vol(q)' = Vol(q) /\ (Opening(q)' <=> Opening(q)) /\ (Complete(Vol(q))' <=> Complete(Vol(q)))
        BY <2>1, <3>3, <4>1 DEF Vol, Opening, Complete
      <4> QED
        BY <2>1, <3>1, <3>3, <4>1, <4>2 DEF ProgressAt
    <3>4. CASE pc[q] # "idle" /\ Vol(q) = v
      <4>1. Vol(q)' = v /\ (Opening(q)' <=> Opening(q))
        BY <2>1, <3>4 DEF Vol, Opening
      <4>2. ~(job[q].cmd = "init" /\ pc[q] \in {"activate", "mkfs", "mkfs_runs", "drop", "unwind", "mark"})
        BY <2>1, <3>1, <3>4 DEF ProgressAt
      <4> QED
        BY <2>1, <3>1, <3>4, <4>1, <4>2 DEF ProgressAt
    <3> QED
      BY <3>2, <3>3, <3>4
  <2> QED
    BY <1>0, <2>2, <2>3, <2>4 DEF SerialInv, ProgressInv
<1>5. CASE Reboot
  <2>1. \A q \in Procs : pc'[q] = "idle"
    BY <1>5 DEF Reboot
  <2>2. AloneInv' /\ ProgressInv'
    BY <2>1 DEF AloneInv, ProgressInv, ProgressAt
  <2>3. ReadyIsComplete'
    BY <1>5 DEF SerialInv, Reboot, disk, ReadyIsComplete, Complete
  <2> QED
    BY <1>0, <2>2, <2>3 DEF SerialInv
<1>6. CASE UNCHANGED vars
  BY <1>0, <1>6
  DEF vars, SerialInv, AloneInv, ProgressInv, ProgressAt, ReadyIsComplete, Complete,
      Opening, Vol
<1> QED
  BY <1>1, <1>2, <1>3, <1>4, <1>5, <1>6 DEF Next

(* The invariant of one command at a time, for all behaviours.             *)
LEMMA SerialInvariant == Serial /\ Spec => []SerialInv
BY InitSerial, SerialInductive, PTL DEF Spec

(* Run one at a time, and interrupted anywhere, the commands never leave a *)
(* volume marked Ready that lacks its key slot or its file system.         *)
THEOREM ReadyComplete == Serial /\ Spec => []ReadyIsComplete
<1>1. SerialInv => ReadyIsComplete
  BY DEF SerialInv
<1> QED
  BY <1>1, SerialInvariant, PTL

(* Run one at a time, no command but an init with --force-reinit destroys  *)
(* the data of an initialised volume.                                      *)
THEOREM DataKept == Serial /\ Spec => DataLostOnlyByForce
<1> DEFINE P == \A v \in Persistent : Recoverable(v) /\ ~Recoverable(v)' =>
          \/ UserWrites(v)
          \/ \E p \in Procs : pc[p] = "format" /\ Vol(p) = v /\ job[p].force
<1>1. SerialInv /\ [Next]_vars => [P]_vars
  <2> SUFFICES ASSUME SerialInv, Next, NEW v \in Persistent,
                      Recoverable(v), ~Recoverable(v)'
               PROVE  \/ UserWrites(v)
                      \/ \E p \in Procs : pc[p] = "format" /\ Vol(p) = v /\ job[p].force
    OBVIOUS
  <2>0. DiskOK /\ ControlOK /\ v \in Volumes
    BY TypeParts DEF SerialInv, CommonInv, Persistent
  <2>1. hdr'[v] # hdr[v] \/ payload'[v] # payload[v]
    BY DEF Recoverable
  <2>2. ASSUME NEW w \in Volumes, UserWrites(w) PROVE UserWrites(v)
    BY <2>0, <2>1, <2>2 DEF UserWrites, DiskOK
  <2>3. ASSUME NEW p \in Procs, Step(p)
        PROVE  pc[p] = "format" /\ Vol(p) = v /\ job[p].force
    <3>1. pc[p] # "idle" /\ Vol(p) \in Volumes
      BY <2>0, <2>3, StepMoves, VolInVolumes
    <3>2. ProgressAt(p)
      BY DEF SerialInv, ProgressInv
    <3>3. job[p].force \in BOOLEAN /\ hdr[v].state = "Ready"
      BY <2>0 DEF ControlOK, Jobs, Recoverable
    <3>4. CASE Format(p)
      <4>1. Vol(p) = v /\ pc[p] = "format"
        BY <2>0, <2>1, <3>1, <3>4 DEF Format, DiskOK
      <4>2. job[p].cmd = "init"
        BY <4>1 DEF SerialInv, CommonInv, ControlInv, Opening, Persistent
      <4> QED
        BY <3>2, <3>3, <4>1, <4>2 DEF ProgressAt
    <3>5. CASE MkfsStart(p) \/ MkfsEnd(p)
      <4>1. Vol(p) = v /\ pc[p] \in {"mkfs", "mkfs_runs"}
        BY <2>0, <2>1, <3>1, <3>5 DEF MkfsStart, MkfsEnd, DiskOK
      <4>2. job[p].cmd = "init"
        BY <4>1 DEF SerialInv, CommonInv, ControlInv, Opening, Persistent
      <4> QED
        BY <3>2, <3>3, <4>1, <4>2 DEF ProgressAt
    <3>6. CASE Mark(p)
      <4>1. payload' = payload
            /\ hdr'[v].state = "Ready" /\ hdr'[v].vk = hdr[v].vk /\ hdr'[v].slots = hdr[v].slots
        BY <2>0, <3>1, <3>3, <3>6 DEF Mark, DiskOK, Headers
      <4> QED
        BY <4>1 DEF Recoverable
    <3>7. CASE ~Format(p) /\ ~MkfsStart(p) /\ ~MkfsEnd(p) /\ ~Mark(p)
      <4>1. UNCHANGED <<hdr, payload>>
        BY <2>3, <3>7
        DEF Step, InitStatus, Confirm, OpenBegin, CheckInUse, IsInitialized, GetKey,
            Activate, MkfsFails, Unwind, DropTemp, CheckFs, CloseBegin, Close, CallFails,
            disk
      <4> QED
        BY <2>1, <4>1
    <3> QED
      BY <3>4, <3>5, <3>6, <3>7
  <2>4. ASSUME NEW p \in Procs, StartCommand(p) \/ Kill(p) PROVE FALSE
    BY <2>1, <2>4, StartStep DEF SerialInv, Kill, disk
  <2>5. ~Reboot
    BY <2>1 DEF Reboot, disk
  <2> QED
    BY <2>2, <2>3, <2>4, <2>5 DEF Next
<1>2. DataLostOnlyByForce <=> [][P]_vars
  BY DEF DataLostOnlyByForce
<1> QED
  BY <1>1, <1>2, SerialInvariant, PTL DEF Spec

-----------------------------------------------------------------------------
(* Refinement of the three-state contract. *)

(* Only a Ready volume is mapped under its own name. *)
ExposedReady == \A v \in Persistent : is_active(v) => hdr[v].state = "Ready"

(* What a step of a command does to one persistent volume. *)
AbstractStep(v) ==
    \/ hdr'[v].state = hdr[v].state /\ (Complete(v)' <=> Complete(v)) /\ mapping'[v] = mapping[v]
    \/ ~is_active(v) /\ hdr'[v].state \in {"None", "Initializing"} /\ mapping'[v] = mapping[v]
    \/ /\ hdr[v].state = "Initializing" /\ ~is_active(v)
       /\ hdr'[v].state = "Initializing" /\ Complete(v)' /\ mapping'[v] = mapping[v]
    \/ /\ hdr[v].state = "Initializing" /\ Complete(v) /\ hdr'[v].state = "Ready"
       /\ Complete(v)' /\ mapping'[v] = mapping[v] /\ ~is_active(v)
    \/ /\ hdr[v].state = "Ready" /\ hdr'[v].state = "Ready"
       /\ (Complete(v)' <=> Complete(v)) /\ is_active(v)'
    \/ hdr'[v].state = hdr[v].state /\ (Complete(v)' <=> Complete(v)) /\ mapping'[v] = NoVk

(* What a call does to a volume, seen as its init state, completeness and  *)
(* mapping, is one of the steps AbstractStep lists; it leaves other        *)
(* volumes alone.                                                          *)
LEMMA StepAbstract ==
    ASSUME SerialInv, NEW p \in Procs, Step(p)
    PROVE  \A v \in Persistent :
              /\ AbstractStep(v)
              /\ v # Vol(p) => UNCHANGED <<hdr[v], payload[v], mapping[v]>>
<1> USE DEF SerialInv, CommonInv, mapper, disk
<1>0. DiskOK /\ ControlOK
  BY TypeParts
<1>1. pc[p] # "idle" /\ Vol(p) \in Volumes
  BY <1>0, StepMoves, VolInVolumes
<1>2. ProgressAt(p)
  BY DEF ProgressInv
<1> SUFFICES ASSUME NEW v \in Persistent
             PROVE  /\ AbstractStep(v)
                    /\ v # Vol(p) => UNCHANGED <<hdr[v], payload[v], mapping[v]>>
  OBVIOUS
<1>3. v \in Volumes /\ v \notin Temporary
  BY DEF Persistent
<1>4. CASE hdr'[v] = hdr[v] /\ payload'[v] = payload[v]
           /\ (mapping'[v] = mapping[v] \/ (mapping'[v] = NoVk /\ v = Vol(p)))
  BY <1>4 DEF AbstractStep, Complete
<1>5. CASE Format(p)
  <2>1. CASE v = Vol(p)
    <3>0. PICK s, k : /\ s \in {"None", "Initializing"}
                      /\ hdr' = [hdr EXCEPT ![Vol(p)] = NewHeader(s, k)]
      BY <1>5 DEF Format
    <3>1. hdr'[v].state \in {"None", "Initializing"}
      BY <1>0, <1>3, <2>1, <3>0 DEF DiskOK, NewHeader
    <3>2. mapping' = mapping /\ ~is_active(v)
      BY <1>5, <2>1 DEF Format, is_dev_in_use, is_active
    <3> QED
      BY <2>1, <3>1, <3>2 DEF AbstractStep
  <2>2. CASE v # Vol(p)
    BY <1>0, <1>1, <1>3, <1>4, <1>5, <2>2 DEF Format, DiskOK
  <2> QED
    BY <2>1, <2>2
<1>6. CASE Activate(p)
  <2>1. UNCHANGED <<hdr, payload>> /\ pc[p] = "activate"
    BY <1>6 DEF Activate
  <2>2. CASE v = Vol(p) /\ Opening(p)
    <3>1. hdr[v].state = "Ready"
      BY <1>2, <2>1, <2>2 DEF ProgressAt
    <3>2. mapping'[v] = hdr[v].vk
      BY <1>0, <1>3, <1>6, <2>2 DEF Activate, DiskOK
    <3>3. CASE hdr[v].vk = NoVk
      BY <2>1, <2>2, <3>2, <3>3, <1>4
    <3>4. CASE hdr[v].vk # NoVk
      BY <2>1, <2>2, <3>1, <3>2, <3>4 DEF AbstractStep, Complete, is_active
    <3> QED
      BY <3>3, <3>4
  <2>3. CASE ~(v = Vol(p) /\ Opening(p))
    BY <1>0, <1>1, <1>3, <1>4, <1>6, <2>1, <2>3 DEF Activate, DiskOK
  <2> QED
    BY <2>2, <2>3
<1>7. CASE MkfsStart(p) \/ MkfsEnd(p)
  <2>1. UNCHANGED <<hdr, mapping>> /\ pc[p] \in {"mkfs", "mkfs_runs"}
    BY <1>7 DEF MkfsStart, MkfsEnd
  <2>2. CASE v # Vol(p)
    BY <1>0, <1>1, <1>3, <1>4, <1>7, <2>1, <2>2 DEF MkfsStart, MkfsEnd, DiskOK
  <2>3. CASE v = Vol(p)
    <3>1. job[p].cmd = "init" /\ v \in MakeFs
      BY <1>3, <2>1, <2>3 DEF ControlInv, Opening
    <3>2. hdr[v].state = "Initializing" /\ mapping[v] = NoVk /\ hdr[v].slots # {}
      BY <1>2, <2>1, <2>3, <3>1 DEF ProgressAt
    <3>3. CASE MkfsStart(p)
      <4>1. payload'[v].content = "partial"
        BY <1>0, <1>3, <2>3, <3>3 DEF MkfsStart, DiskOK
      <4>2. ~Complete(v) /\ ~Complete(v)'
        BY <1>2, <2>3, <3>1, <3>3, <4>1 DEF MkfsStart, ProgressAt, Complete, Finished
      <4> QED
        BY <2>1, <2>3, <4>2 DEF AbstractStep
    <3>4. CASE MkfsEnd(p)
      <4>1. payload'[v].content = "fs" /\ payload'[v].vk = hdr[v].vk
        BY <1>0, <1>2, <1>3, <2>3, <3>1, <3>4 DEF MkfsEnd, DiskOK, ProgressAt
      <4>2. Complete(v)'
        BY <2>1, <3>2, <4>1 DEF Complete, Finished
      <4> QED
        BY <2>1, <2>3, <3>2, <4>2 DEF AbstractStep, is_active
    <3> QED
      BY <1>7, <3>3, <3>4
  <2> QED
    BY <2>2, <2>3
<1>8. CASE Mark(p)
  <2>1. pc[p] = "mark" /\ UNCHANGED <<payload, mapping>>
    BY <1>8 DEF Mark
  <2>2. CASE v # Vol(p)
    BY <1>0, <1>1, <1>3, <1>4, <1>8, <2>1, <2>2 DEF Mark, DiskOK
  <2>3. CASE v = Vol(p)
    <3>1. job[p].cmd = "init"
      BY <1>3, <2>1, <2>3 DEF ControlInv, Opening
    <3>2. hdr[v].state = "Initializing" /\ Complete(v) /\ mapping[v] = NoVk
      BY <1>2, <2>1, <2>3, <3>1 DEF ProgressAt
    <3>3. /\ hdr'[v].state = "Ready" /\ hdr'[v].vk = hdr[v].vk
          /\ hdr'[v].slots = hdr[v].slots
      BY <1>0, <1>3, <1>8, <2>3 DEF Mark, DiskOK, Headers
    <3>4. Complete(v)'
      BY <2>1, <3>2, <3>3 DEF Complete
    <3> QED
      BY <2>1, <2>3, <3>2, <3>3, <3>4 DEF AbstractStep, is_active
  <2> QED
    BY <2>2, <2>3
<1>9. CASE ~Format(p) /\ ~Activate(p) /\ ~MkfsStart(p) /\ ~MkfsEnd(p) /\ ~Mark(p)
  <2>1. /\ UNCHANGED <<hdr, payload>>
        /\ UNCHANGED mapping \/ mapping' = [mapping EXCEPT ![Vol(p)] = NoVk]
    BY <1>9
    DEF Step, InitStatus, Confirm, OpenBegin, CheckInUse, IsInitialized, GetKey,
        MkfsFails, Unwind, DropTemp, CheckFs, CloseBegin, Close, CallFails,
        RemoveMapping, RemoveTemp
  <2> QED
    BY <1>0, <1>1, <1>3, <1>4, <2>1 DEF DiskOK
<1> QED
  BY <1>5, <1>6, <1>7, <1>8, <1>9

(* Every step keeps mapped persistent volumes Ready.                       *)
LEMMA ExposedInductive == SerialInv /\ ExposedReady /\ [Next]_vars => ExposedReady'
<1> SUFFICES ASSUME SerialInv, ExposedReady, [Next]_vars PROVE ExposedReady'
  OBVIOUS
<1>1. ASSUME NEW p \in Procs, Step(p) PROVE ExposedReady'
  BY <1>1, StepAbstract DEF AbstractStep, ExposedReady, is_active
<1>2. ASSUME NEW p \in Procs, StartCommand(p) \/ Kill(p) PROVE ExposedReady'
  BY <1>2, StartStep DEF SerialInv, Kill, disk, mapper, ExposedReady, is_active
<1>3. ASSUME NEW v \in Volumes, UserWrites(v) PROVE ExposedReady'
  BY <1>3 DEF UserWrites, mapper, ExposedReady, is_active
<1>4. CASE Reboot
  BY <1>4 DEF Reboot, ExposedReady, is_active, Persistent
<1>5. CASE UNCHANGED vars
  BY <1>5 DEF vars, ExposedReady, is_active
<1> QED
  BY <1>1, <1>2, <1>3, <1>4, <1>5 DEF Next

(* A call of a command that runs alone is a step of the contract, or       *)
(* changes nothing the contract speaks of.                                 *)
LEMMA StepContract ==
    ASSUME SerialInv, NEW p \in Procs, Step(p)
    PROVE  [Contract!Next]_(Contract!vars)
<1> DEFINE phase == [v \in Persistent |-> hdr[v].state]
           built == [v \in Persistent |-> Complete(v)]
           exposed == [v \in Persistent |-> is_active(v)]
<1>0. ASSUME NEW v \in Persistent, v # Vol(p)
      PROVE  /\ hdr'[v].state = hdr[v].state
             /\ Complete(v)' = Complete(v)
             /\ is_active(v)' = is_active(v)
  <2>1. hdr'[v] = hdr[v] /\ payload'[v] = payload[v] /\ mapping'[v] = mapping[v]
    BY <1>0, StepAbstract
  <2> QED
    BY <2>1 DEF Complete, is_active
<1>1. CASE Vol(p) \notin Persistent
  <2>1. phase' = phase /\ built' = built /\ exposed' = exposed
    BY <1>0, <1>1
  <2> QED
    BY <2>1 DEF Contract!vars
<1>2. ASSUME NEW v \in Persistent, v = Vol(p) PROVE [Contract!Next]_(Contract!vars)
  <2>1. phase' = [phase EXCEPT ![v] = hdr'[v].state]
    BY <1>0, <1>2
  <2>2. built' = [built EXCEPT ![v] = Complete(v)']
    BY <1>0, <1>2
  <2>3. exposed' = [exposed EXCEPT ![v] = is_active(v)']
    BY <1>0, <1>2
  <2>4. Complete(v)' \in BOOLEAN /\ Complete(v) \in BOOLEAN /\ is_active(v)' \in BOOLEAN
        /\ is_active(v) \in BOOLEAN
    BY DEF Complete, is_active
  <2>5. phase[v] = hdr[v].state /\ built[v] = Complete(v) /\ exposed[v] = is_active(v)
    BY <1>2
  <2>6. ASSUME mapping'[v] = mapping[v] PROVE exposed' = exposed
    BY <2>3, <2>6 DEF is_active
  <2>7. ASSUME Complete(v)' <=> Complete(v) PROVE built' = built
    <3>1. Complete(v)' = Complete(v)
      BY <2>4, <2>7
    <3> QED
      BY <2>2, <3>1
  <2>8. ASSUME hdr'[v].state = hdr[v].state PROVE phase' = phase
    BY <2>1, <2>8
  <2>9. CASE /\ hdr'[v].state = hdr[v].state
             /\ Complete(v)' <=> Complete(v)
             /\ mapping'[v] = mapping[v]
    BY <2>6, <2>7, <2>8, <2>9 DEF Contract!vars
  <2>10. CASE /\ ~is_active(v) /\ hdr'[v].state \in {"None", "Initializing"}
              /\ mapping'[v] = mapping[v]
    <3>1. Contract!Begin(v)
      BY <2>1, <2>2, <2>4, <2>5, <2>6, <2>10 DEF Contract!Begin
    <3> QED
      BY <1>2, <3>1 DEF Contract!Next
  <2>11. CASE /\ hdr[v].state = "Initializing" /\ ~is_active(v)
              /\ hdr'[v].state = "Initializing" /\ Complete(v)' /\ mapping'[v] = mapping[v]
    <3>1. Contract!Build(v)
      BY <2>2, <2>5, <2>6, <2>8, <2>11 DEF Contract!Build
    <3> QED
      BY <1>2, <3>1 DEF Contract!Next
  <2>12. CASE /\ hdr[v].state = "Initializing" /\ Complete(v) /\ hdr'[v].state = "Ready"
              /\ Complete(v)' /\ mapping'[v] = mapping[v]
    <3>1. Contract!Commit(v)
      BY <2>1, <2>5, <2>6, <2>7, <2>12 DEF Contract!Commit
    <3> QED
      BY <1>2, <3>1 DEF Contract!Next
  <2>13. CASE /\ hdr[v].state = "Ready" /\ hdr'[v].state = "Ready"
              /\ Complete(v)' <=> Complete(v)
              /\ is_active(v)'
    <3>1. Contract!Expose(v)
      BY <2>3, <2>5, <2>7, <2>8, <2>13 DEF Contract!Expose
    <3> QED
      BY <1>2, <3>1 DEF Contract!Next
  <2>14. CASE /\ hdr'[v].state = hdr[v].state
              /\ Complete(v)' <=> Complete(v)
              /\ mapping'[v] = NoVk
    <3>1. exposed \in [Persistent -> BOOLEAN] /\ exposed' \in [Persistent -> BOOLEAN]
      BY DEF is_active
    <3>2. exposed' = [exposed EXCEPT ![v] = FALSE]
      BY <2>3, <2>14 DEF is_active
    <3>3. \A w \in Persistent : exposed'[w] => exposed[w]
      BY <3>1, <3>2
    <3>4. Contract!Hide
      BY <2>7, <2>8, <2>14, <3>1, <3>3 DEF Contract!Hide
    <3> QED
      BY <3>4 DEF Contract!Next
  <2>15. AbstractStep(v)
    BY StepAbstract
  <2> QED
    BY <2>9, <2>10, <2>11, <2>12, <2>13, <2>14, <2>15 DEF AbstractStep
<1> QED
  BY <1>1, <1>2

(* The commands, run one at a time, implement the three-state contract:    *)
(* Ready means complete, only Ready volumes are exposed, and an exposed    *)
(* volume is not re-formatted.                                             *)
THEOREM LifecycleImplementsContract == Serial /\ Spec => ImplementsContract
<1>1. Init => Contract!Init
  <2> SUFFICES ASSUME Init PROVE Contract!Init
    OBVIOUS
  <2>1. \A v \in Persistent : hdr[v].state = "None" /\ hdr[v].slots = {} /\ mapping[v] = NoVk
    BY DEF Init, Persistent
  <2>2. [v \in Persistent |-> hdr[v].state] = [v \in Persistent |-> "None"]
    BY <2>1
  <2>3. [v \in Persistent |-> Complete(v)] = [v \in Persistent |-> FALSE]
    BY <2>1 DEF Complete
  <2>4. [v \in Persistent |-> is_active(v)] = [v \in Persistent |-> FALSE]
    BY <2>1 DEF is_active
  <2> QED
    BY <2>2, <2>3, <2>4 DEF Contract!Init
<1>2. Init => ExposedReady
  BY DEF Init, ExposedReady, is_active, Persistent
<1>3. SerialInv /\ ExposedReady /\ [Next]_vars => [Contract!Next]_(Contract!vars)
  <2> SUFFICES ASSUME SerialInv, ExposedReady, [Next]_vars
               PROVE  [Contract!Next]_(Contract!vars)
    OBVIOUS
  <2> DEFINE phase == [v \in Persistent |-> hdr[v].state]
             built == [v \in Persistent |-> Complete(v)]
             exposed == [v \in Persistent |-> is_active(v)]
  <2>0. DiskOK
    BY TypeParts DEF SerialInv, CommonInv
  <2>1. ASSUME UNCHANGED <<hdr, payload>> PROVE phase' = phase /\ built' = built
    BY <2>1 DEF Complete
  <2>2. ASSUME UNCHANGED mapping PROVE exposed' = exposed
    BY <2>2 DEF is_active
  <2>3. ASSUME NEW p \in Procs, Step(p) PROVE [Contract!Next]_(Contract!vars)
    BY <2>3, StepContract
  <2>4. ASSUME NEW p \in Procs, StartCommand(p) \/ Kill(p)
        PROVE  [Contract!Next]_(Contract!vars)
    <3>1. UNCHANGED <<hdr, payload, mapping>>
      BY <2>4, StartStep DEF SerialInv, Kill, disk, mapper
    <3> QED
      BY <2>1, <2>2, <3>1 DEF Contract!vars
  <2>5. ASSUME NEW w \in Volumes, UserWrites(w) PROVE [Contract!Next]_(Contract!vars)
    <3>1. /\ UNCHANGED <<hdr, mapping>> /\ is_active(w) /\ mapping[w] = hdr[w].vk
          /\ payload'[w].vk = hdr[w].vk /\ payload'[w].content \in Finished
          /\ \A v \in Volumes \ {w} : payload'[v] = payload[v]
      <4>1. is_active(w) /\ mapping[w] = hdr[w].vk
        BY <2>5 DEF UserWrites, SerialInv, CommonInv, KeyInv, MappedHeaderStays, is_active
      <4> QED
        BY <2>0, <2>5, <4>1 DEF UserWrites, mapper, DiskOK, Finished
    <3>2. ASSUME NEW v \in Persistent PROVE Complete(v)' = Complete(v)
      <4>1. CASE v = w
        <5>1. Complete(v)
          BY <3>1, <4>1 DEF ExposedReady, SerialInv, ReadyIsComplete
        <5>2. Complete(v)'
          BY <3>1, <4>1, <5>1 DEF Complete
        <5> QED
          BY <5>1, <5>2 DEF Complete
      <4>2. CASE v # w
        BY <3>1, <4>2 DEF Complete, Persistent
      <4> QED
        BY <4>1, <4>2
    <3>3. phase' = phase /\ built' = built
      BY <3>1, <3>2
    <3> QED
      BY <2>2, <3>1, <3>3 DEF Contract!vars
  <2>6. CASE Reboot
    <3>1. UNCHANGED <<hdr, payload>> /\ \A v \in Persistent : mapping'[v] = NoVk
      BY <2>6 DEF Reboot, disk, Persistent
    <3>2. exposed' \in [Persistent -> BOOLEAN] /\ \A v \in Persistent : ~exposed'[v]
      BY <3>1 DEF is_active
    <3>3. Contract!Hide
      BY <2>1, <3>1, <3>2 DEF Contract!Hide
    <3> QED
      BY <3>3 DEF Contract!Next
  <2>7. CASE UNCHANGED vars
    BY <2>1, <2>2, <2>7 DEF vars, Contract!vars
  <2> QED
    BY <2>3, <2>4, <2>5, <2>6, <2>7 DEF Next
<1> QED
  BY <1>1, <1>2, <1>3, ExposedInductive, SerialInvariant, PTL
  DEF Spec, ImplementsContract, Contract!Spec
=============================================================================
